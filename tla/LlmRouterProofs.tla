-------------------------- MODULE LlmRouterProofs --------------------------
(***************************************************************************)
(* Proofs about LlmRouter, for any number of requests, keys and            *)
(* capabilities and any limits.  The accounting only needs that acquire    *)
(* tests the counters, and that a lease is out exactly in the phases that  *)
(* hold one.  That no request sleeps on while it could be let through      *)
(* needs the clock: a window is in order, so what a waiting request was    *)
(* kept out by lasts until its timer ends, or until a release wakes it.    *)
(***************************************************************************)
EXTENDS LlmRouter, FiniteSetTheorems, SequenceTheorems, WellFoundedInduction, TLAPS

Holding == {"calling", "streaming", "dropped"}

\* The types the accounting rests on.
Shape ==
    /\ inFlight \in [Keys -> Nat] /\ globalInFlight \in Nat
    /\ capInFlight \in [Capabilities -> Nat] /\ cursor \in Keys
    /\ pc \in [Requests -> Phases]
    /\ lease \in [Requests -> Keys \cup {NoKey}]

\* A lease is out exactly between the grant and the release, or for ever.
LeaseHeld == \A r \in Requests : lease[r] # NoKey <=> pc[r] \in Holding

\* The limits on the counters, which acquire tests.
Within ==
    /\ \A k \in Keys : inFlight[k] =< KeyConcurrency
    /\ \A c \in Capabilities : capInFlight[c] =< CapLimit[c]
    /\ globalInFlight =< MaxConcurrency

IndInv == Shape /\ LeaseHeld /\ InFlightExact /\ Within

\* Taking one element out of a finite set of requests, or putting one in.
LEMMA OneMore ==
    ASSUME NEW S \in SUBSET Requests, NEW r \in Requests
    PROVE  /\ IsFiniteSet(S) /\ Cardinality(S) \in Nat
           /\ r \notin S => Cardinality(S \cup {r}) = Cardinality(S) + 1
           /\ r \in S => Cardinality(S \ {r}) = Cardinality(S) - 1 /\ Cardinality(S) > 0
  <1>1. IsFiniteSet(S) BY RequestsFinite, FS_Subset
  <1>2. Cardinality(S) \in Nat BY <1>1, FS_CardinalityType
  <1>3. r \notin S => Cardinality(S \cup {r}) = Cardinality(S) + 1
    BY <1>1, FS_AddElement
  <1>4. ASSUME r \in S
        PROVE  Cardinality(S \ {r}) = Cardinality(S) - 1 /\ Cardinality(S) > 0
    <2>1. IsFiniteSet(S \ {r}) /\ Cardinality(S \ {r}) = Cardinality(S) - 1
      BY <1>1, <1>4, FS_RemoveElement
    <2>2. Cardinality(S \ {r}) \in Nat BY <2>1, FS_CardinalityType
    <2> QED BY <1>2, <2>1, <2>2
  <1> QED BY <1>1, <1>2, <1>3, <1>4

\* The key a grant takes is a key, and it is not busy.
LEMMA CandidateUsable ==
    ASSUME Shape, NEW r \in Requests, Admits(r)
    PROVE  Candidate(r) \in Keys /\ inFlight[Candidate(r)] < KeyConcurrency
  <1>1. PICK k \in Scanned(r) : Usable(k, r) BY DEF Admits
  <1>2. Candidate(r) \in Scanned(r) /\ Usable(Candidate(r), r)
    BY <1>1 DEF Candidate
  <1>3. \A n \in 0..(NKeys - 1) : KeyAt(n) \in Keys
    BY RouterConfig DEF KeyAt, Keys, Shape
  <1>4. Candidate(r) \in Keys BY <1>2, <1>3 DEF Scanned
  <1>5. ~(inFlight[Candidate(r)] >= KeyConcurrency)
    BY <1>2 DEF Usable, Full, Busy
  <1> QED BY <1>4, <1>5, RouterConfig DEF Shape

\* Grant adds one lease to each of the three counts.
LEMMA GrantStep ==
    ASSUME IndInv, NEW r \in Requests, Grant(r)
    PROVE  IndInv'
  <1> DEFINE k == Candidate(r)
             c == CapOf[r]
  <1>1. k \in Keys /\ inFlight[k] < KeyConcurrency
    BY CandidateUsable DEF IndInv, Grant
  <1>2. c \in Capabilities BY RequestShape
  <1>3. lease[r] = NoKey
    BY DEF IndInv, LeaseHeld, Grant, Holding
  <1>4. /\ inFlight' = [inFlight EXCEPT ![k] = @ + 1]
        /\ capInFlight' = [capInFlight EXCEPT ![c] = @ + 1]
        /\ globalInFlight' = globalInFlight + 1
        /\ lease' = [lease EXCEPT ![r] = k]
        /\ pc' = [pc EXCEPT ![r] = "calling"]
        /\ cursor' = (k + 1) % NKeys
        /\ globalInFlight < MaxConcurrency /\ capInFlight[c] < CapLimit[c]
    BY DEF Grant, Admits
  <1> HIDE DEF k
  <1>5. Shape'
    <2>1. cursor' \in Keys BY <1>1, <1>4, RouterConfig DEF Keys
    <2> QED BY <1>1, <1>2, <1>4, <2>1 DEF IndInv, Shape, Phases
  <1>6. LeaseHeld'
    BY <1>1, <1>4, RequestShape DEF IndInv, Shape, LeaseHeld, Holding
  <1>7. InFlightExact'
    <2>1. ASSUME NEW q \in Keys
          PROVE  Leased(q)' = IF q = k THEN Leased(q) \cup {r} ELSE Leased(q)
      BY <1>1, <1>3, <1>4, RequestShape DEF IndInv, Shape, Leased
    <2>2. ASSUME NEW q \in Keys PROVE inFlight'[q] = Cardinality(Leased(q)')
      <3>1. Leased(q) \in SUBSET Requests BY DEF Leased
      <3>2. r \notin Leased(q) BY <1>3, RequestShape DEF Leased
      <3> QED BY <1>1, <1>4, <2>1, <3>1, <3>2, OneMore DEF IndInv, Shape, InFlightExact
    <2>3. ASSUME NEW d \in Capabilities
          PROVE  LeasedFor(d)' = IF d = c THEN LeasedFor(d) \cup {r} ELSE LeasedFor(d)
      BY <1>1, <1>3, <1>4, RequestShape DEF IndInv, Shape, LeasedFor
    <2>4. ASSUME NEW d \in Capabilities
          PROVE  capInFlight'[d] = Cardinality(LeasedFor(d)')
      <3>1. LeasedFor(d) \in SUBSET Requests /\ r \notin LeasedFor(d)
        BY <1>3 DEF LeasedFor
      <3> QED BY <1>2, <1>4, <2>3, <3>1, OneMore DEF IndInv, Shape, InFlightExact
    <2>5. AllLeased' = AllLeased \cup {r} /\ r \notin AllLeased
      BY <1>1, <1>3, <1>4, RequestShape DEF IndInv, Shape, AllLeased
    <2>6. globalInFlight' = Cardinality(AllLeased')
      <3>1. AllLeased \in SUBSET Requests BY DEF AllLeased
      <3> QED BY <1>4, <2>5, <3>1, OneMore DEF IndInv, InFlightExact
    <2> QED BY <2>2, <2>4, <2>6 DEF InFlightExact
  <1>8. Within'
    <2>1. ASSUME NEW q \in Keys PROVE inFlight'[q] =< KeyConcurrency
      BY <1>1, <1>4, RouterConfig DEF IndInv, Shape, Within
    <2>2. ASSUME NEW d \in Capabilities PROVE capInFlight'[d] =< CapLimit[d]
      <3>1. CapLimit[d] \in Nat BY RouterConfig
      <3>2. CASE d = c BY <1>2, <1>4, <3>1, <3>2 DEF IndInv, Shape
      <3>3. CASE d # c BY <1>2, <1>4, <3>1, <3>3 DEF IndInv, Shape, Within
      <3> QED BY <3>2, <3>3
    <2>3. globalInFlight' =< MaxConcurrency
      BY <1>4, RouterConfig DEF IndInv, Shape
    <2> QED BY <2>1, <2>2, <2>3 DEF Within
  <1> QED BY <1>5, <1>6, <1>7, <1>8 DEF IndInv

\* A release takes one lease from each of the three counts, and none of them
\* was 0.
LEMMA ReleaseStep ==
    ASSUME IndInv, NEW r \in Requests, NEW ok, NEW phase \in Phases \ Holding,
           pc[r] \in Holding, Release(r, ok, phase)
    PROVE  IndInv'
  <1> DEFINE k == lease[r]
             c == CapOf[r]
  <1>1. k \in Keys BY DEF IndInv, Shape, LeaseHeld
  <1>2. c \in Capabilities BY RequestShape
  <1>3. /\ inFlight' = [inFlight EXCEPT ![k] = Less(@)]
        /\ capInFlight' = [capInFlight EXCEPT ![c] = Less(@)]
        /\ globalInFlight' = Less(globalInFlight)
        /\ lease' = [lease EXCEPT ![r] = NoKey]
        /\ pc' = Woken(r, phase)
        /\ cursor' = cursor
    BY DEF Release, Counted
  <1>4. Shape'
    BY <1>1, <1>2, <1>3 DEF IndInv, Shape, Less, Woken, Phases
  <1>5. LeaseHeld'
    <2>1. ASSUME NEW q \in Requests
          PROVE  lease'[q] # NoKey <=> pc'[q] \in Holding
      <3>1. CASE q = r BY <3>1, <1>3 DEF IndInv, Shape, Woken
      <3>2. CASE q # r
        <4>1. lease'[q] = lease[q] BY <3>2, <1>3 DEF IndInv, Shape
        <4>2. pc'[q] = IF pc[q] = "waiting" THEN "asking" ELSE pc[q]
          BY <3>2, <1>3 DEF Woken
        <4> QED BY <4>1, <4>2 DEF IndInv, LeaseHeld, Holding
      <3> QED BY <3>1, <3>2
    <2> QED BY <2>1 DEF LeaseHeld
  <1>6. InFlightExact'
    <2>1. ASSUME NEW q \in Keys
          PROVE  Leased(q)' = IF q = k THEN Leased(q) \ {r} ELSE Leased(q)
      BY <1>1, <1>3, RequestShape DEF IndInv, Shape, Leased
    <2>2. ASSUME NEW q \in Keys PROVE inFlight'[q] = Cardinality(Leased(q)')
      <3>1. Leased(q) \in SUBSET Requests BY DEF Leased
      <3>2. q = k => r \in Leased(q) BY DEF Leased
      <3> QED BY <1>1, <1>3, <2>1, <3>1, <3>2, OneMore
            DEF IndInv, Shape, InFlightExact, Less
    <2>3. ASSUME NEW d \in Capabilities
          PROVE  LeasedFor(d)' = IF d = c THEN LeasedFor(d) \ {r} ELSE LeasedFor(d)
      BY <1>1, <1>3, RequestShape DEF IndInv, Shape, LeasedFor
    <2>4. ASSUME NEW d \in Capabilities
          PROVE  capInFlight'[d] = Cardinality(LeasedFor(d)')
      <3>1. LeasedFor(d) \in SUBSET Requests BY DEF LeasedFor
      <3>2. d = c => r \in LeasedFor(d) BY <1>1, RequestShape DEF LeasedFor
      <3> QED BY <1>2, <1>3, <2>3, <3>1, <3>2, OneMore
            DEF IndInv, Shape, InFlightExact, Less
    <2>5. AllLeased' = AllLeased \ {r} /\ r \in AllLeased
      BY <1>1, <1>3, RequestShape DEF IndInv, Shape, AllLeased
    <2>6. globalInFlight' = Cardinality(AllLeased')
      <3>1. AllLeased \in SUBSET Requests BY DEF AllLeased
      <3> QED BY <1>3, <2>5, <3>1, OneMore DEF IndInv, InFlightExact, Less
    <2> QED BY <2>2, <2>4, <2>6 DEF InFlightExact
  <1>7. Within'
    <2>1. \A n \in Nat : Less(n) \in Nat /\ Less(n) =< n BY DEF Less
    <2>2. ASSUME NEW q \in Keys PROVE inFlight'[q] =< KeyConcurrency
      BY <1>1, <1>3, <2>1, RouterConfig DEF IndInv, Shape, Within
    <2>3. ASSUME NEW d \in Capabilities PROVE capInFlight'[d] =< CapLimit[d]
      <3>1. CapLimit[d] \in Nat BY RouterConfig
      <3>2. capInFlight[d] \in Nat /\ capInFlight[d] =< CapLimit[d]
        BY DEF IndInv, Shape, Within
      <3>3. capInFlight'[d] =< capInFlight[d] /\ capInFlight'[d] \in Nat
        BY <1>2, <1>3, <2>1, <3>2 DEF IndInv, Shape
      <3> QED BY <3>1, <3>2, <3>3
    <2>4. globalInFlight' =< MaxConcurrency
      BY <1>3, <2>1, RouterConfig DEF IndInv, Shape, Within
    <2> QED BY <2>2, <2>3, <2>4 DEF Within
  <1> QED BY <1>4, <1>5, <1>6, <1>7 DEF IndInv

\* Every other step keeps the leases and the counters, and stays on its side
\* of the phases that hold a lease.
LEMMA OtherStep ==
    ASSUME IndInv, UNCHANGED <<inFlight, globalInFlight, capInFlight, cursor, lease>>,
           pc' \in [Requests -> Phases],
           \A r \in Requests : pc'[r] \in Holding <=> pc[r] \in Holding
    PROVE  IndInv'
  BY DEF IndInv, Shape, LeaseHeld, InFlightExact, Within, Leased, LeasedFor, AllLeased

\* Init satisfies the invariant of the accounting.
LEMMA Start == Init => IndInv
  <1> SUFFICES ASSUME Init PROVE IndInv OBVIOUS
  <1>1. Shape BY RouterConfig DEF Init, Shape, Keys, Phases
  <1>2. LeaseHeld BY DEF Init, LeaseHeld, Holding
  <1>3. InFlightExact
    <2>1. /\ \A k \in Keys : Leased(k) = {}
          /\ \A c \in Capabilities : LeasedFor(c) = {}
          /\ AllLeased = {}
      BY RequestShape DEF Init, Leased, LeasedFor, AllLeased
    <2>2. Cardinality({}) = 0 BY FS_EmptySet
    <2> QED BY <2>1, <2>2 DEF Init, InFlightExact
  <1>4. Within BY RouterConfig DEF Init, Within
  <1> QED BY <1>1, <1>2, <1>3, <1>4 DEF IndInv

\* Every step keeps it.
LEMMA Step == IndInv /\ [Next]_vars => IndInv'
  <1> SUFFICES ASSUME IndInv, [Next]_vars PROVE IndInv' OBVIOUS
  <1>1. CASE UNCHANGED vars
    BY <1>1, OtherStep DEF IndInv, Shape, vars
  <1>2. CASE Tick
    BY <1>2, OtherStep DEF IndInv, Shape, Tick, schedVars
  <1>3. ASSUME NEW r \in Requests, Arrive(r) \/ Acquire(r) \/ Upstream(r) \/ Resume(r)
        PROVE  IndInv'
    <2>1. CASE Arrive(r)
      BY <2>1, OtherStep DEF IndInv, Shape, Arrive, keyVars, schedVars, Phases, Holding
    <2>2. CASE Grant(r) BY <2>2, GrantStep
    <2>3. CASE Wait(r)
      BY <2>3, OtherStep DEF IndInv, Shape, Wait, keyVars, schedVars, Phases, Holding
    <2>4. CASE Break(r)
      BY <2>4, OtherStep DEF IndInv, Shape, Break, keyVars, schedVars, Phases, Holding
    <2>5. CASE Refuse(r)
      BY <2>5, OtherStep DEF IndInv, Shape, Refuse, keyVars, schedVars, Phases, Holding
    <2>6. CASE TimedOut(r)
      <3>1. CASE left[r] = 0
        BY <2>6, <3>1, OtherStep
          DEF IndInv, Shape, TimedOut, keyVars, schedVars, Phases, Holding
      <3>2. CASE left[r] # 0
        BY <2>6, <3>2, OtherStep
          DEF IndInv, Shape, TimedOut, keyVars, schedVars, Phases, Holding
      <3> QED BY <3>1, <3>2
    <2>7. CASE Answer(r)
      <3>1. "idle" \in Phases \ Holding /\ pc[r] \in Holding /\ Release(r, TRUE, "idle")
        BY <2>7 DEF Answer, Phases, Holding
      <3> QED BY <3>1, ReleaseStep
    <2>8. CASE Fail(r)
      <3>1. pc[r] \in Holding /\ {"idle", "backoff"} \subseteq Phases \ Holding
        BY <2>8 DEF Fail, Phases, Holding
      <3>2. Release(r, FALSE, "backoff") \/ Release(r, FALSE, "idle") BY <2>8 DEF Fail
      <3> QED BY <3>1, <3>2, ReleaseStep
    <2>9. CASE StreamStarts(r)
      BY <2>9, OtherStep DEF IndInv, Shape, StreamStarts, keyVars, schedVars, Phases, Holding
    <2>10. CASE StreamEnds(r)
      <3>1. "idle" \in Phases \ Holding /\ pc[r] \in Holding
        BY <2>10 DEF StreamEnds, Phases, Holding
      <3>2. PICK ok \in BOOLEAN : Release(r, ok, "idle") BY <2>10 DEF StreamEnds
      <3> QED BY <3>1, <3>2, ReleaseStep
    <2>11. CASE StreamDropped(r)
      BY <2>11, OtherStep DEF IndInv, Shape, StreamDropped, keyVars, schedVars, Phases, Holding
    <2>12. CASE Resume(r)
      BY <2>12, OtherStep DEF IndInv, Shape, Resume, keyVars, schedVars, Phases, Holding
    <2> QED BY <1>3, <2>1, <2>2, <2>3, <2>4, <2>5, <2>6, <2>7, <2>8, <2>9, <2>10,
               <2>11, <2>12 DEF Acquire, Upstream
  <1> QED BY <1>1, <1>2, <1>3 DEF Next

\* What the types need besides: an attempt is left for a request that sleeps
\* before the next one.
Local ==
    /\ failures \in [Keys -> 0..(CircuitThreshold - 1)]
    /\ openFor \in [Keys -> 0..CircuitCooldown]
    /\ est \in [Requests -> Nat] /\ attempt \in [Requests -> 0..Retries]
    /\ left \in [Requests -> 0..QueueWait]
    /\ \A r \in Requests : pc[r] = "backoff" => attempt[r] < Retries

\* A release keeps them, for any phase but the back-off of a last attempt.
LEMMA ReleaseLocal ==
    ASSUME IndInv, Local, NEW r \in Requests, NEW ok \in BOOLEAN, NEW phase \in Phases,
           pc[r] \in Holding, Release(r, ok, phase),
           \/ phase = "backoff" /\ attempt[r] < Retries
              /\ UNCHANGED <<est, attempt, left, timer>>
           \/ phase # "backoff" /\ Leave(r)
    PROVE  Local'
  <1>1. lease[r] \in Keys BY DEF IndInv, Shape, LeaseHeld
  <1>2. Streak(lease[r], ok) \in 0..(CircuitThreshold - 1)
    BY <1>1, RouterConfig DEF Local, Streak, Trips
  <1>3. failures' \in [Keys -> 0..(CircuitThreshold - 1)]
    BY <1>1, <1>2 DEF Local, Release
  <1>4. openFor' \in [Keys -> 0..CircuitCooldown]
    BY <1>1, RouterConfig DEF Local, Release
  <1>5. /\ est' \in [Requests -> Nat] /\ attempt' \in [Requests -> 0..Retries]
        /\ left' \in [Requests -> 0..QueueWait]
    BY RouterConfig DEF Local, Leave
  <1>6. ASSUME NEW q \in Requests, pc'[q] = "backoff" PROVE attempt'[q] < Retries
    <2>1. pc'[q] = IF q = r THEN phase ELSE IF pc[q] = "waiting" THEN "asking" ELSE pc[q]
      BY DEF Release, Woken
    <2>2. CASE q = r BY <1>6, <2>1, <2>2 DEF Leave
    <2>3. CASE q # r BY <1>6, <2>1, <2>3 DEF Local, Leave
    <2> QED BY <2>2, <2>3
  <1> QED BY <1>3, <1>4, <1>5, <1>6 DEF Local

\* So does every other step.
LEMMA LocalStep == IndInv /\ Local /\ [Next]_vars => Local'
  <1> SUFFICES ASSUME IndInv, Local, [Next]_vars PROVE Local' OBVIOUS
  <1>0. pc \in [Requests -> Phases] BY DEF IndInv, Shape
  <1>1. CASE UNCHANGED vars BY <1>1 DEF Local, vars
  <1>2. CASE Tick
    <2>1. \A m \in Nat : \A n \in 0..m : Less(n) \in 0..m BY DEF Less
    <2> QED BY <1>2, <2>1, RouterConfig DEF Local, Tick
  <1>3. ASSUME NEW r \in Requests, Arrive(r) \/ Acquire(r) \/ Upstream(r) \/ Resume(r)
        PROVE  Local'
    <2>1. CASE Arrive(r)
      BY <1>0, <2>1, RequestShape, RouterConfig DEF Local, Arrive, keyVars
    <2>2. CASE Grant(r) BY <1>0, <2>2, RouterConfig DEF Local, Grant
    <2>3. CASE Wait(r) BY <1>0, <2>3 DEF Local, Wait, keyVars
    <2>4. CASE Break(r) BY <1>0, <2>4, RouterConfig DEF Local, Break, Leave, keyVars
    <2>5. CASE Refuse(r) BY <1>0, <2>5, RouterConfig DEF Local, Refuse, Leave, keyVars
    <2>6. CASE TimedOut(r)
      <3>1. CASE left[r] = 0
        BY <1>0, <2>6, <3>1, RouterConfig DEF Local, TimedOut, Leave, keyVars
      <3>2. CASE left[r] # 0
        BY <1>0, <2>6, <3>2 DEF Local, TimedOut, keyVars
      <3> QED BY <3>1, <3>2
    <2>7. CASE Answer(r)
      <3>1. "idle" \in Phases /\ pc[r] \in Holding /\ Release(r, TRUE, "idle") /\ Leave(r)
        BY <2>7 DEF Answer, Phases, Holding
      <3> QED BY <3>1, ReleaseLocal
    <2>8. CASE Fail(r)
      <3>1. pc[r] \in Holding /\ {"idle", "backoff"} \subseteq Phases
        BY <2>8 DEF Fail, Phases, Holding
      <3>2. CASE attempt[r] < Retries
        BY <2>8, <3>1, <3>2, ReleaseLocal DEF Fail
      <3>3. CASE ~(attempt[r] < Retries)
        BY <2>8, <3>1, <3>3, ReleaseLocal DEF Fail
      <3> QED BY <3>2, <3>3
    <2>9. CASE StreamStarts(r)
      BY <1>0, <2>9 DEF Local, StreamStarts, keyVars
    <2>10. CASE StreamEnds(r)
      <3>1. "idle" \in Phases /\ pc[r] \in Holding /\ Leave(r)
        BY <2>10 DEF StreamEnds, Phases, Holding
      <3>2. PICK ok \in BOOLEAN : Release(r, ok, "idle") BY <2>10 DEF StreamEnds
      <3> QED BY <3>1, <3>2, ReleaseLocal
    <2>11. CASE StreamDropped(r)
      BY <1>0, <2>11 DEF Local, StreamDropped, keyVars
    <2>12. CASE Resume(r)
      BY <1>0, <2>12, RouterConfig DEF Local, Resume, keyVars
    <2> QED BY <1>3, <2>1, <2>2, <2>3, <2>4, <2>5, <2>6, <2>7, <2>8, <2>9, <2>10,
               <2>11, <2>12 DEF Acquire, Upstream
  <1> QED BY <1>1, <1>2, <1>3 DEF Next

-----------------------------------------------------------------------------
(* The windows, the timers and the waiting requests *)

\* A non-empty set of numbers has a least element, and Min is it.
LEMMA Least ==
    ASSUME NEW S \in SUBSET Nat, S # {}
    PROVE  Min(S) \in S /\ \A n \in S : Min(S) =< n
  <1>1. PICK x \in S : \A y \in S : ~(<<y, x>> \in OpToRel(<, Nat))
    BY NatLessThanWellFounded, WFMin
  <1>2. ASSUME NEW y \in S PROVE ~(y < x)
    <2>1. ~(<<y, x>> \in {p \in Nat \X Nat : p[1] < p[2]}) BY <1>1, Zenon DEF OpToRel
    <2> QED BY <2>1
  <1>3. \A y \in S : x =< y BY <1>2
  <1> QED BY <1>3 DEF Min

Entry == [left : 1..Window, tokens : Nat]

\* The oldest entry of a window is the first to leave it.
Sorted(window) ==
    \A m, n \in DOMAIN window : m =< n => window[m].left =< window[n].left

Windows ==
    /\ recent \in [Keys -> Seq(Entry)] /\ timer \in [Requests -> 0..QueueWait]
    /\ \A k \in Keys : Sorted(recent[k])

\* What Spent counts.
Tokens(window) == UNION {{n} \X (1..window[n].tokens) : n \in DOMAIN window}

\* Spent is a function of the window alone.
LEMMA SpentIsTokens == \A k \in Keys : Spent(k) = Cardinality(Tokens(recent[k]))
  BY DEF Spent, Tokens

\* The sum of a window's estimates is a number, and a new entry only adds to it.
LEMMA SpentGrows ==
    ASSUME NEW w \in Seq(Entry), NEW e \in Entry
    PROVE  /\ Cardinality(Tokens(w)) \in Nat /\ Cardinality(Tokens(Append(w, e))) \in Nat
           /\ Cardinality(Tokens(w)) =< Cardinality(Tokens(Append(w, e)))
  <1>1. ASSUME NEW x \in Seq(Entry) PROVE IsFiniteSet(Tokens(x))
    <2> DEFINE Of(n) == {n} \X (1..x[n].tokens)
               f == [n \in DOMAIN x |-> Of(n)]
               T == {Of(n) : n \in DOMAIN x}
    <2>1. DOMAIN x = 1..Len(x) /\ Len(x) \in Nat OBVIOUS
    <2>2. IsFiniteSet(DOMAIN x) BY <2>1, FS_Interval
    <2>3. f \in Surjection(DOMAIN x, T) BY DEF Surjection
    <2>4. IsFiniteSet(T) BY <2>2, <2>3, FS_Surjection
    <2>5. ASSUME NEW n \in DOMAIN x PROVE IsFiniteSet(Of(n))
      <3>0. x[n] \in Entry OBVIOUS
      <3>1. x[n].tokens \in Nat BY <3>0 DEF Entry
      <3>2. IsFiniteSet(1..x[n].tokens) BY <3>1, FS_Interval
      <3>3. IsFiniteSet({n}) BY FS_Singleton
      <3> QED BY <3>2, <3>3, FS_Product
    <2>6. IsFiniteSet(UNION T) BY <2>4, <2>5, FS_UNION
    <2> QED BY <2>6 DEF Tokens
  <1>2. Append(w, e) \in Seq(Entry) OBVIOUS
  <1>3. \A n \in DOMAIN w : n \in DOMAIN Append(w, e) /\ Append(w, e)[n] = w[n] OBVIOUS
  <1>4. Tokens(w) \subseteq Tokens(Append(w, e))
    <2> SUFFICES ASSUME NEW t \in Tokens(w) PROVE t \in Tokens(Append(w, e)) OBVIOUS
    <2>1. PICK n \in DOMAIN w : t \in {n} \X (1..w[n].tokens) BY DEF Tokens
    <2>2. t \in {n} \X (1..Append(w, e)[n].tokens) BY <1>3, <2>1
    <2> QED BY <1>3, <2>2 DEF Tokens
  <1> QED BY <1>1, <1>2, <1>4, FS_Subset, FS_CardinalityType

\* _prune leaves a window in order, without what has run out, and does not
\* touch one whose oldest entry has time left.
LEMMA PruneKeeps ==
    ASSUME NEW w \in Seq([left : 0..Window, tokens : Nat]), Sorted(w)
    PROVE  /\ Pruned(w) \in Seq(Entry) /\ Sorted(Pruned(w))
           /\ w # <<>> /\ w[1].left > 0 => Pruned(w) = w
  <1> DEFINE live == {n \in DOMAIN w : w[n].left > 0} \cup {Len(w) + 1}
             first == Min(live)
  <1>1. DOMAIN w = 1..Len(w) /\ Len(w) \in Nat OBVIOUS
  <1>2. live \in SUBSET Nat /\ live # {} BY <1>1
  <1>3. first \in live /\ \A n \in live : first =< n BY <1>2, Least
  <1>4. first \in 1..(Len(w) + 1) BY <1>1, <1>3
  <1>5. Pruned(w) = SubSeq(w, first, Len(w)) BY DEF Pruned
  <1>6. \A n \in DOMAIN w : w[n].left \in 0..Window /\ w[n].tokens \in Nat
                            /\ w[n] = [left |-> w[n].left, tokens |-> w[n].tokens]
    <2> SUFFICES ASSUME NEW n \in DOMAIN w
                 PROVE  w[n].left \in 0..Window /\ w[n].tokens \in Nat
                        /\ w[n] = [left |-> w[n].left, tokens |-> w[n].tokens]
      OBVIOUS
    <2>1. w[n] \in [left : 0..Window, tokens : Nat] BY <1>1, ElementOfSeq
    <2> QED BY <2>1
  <1>7. \A n \in first..Len(w) : w[n].left > 0
    <2> SUFFICES ASSUME NEW n \in first..Len(w) PROVE w[n].left > 0 OBVIOUS
    <2>1. first \in DOMAIN w /\ n \in DOMAIN w /\ first =< n BY <1>1, <1>4
    <2>2. w[first].left > 0 BY <1>1, <1>3, <2>1
    <2> QED BY <1>6, <2>1, <2>2 DEF Sorted
  <1>8. ASSUME w # <<>>, w[1].left > 0 PROVE first = 1
    <2>1. 1 \in live BY <1>1, <1>8
    <2>2. first =< 1 BY <1>3, <2>1
    <2> QED BY <1>1, <1>4, <2>2
  <1> HIDE DEF first, live
  <1>9. /\ Len(Pruned(w)) = Len(w) - first + 1
        /\ DOMAIN Pruned(w) = 1..(Len(w) - first + 1)
        /\ \A n \in 1..(Len(w) - first + 1) : Pruned(w)[n] = w[first + n - 1]
    BY <1>1, <1>4, <1>5
  <1>10. Pruned(w) \in Seq(Entry)
    <2>1. ASSUME NEW n \in first..Len(w) PROVE w[n] \in Entry
      <3>1. n \in DOMAIN w BY <1>1, <1>4
      <3>2. w[n].left \in 1..Window BY <1>6, <1>7, <3>1, RouterConfig
      <3> QED BY <1>6, <3>1, <3>2 DEF Entry
    <2>2. first \in Int /\ Len(w) \in Int BY <1>1, <1>4
    <2> QED BY <1>5, <2>1, <2>2, SubSeqProperties
  <1>11. Sorted(Pruned(w))
    <2> SUFFICES ASSUME NEW m \in DOMAIN Pruned(w), NEW n \in DOMAIN Pruned(w), m =< n
                 PROVE  Pruned(w)[m].left =< Pruned(w)[n].left
      BY DEF Sorted
    <2>0. m \in 1..(Len(w) - first + 1) /\ n \in 1..(Len(w) - first + 1) BY <1>9
    <2>1. \A i \in 1..(Len(w) - first + 1) : first + i - 1 \in 1..Len(w) BY <1>1, <1>4
    <2>2. first + m - 1 =< first + n - 1 BY <1>1, <1>4, <2>0
    <2>3. w[first + m - 1].left =< w[first + n - 1].left BY <1>1, <2>0, <2>1, <2>2 DEF Sorted
    <2> QED BY <1>9, <2>0, <2>3
  <1>12. ASSUME first = 1 PROVE Pruned(w) = w
    BY <1>1, <1>5, <1>12
  <1> QED BY <1>8, <1>10, <1>11, <1>12

\* The round robin reaches every key.
LEMMA KeysInTurn ==
    ASSUME Shape
    PROVE  /\ \A n \in 0..(NKeys - 1) : KeyAt(n) \in Keys
           /\ \A k \in Keys : \E n \in 0..(NKeys - 1) : k = KeyAt(n)
  <1>0. cursor \in 0..(NKeys - 1) /\ NKeys \in Nat \ {0}
    BY RouterConfig DEF Shape, Keys
  <1>1. \A n \in 0..(NKeys - 1) : KeyAt(n) \in Keys BY <1>0 DEF KeyAt, Keys
  <1>2. ASSUME NEW k \in Keys PROVE \E n \in 0..(NKeys - 1) : k = KeyAt(n)
    <2>1. k \in 0..(NKeys - 1) BY DEF Keys
    <2>2. CASE cursor =< k
      <3>1. k - cursor \in 0..(NKeys - 1) /\ cursor + (k - cursor) = k BY <1>0, <2>1, <2>2
      <3>2. k % NKeys = k BY <1>0, <2>1
      <3> QED BY <3>1, <3>2 DEF KeyAt
    <2>3. CASE k < cursor
      <3>1. /\ k - cursor + NKeys \in 0..(NKeys - 1)
            /\ cursor + (k - cursor + NKeys) = k + NKeys
        BY <1>0, <2>1, <2>3
      <3>2. (k + NKeys) % NKeys = k BY <1>0, <2>1
      <3> QED BY <3>1, <3>2 DEF KeyAt
    <2> QED BY <1>0, <2>1, <2>2, <2>3
  <1> QED BY <1>1, <1>2

\* A scan that finds no usable key has looked at all of them.
LEMMA ScansAll ==
    ASSUME Shape, NEW r \in Requests, ~\E k \in Scanned(r) : Usable(k, r)
    PROVE  Scanned(r) = Keys
  <1> DEFINE good == {n \in 0..(NKeys - 1) : Usable(KeyAt(n), r)}
  <1>1. good = {}
    <2> SUFFICES ASSUME good # {} PROVE FALSE OBVIOUS
    <2>1. good \in SUBSET Nat OBVIOUS
    <2>2. PICK m \in good : \A n \in good : m =< n BY <2>1, Least
    <2>3. \A i \in 0..(m - 1) : i \in 0..(NKeys - 1) /\ ~(m =< i) BY <2>2, RouterConfig
    <2>3a. \A i \in 0..(m - 1) : ~Usable(KeyAt(i), r) BY <2>2, <2>3
    <2>4. KeyAt(m) \in Scanned(r) BY <2>2, <2>3a DEF Scanned
    <2> QED BY <2>2, <2>4
  <1>2. \A m \in 0..(NKeys - 1) : \A i \in 0..(m - 1) : ~Usable(KeyAt(i), r)
    BY <1>1, RouterConfig
  <1>3. \A m \in 0..(NKeys - 1) : KeyAt(m) \in Scanned(r) BY <1>2 DEF Scanned
  <1> QED BY <1>3, KeysInTurn DEF Scanned

\* The next look of a request that is about to wait is no later than its
\* deadline, the end of any cooldown it saw or the end of an oldest entry.
LEMMA LooksInTime ==
    ASSUME IndInv, Local, Windows, NEW r \in Requests, ~Breaks(r)
    PROVE  /\ RetryAfter(r) \in 0..left[r]
           /\ \A k \in Scanned(r) : Tripped(k) => RetryAfter(r) =< openFor[k]
           /\ \A k \in Windowed(r) : /\ recent[k] # <<>>
                                     /\ RetryAfter(r) =< Head(recent[k]).left
  <1> DEFINE S == {left[r]} \cup {openFor[k] : k \in {q \in Scanned(r) : Tripped(q)}}
                  \cup {Head(recent[k]).left : k \in Windowed(r)}
  <1>1. Scanned(r) \subseteq Keys BY KeysInTurn DEF IndInv, Scanned
  <1>2. left[r] \in Nat BY RouterConfig DEF Local
  <1>3. \A k \in Keys : openFor[k] \in Nat BY RouterConfig DEF Local
  <1>4. ASSUME NEW k \in Windowed(r)
        PROVE  k \in Scanned(r) /\ recent[k] # <<>> /\ Head(recent[k]).left \in Nat
    <2>1. k \in Scanned(r) /\ k \in Keys BY <1>1 DEF Windowed
    <2>2. recent[k] \in Seq(Entry) BY <2>1 DEF Windows
    <2>3. recent[k] # <<>>
      <3>1. CASE RateLimited(k) BY <2>2, <3>1, RouterConfig DEF RateLimited
      <3>2. CASE Overdrawn(k, r) BY <2>1, <3>2 DEF Breaks
      <3> QED BY <3>1, <3>2 DEF Windowed
    <2>4. Head(recent[k]) \in Entry BY <2>2, <2>3, HeadTailProperties
    <2> QED BY <2>1, <2>3, <2>4, RouterConfig DEF Entry
  <1>5. S \in SUBSET Nat /\ S # {} BY <1>1, <1>2, <1>3, <1>4
  <1>6. RetryAfter(r) \in S /\ \A n \in S : RetryAfter(r) =< n
    <2>1. RetryAfter(r) = Min(S) BY DEF RetryAfter
    <2> QED BY <1>5, <2>1, Least
  <1>7. RetryAfter(r) \in Nat /\ RetryAfter(r) =< left[r] BY <1>5, <1>6
  <1> QED BY <1>2, <1>4, <1>6, <1>7

\* A tick leaves a window in order, and keeps it as it was, one tick older, if
\* its oldest entry is not about to run out.
LEMMA TickWindow ==
    ASSUME Windows, NEW k \in Keys
    PROVE  /\ Pruned(Aged(k)) \in Seq(Entry) /\ Sorted(Pruned(Aged(k)))
           /\ recent[k] # <<>> /\ Head(recent[k]).left > 1
              => /\ Pruned(Aged(k)) # <<>> /\ Len(Pruned(Aged(k))) = Len(recent[k])
                 /\ Head(Pruned(Aged(k))).left = Head(recent[k]).left - 1
                 /\ Tokens(Pruned(Aged(k))) = Tokens(recent[k])
  <1> DEFINE w == recent[k]
             a == Aged(k)
             Old == [left : 0..Window, tokens : Nat]
  <1>1. w \in Seq(Entry) /\ Len(w) \in Nat /\ DOMAIN w = 1..Len(w) /\ Sorted(w)
    BY DEF Windows
  <1>2. a = [n \in 1..Len(w) |-> [left |-> w[n].left - 1, tokens |-> w[n].tokens]]
    BY <1>1 DEF Aged
  <1> HIDE DEF w, a
  <1>3. ASSUME NEW n \in 1..Len(w)
        PROVE  /\ w[n].left \in 1..Window /\ w[n].tokens \in Nat
               /\ a[n].left = w[n].left - 1 /\ a[n].tokens = w[n].tokens /\ a[n] \in Old
    <2>1. w[n] \in Entry BY <1>1, ElementOfSeq
    <2>2. w[n].left \in 1..Window /\ w[n].tokens \in Nat BY <2>1 DEF Entry
    <2>3. w[n].left - 1 \in 0..Window BY <2>2, RouterConfig
    <2> QED BY <1>2, <2>2, <2>3
  <1>4. a \in Seq(Old) /\ Len(a) = Len(w) /\ DOMAIN a = 1..Len(w)
    BY <1>1, <1>2, <1>3
  <1>5. Sorted(a)
    <2> SUFFICES ASSUME NEW m \in 1..Len(w), NEW n \in 1..Len(w), m =< n
                 PROVE  a[m].left =< a[n].left
      BY <1>4 DEF Sorted
    <2>1. w[m].left =< w[n].left BY <1>1 DEF Sorted
    <2>2. /\ w[m].left \in Int /\ w[n].left \in Int
          /\ a[m].left = w[m].left - 1 /\ a[n].left = w[n].left - 1
      BY <1>3, RouterConfig
    <2> QED BY <2>1, <2>2
  <1>6. Pruned(a) \in Seq(Entry) /\ Sorted(Pruned(a)) BY <1>4, <1>5, PruneKeeps
  <1>7. ASSUME w # <<>>, Head(w).left > 1
        PROVE  /\ Pruned(a) # <<>> /\ Len(Pruned(a)) = Len(w)
               /\ Head(Pruned(a)).left = Head(w).left - 1 /\ Tokens(Pruned(a)) = Tokens(w)
    <2>1. 1 \in 1..Len(w) /\ Head(w) = w[1] BY <1>1, <1>7
    <2>2. a # <<>> /\ Head(a) = a[1] BY <1>4, <2>1
    <2>3. a[1].left = Head(w).left - 1 /\ a[1].left > 0 BY <1>3, <1>7, <2>1
    <2>4. Pruned(a) = a BY <1>4, <1>5, <2>2, <2>3, PruneKeeps
    <2>5. Tokens(a) = Tokens(w) BY <1>1, <1>3, <1>4 DEF Tokens
    <2> QED BY <1>4, <2>2, <2>3, <2>4, <2>5
  <1> QED BY <1>6, <1>7 DEF w, a

\* Steps that leave the windows alone, and no timer longer.
LEMMA SameWindows ==
    ASSUME Windows, recent' = recent,
           \/ timer' = timer
           \/ \E r \in Requests : timer' = [timer EXCEPT ![r] = 0]
    PROVE  Windows'
  BY RouterConfig DEF Windows

\* Every step keeps the windows in order and the timers within the deadline.
LEMMA WindowsStep == IndInv /\ Local /\ Windows /\ [Next]_vars => Windows'
  <1> SUFFICES ASSUME IndInv, Local, Windows, [Next]_vars PROVE Windows' OBVIOUS
  <1>1. CASE UNCHANGED vars BY <1>1, SameWindows DEF vars
  <1>2. CASE Tick
    <2>1. recent' = [k \in Keys |-> Pruned(Aged(k))] BY <1>2 DEF Tick
    <2>2. \A n \in 0..QueueWait : Less(n) \in 0..QueueWait BY RouterConfig DEF Less
    <2>3. timer' \in [Requests -> 0..QueueWait] BY <1>2, <2>2 DEF Tick, Windows
    <2> QED BY <2>1, <2>3, TickWindow DEF Windows
  <1>3. ASSUME NEW r \in Requests, Arrive(r) \/ Acquire(r) \/ Upstream(r) \/ Resume(r)
        PROVE  Windows'
    <2>1. CASE Grant(r)
      <3> DEFINE e == [left |-> Window, tokens |-> est[r]]
      <3>1. PICK k \in Keys : recent' = [recent EXCEPT ![k] = Append(recent[k], e)]
        BY <2>1, CandidateUsable DEF Grant, IndInv
      <3>2. e \in Entry BY RouterConfig DEF Local, Entry
      <3>3. recent[k] \in Seq(Entry) /\ Sorted(recent[k]) BY DEF Windows
      <3>4. Append(recent[k], e) \in Seq(Entry) BY <3>2, <3>3
      <3>5. Sorted(Append(recent[k], e))
        <4> DEFINE w == recent[k]
        <4>1. /\ DOMAIN Append(w, e) = 1..(Len(w) + 1) /\ Append(w, e)[Len(w) + 1] = e
              /\ \A n \in 1..Len(w) : Append(w, e)[n] = w[n]
              /\ Len(w) \in Nat /\ DOMAIN w = 1..Len(w)
          BY <3>3
        <4>2. \A n \in 1..Len(w) : w[n].left \in 1..Window
          <5> SUFFICES ASSUME NEW n \in 1..Len(w) PROVE w[n].left \in 1..Window OBVIOUS
          <5>1. w[n] \in Entry BY <3>3, ElementOfSeq
          <5> QED BY <5>1 DEF Entry
        <4> HIDE DEF w
        <4>3. \A n \in 1..Len(w) : w[n].left =< e.left BY <4>2, RouterConfig
        <4>4. e.left =< e.left BY RouterConfig
        <4>5. Sorted(w) BY <3>3 DEF w
        <4> HIDE DEF e
        <4>6. Sorted(Append(w, e)) BY <4>1, <4>3, <4>4, <4>5 DEF Sorted
        <4> QED BY <4>6 DEF w
      <3>6. timer' \in [Requests -> 0..QueueWait] BY <2>1, RouterConfig DEF Grant, Windows
      <3> HIDE DEF e
      <3> QED BY <3>1, <3>3, <3>4, <3>5, <3>6 DEF Windows
    <2>2. CASE Wait(r)
      <3>1. RetryAfter(r) \in 0..QueueWait
        BY <2>2, LooksInTime, RouterConfig DEF Wait, Local
      <3>2. recent' = recent /\ timer' = [timer EXCEPT ![r] = RetryAfter(r)]
        BY <2>2 DEF Wait, keyVars
      <3> QED BY <3>1, <3>2 DEF Windows
    <2>3. CASE Arrive(r) \/ StreamStarts(r) \/ StreamDropped(r) \/ Resume(r)
      BY <2>3, SameWindows DEF Arrive, StreamStarts, StreamDropped, Resume, keyVars
    <2>4. CASE Break(r) \/ Refuse(r) \/ TimedOut(r)
      BY <2>4, SameWindows DEF Break, Refuse, TimedOut, Leave, keyVars
    <2>5. CASE Answer(r) \/ Fail(r) \/ StreamEnds(r)
      BY <2>5, SameWindows DEF Answer, Fail, StreamEnds, Release, Leave
    <2> QED BY <1>3, <2>1, <2>2, <2>3, <2>4, <2>5 DEF Acquire, Upstream
  <1> QED BY <1>1, <1>2, <1>3 DEF Next

\* The key stays closed to the request for as long as its timer runs: until
\* its cooldown or its window's oldest entry ends, or until a release.
Shut(k, r) ==
    \/ openFor[k] >= timer[r]
    \/ Busy(k)
    \/ /\ recent[k] # <<>> /\ Head(recent[k]).left >= timer[r]
       /\ RateLimited(k) \/ (KeyTpm > 0 /\ Spent(k) + est[r] > KeyTpm)

\* What a request that sleeps waits for.
Barred(r) ==
    \/ globalInFlight >= MaxConcurrency
    \/ capInFlight[CapOf[r]] >= CapLimit[CapOf[r]]
    \/ \A k \in Keys : Shut(k, r)

Asleep == \A r \in Requests : pc[r] = "waiting" /\ timer[r] > 0 => Barred(r)

\* Who is barred is not admitted.
LEMMA AsleepIsEnough ==
    ASSUME IndInv, Local, Windows, Asleep
    PROVE  NoLostWakeup
  <1> SUFFICES ASSUME NEW r \in Requests, pc[r] = "waiting", Admits(r), timer[r] # 0
               PROVE  FALSE
    BY DEF NoLostWakeup
  <1>1. timer[r] \in Nat /\ timer[r] > 0 BY RouterConfig DEF Windows
  <1>2. Barred(r) BY <1>1 DEF Asleep
  <1>3. PICK k \in Keys : Usable(k, r)
    <2>1. Scanned(r) \subseteq Keys BY KeysInTurn DEF IndInv, Scanned
    <2> QED BY <2>1 DEF Admits
  <1>4. globalInFlight \in Nat /\ capInFlight[CapOf[r]] \in Nat /\ CapLimit[CapOf[r]] \in Nat
    BY RequestShape, RouterConfig DEF IndInv, Shape
  <1>5. Shut(k, r) BY <1>2, <1>3, <1>4, RouterConfig DEF Barred, Admits
  <1>6. openFor[k] \in Nat BY <1>3, RouterConfig DEF Local
  <1>7. ~(openFor[k] >= timer[r]) BY <1>1, <1>3, <1>6 DEF Usable, Full, Tripped
  <1> QED BY <1>3, <1>5, <1>7 DEF Shut, Usable, Full, Overdrawn

\* A request goes to sleep only when it is barred.
LEMMA WaitBarred ==
    ASSUME IndInv, Local, Windows, Asleep, NEW r \in Requests, Wait(r)
    PROVE  Asleep'
  <1> SUFFICES ASSUME NEW q \in Requests, (pc[q] = "waiting")', (timer[q] > 0)'
               PROVE  Barred(q)'
    BY DEF Asleep
  <1>0. UNCHANGED <<keyVars, schedVars, est>> BY DEF Wait
  <1>1. CASE q # r
    <2>1. pc'[q] = pc[q] /\ timer'[q] = timer[q] BY <1>1 DEF Wait, IndInv, Shape, Windows
    <2>2. Barred(q) BY <2>1 DEF Asleep
    <2> QED BY <1>0, <2>1, <2>2
          DEF Barred, Shut, Busy, RateLimited, Spent, keyVars, schedVars
  <1>2. CASE q = r
    <2>1. timer'[q] = RetryAfter(r) BY <1>2 DEF Wait, Windows
    <2>2. globalInFlight \in Nat /\ capInFlight[CapOf[r]] \in Nat /\ CapLimit[CapOf[r]] \in Nat
      BY RequestShape, RouterConfig DEF IndInv, Shape
    <2>3. CASE ~\E k \in Scanned(r) : Usable(k, r)
      <3>1. ASSUME NEW k \in Keys PROVE Shut(k, q)'
        <4>1. k \in Scanned(r) /\ ~Usable(k, r) BY <2>3, ScansAll DEF IndInv
        <4>2. CASE Tripped(k)
          <5>1. RetryAfter(r) =< openFor[k] BY <4>1, <4>2, LooksInTime DEF Wait
          <5>2. RetryAfter(r) \in 0..left[r] BY LooksInTime DEF Wait
          <5>3. openFor[k] \in Int BY RouterConfig DEF Local
          <5>4. openFor[k] >= RetryAfter(r) BY <5>1, <5>2, <5>3
          <5> QED BY <1>0, <2>1, <5>4 DEF Shut, keyVars
        <4>3. CASE Busy(k) BY <1>0, <4>3 DEF Shut, Busy, keyVars
        <4>4. CASE ~Tripped(k) /\ ~Busy(k)
          <5>1. k \in Windowed(r)
            BY <4>1, <4>4 DEF Windowed, Usable, Full
          <5>2. recent[k] # <<>> /\ RetryAfter(r) =< Head(recent[k]).left
            BY <5>1, LooksInTime DEF Wait
          <5>3. RetryAfter(r) \in 0..left[r] BY LooksInTime DEF Wait
          <5>4. Head(recent[k]) \in Entry BY <5>2, HeadTailProperties DEF Windows
          <5>5. Head(recent[k]).left >= RetryAfter(r)
            BY <5>2, <5>3, <5>4, RouterConfig DEF Entry
          <5>6. RateLimited(k) \/ (KeyTpm > 0 /\ Spent(k) + est[r] > KeyTpm)
            BY <5>1 DEF Windowed, Overdrawn
          <5> QED BY <1>0, <1>2, <2>1, <5>2, <5>5, <5>6
                DEF Shut, RateLimited, Spent, keyVars
        <4> QED BY <4>2, <4>3, <4>4
      <3> QED BY <3>1 DEF Barred
    <2>4. CASE \E k \in Scanned(r) : Usable(k, r)
      <3>1. \/ globalInFlight >= MaxConcurrency
            \/ capInFlight[CapOf[r]] >= CapLimit[CapOf[r]]
        BY <2>2, <2>4, RouterConfig DEF Wait, Admits
      <3> QED BY <1>0, <1>2, <3>1 DEF Barred, schedVars
    <2> QED BY <2>3, <2>4
  <1> QED BY <1>1, <1>2

\* A grant only closes keys: what barred another request bars it still.
LEMMA GrantBars ==
    ASSUME IndInv, Local, Windows, Asleep, NEW r \in Requests, Grant(r)
    PROVE  Asleep'
  <1> SUFFICES ASSUME NEW q \in Requests, (pc[q] = "waiting")', (timer[q] > 0)'
               PROVE  Barred(q)'
    BY DEF Asleep
  <1> DEFINE e == [left |-> Window, tokens |-> est[r]]
  <1>1. PICK k \in Keys : /\ recent' = [recent EXCEPT ![k] = Append(recent[k], e)]
                          /\ inFlight' = [inFlight EXCEPT ![k] = inFlight[k] + 1]
    BY CandidateUsable DEF Grant, IndInv
  <1>2. e \in Entry BY RouterConfig DEF Local, Entry
  <1>3. /\ pc' = [pc EXCEPT ![r] = "calling"] /\ timer' = [timer EXCEPT ![r] = 0]
        /\ globalInFlight' = globalInFlight + 1
        /\ capInFlight' = [capInFlight EXCEPT ![CapOf[r]] = capInFlight[CapOf[r]] + 1]
        /\ UNCHANGED <<openFor, est>>
    BY DEF Grant
  <1>4. q # r /\ pc[q] = "waiting" /\ timer'[q] = timer[q] /\ timer[q] > 0
    BY <1>3 DEF IndInv, Shape, Windows
  <1>5. Barred(q) BY <1>4 DEF Asleep
  <1> HIDE DEF e
  <1>6. CASE globalInFlight >= MaxConcurrency
    BY <1>3, <1>6, RouterConfig DEF IndInv, Shape, Barred
  <1>7. CASE capInFlight[CapOf[q]] >= CapLimit[CapOf[q]]
    <2>1. CapOf[q] \in Capabilities /\ CapOf[r] \in Capabilities BY RequestShape
    <2>2. capInFlight[CapOf[q]] \in Nat /\ CapLimit[CapOf[q]] \in Nat
      BY <2>1, RouterConfig DEF IndInv, Shape
    <2>3. capInFlight'[CapOf[q]] >= capInFlight[CapOf[q]] /\ capInFlight'[CapOf[q]] \in Nat
      BY <1>3, <2>1, <2>2 DEF IndInv, Shape
    <2> QED BY <1>7, <2>2, <2>3 DEF Barred
  <1>8. ASSUME NEW c \in Keys, Shut(c, q) PROVE Shut(c, q)'
    <2>1. CASE c # k
      <3>1. recent'[c] = recent[c] /\ inFlight'[c] = inFlight[c]
        BY <1>1, <2>1 DEF IndInv, Shape, Windows
      <3> QED BY <1>3, <1>4, <1>8, <3>1 DEF Shut, Busy, RateLimited, Spent
    <2>2. CASE c = k
      <3> DEFINE w == recent[k]
      <3>1. recent'[k] = Append(w, e) /\ inFlight'[k] = inFlight[k] + 1
        BY <1>1 DEF IndInv, Shape, Windows
      <3>2. w \in Seq(Entry) BY DEF Windows
      <3> HIDE DEF w
      <3>3. CASE openFor[k] >= timer[q] BY <1>3, <1>4, <2>2, <3>3 DEF Shut
      <3>4. CASE Busy(k)
        BY <2>2, <3>1, <3>4, RouterConfig DEF Shut, Busy, IndInv, Shape
      <3>5. CASE /\ w # <<>> /\ Head(w).left >= timer[q]
                 /\ RateLimited(k) \/ (KeyTpm > 0 /\ Spent(k) + est[q] > KeyTpm)
        <4>1. Append(w, e) # <<>> /\ Head(Append(w, e)) = Head(w)
              /\ Len(Append(w, e)) = Len(w) + 1 /\ Len(w) \in Nat
          BY <1>2, <3>2, <3>5
        <4>2. RateLimited(k) => RateLimited(k)'
          BY <3>1, <4>1, RouterConfig DEF RateLimited, w
        <4>3. Spent(k) + est[q] > KeyTpm => (Spent(k) + est[q] > KeyTpm)'
          <5>1. Spent(k) = Cardinality(Tokens(w)) BY SpentIsTokens DEF w
          <5>2. Spent(k)' = Cardinality(Tokens(Append(w, e)))
            BY <3>1 DEF Spent, Tokens
          <5>3. Spent(k) \in Nat /\ Spent(k)' \in Nat /\ Spent(k) =< Spent(k)'
            BY <1>2, <3>2, <5>1, <5>2, SpentGrows
          <5>4. est[q] \in Nat /\ est'[q] = est[q] BY <1>3 DEF Local
          <5> QED BY <5>3, <5>4, RouterConfig
        <4> QED BY <1>4, <2>2, <3>1, <3>5, <4>1, <4>2, <4>3 DEF Shut
      <3> QED BY <1>8, <2>2, <3>3, <3>4, <3>5 DEF Shut, w
    <2> QED BY <2>1, <2>2
  <1> QED BY <1>5, <1>6, <1>7, <1>8 DEF Barred

\* A tick brings a timer no closer to its end than what it waits for.
LEMMA TickBars ==
    ASSUME IndInv, Local, Windows, Asleep, Tick
    PROVE  Asleep'
  <1> SUFFICES ASSUME NEW q \in Requests, (pc[q] = "waiting")', (timer[q] > 0)'
               PROVE  Barred(q)'
    BY DEF Asleep
  <1>1. UNCHANGED <<inFlight, globalInFlight, capInFlight, pc, est>> BY DEF Tick, schedVars
  <1>2. timer[q] \in Nat /\ timer'[q] = Less(timer[q]) BY RouterConfig DEF Tick, Windows
  <1>3. timer[q] > 1 /\ timer'[q] = timer[q] - 1 BY <1>2 DEF Less
  <1>4. Barred(q) BY <1>1, <1>2, <1>3 DEF Asleep
  <1>5. ASSUME NEW k \in Keys, Shut(k, q) PROVE Shut(k, q)'
    <2>1. CASE openFor[k] >= timer[q]
      <3>1. openFor[k] \in Nat /\ openFor'[k] = Less(openFor[k])
        BY RouterConfig DEF Tick, Local
      <3>2. openFor'[k] >= timer'[q] BY <1>2, <1>3, <2>1, <3>1 DEF Less
      <3> QED BY <3>2 DEF Shut
    <2>2. CASE Busy(k) BY <1>1, <2>2 DEF Shut, Busy
    <2>3. CASE /\ recent[k] # <<>> /\ Head(recent[k]).left >= timer[q]
               /\ RateLimited(k) \/ (KeyTpm > 0 /\ Spent(k) + est[q] > KeyTpm)
      <3> DEFINE w == recent[k]
                 x == Pruned(Aged(k))
      <3>0. recent'[k] = x BY DEF Tick
      <3>1. Head(w) \in Entry BY <2>3, HeadTailProperties DEF Windows
      <3>2. Head(w).left \in Nat BY <3>1, RouterConfig DEF Entry
      <3>3. Head(w).left > 1 BY <1>2, <1>3, <2>3, <3>2
      <3>4. /\ x # <<>> /\ Len(x) = Len(w) /\ Head(x).left = Head(w).left - 1
            /\ Tokens(x) = Tokens(w)
        BY <2>3, <3>3, TickWindow
      <3> HIDE DEF w, x
      <3>5. Spent(k)' = Spent(k)
        <4>1. Spent(k) = Cardinality(Tokens(w)) BY SpentIsTokens DEF w
        <4>2. Spent(k)' = Cardinality(Tokens(x)) BY <3>0 DEF Spent, Tokens
        <4> QED BY <3>4, <4>1, <4>2
      <3>6. RateLimited(k)' <=> RateLimited(k) BY <3>0, <3>4 DEF RateLimited, w
      <3>7. Head(x).left >= timer'[q]
        <4>1. Head(w).left >= timer[q] BY <2>3 DEF w
        <4> QED BY <1>2, <1>3, <3>2, <3>4, <4>1
      <3> QED BY <1>1, <2>3, <3>0, <3>4, <3>5, <3>6, <3>7 DEF Shut
    <2> QED BY <1>5, <2>1, <2>2, <2>3 DEF Shut
  <1> QED BY <1>1, <1>4, <1>5 DEF Barred

\* Steps that change neither the scheduler nor a request that sleeps on.
LEMMA SameBars ==
    ASSUME Asleep, UNCHANGED <<keyVars, schedVars>>,
           \A q \in Requests : pc'[q] = "waiting" =>
               pc[q] = "waiting" /\ timer'[q] = timer[q] /\ est'[q] = est[q]
    PROVE  Asleep'
  <1> SUFFICES ASSUME NEW q \in Requests, (pc[q] = "waiting")', (timer[q] > 0)'
               PROVE  Barred(q)'
    BY DEF Asleep
  <1>1. pc[q] = "waiting" /\ timer'[q] = timer[q] /\ est'[q] = est[q] OBVIOUS
  <1>2. Barred(q) BY <1>1 DEF Asleep
  <1> QED BY <1>1, <1>2 DEF Barred, Shut, Busy, RateLimited, Spent, keyVars, schedVars

\* Every step leaves the requests that sleep on barred.
LEMMA AsleepStep == IndInv /\ Local /\ Windows /\ Asleep /\ [Next]_vars => Asleep'
  <1> SUFFICES ASSUME IndInv, Local, Windows, Asleep, [Next]_vars PROVE Asleep' OBVIOUS
  <1>0. /\ pc \in [Requests -> Phases] /\ est \in [Requests -> Nat]
        /\ timer \in [Requests -> 0..QueueWait]
    BY DEF IndInv, Shape, Local, Windows
  <1>1. CASE UNCHANGED vars BY <1>1, SameBars DEF vars, keyVars, schedVars
  <1>2. CASE Tick BY <1>2, TickBars
  <1>3. ASSUME NEW r \in Requests, Arrive(r) \/ Acquire(r) \/ Upstream(r) \/ Resume(r)
        PROVE  Asleep'
    <2>1. CASE Grant(r) BY <2>1, GrantBars
    <2>2. CASE Wait(r) BY <2>2, WaitBarred
    <2>3. CASE Arrive(r) \/ StreamStarts(r) \/ StreamDropped(r) \/ Resume(r)
      BY <1>0, <2>3, SameBars DEF Arrive, StreamStarts, StreamDropped, Resume
    <2>4. CASE Break(r) \/ Refuse(r)
      BY <1>0, <2>4, SameBars DEF Break, Refuse, Leave
    <2>5. CASE TimedOut(r)
      <3>1. CASE left[r] = 0 BY <1>0, <2>5, <3>1, SameBars DEF TimedOut, Leave
      <3>2. CASE left[r] # 0 BY <1>0, <2>5, <3>2, SameBars DEF TimedOut
      <3> QED BY <3>1, <3>2
    <2>6. CASE Answer(r) \/ Fail(r) \/ StreamEnds(r)
      <3>1. \E phase \in {"idle", "backoff"} : pc' = Woken(r, phase)
        BY <2>6 DEF Answer, Fail, StreamEnds, Release
      <3>2. \A q \in Requests : pc'[q] # "waiting" BY <3>1 DEF Woken
      <3> QED BY <3>2 DEF Asleep
    <2> QED BY <1>3, <2>1, <2>2, <2>3, <2>4, <2>5, <2>6 DEF Acquire, Upstream
  <1> QED BY <1>1, <1>2, <1>3 DEF Next

\* Nobody sleeps at the start.
LEMMA StartAsleep == Init => Local /\ Windows /\ Asleep
  <1> SUFFICES ASSUME Init PROVE Local /\ Windows /\ Asleep OBVIOUS
  <1>1. Local BY RouterConfig DEF Init, Local
  <1>2. Windows BY RouterConfig DEF Init, Windows, Sorted
  <1>3. Asleep BY DEF Init, Asleep
  <1> QED BY <1>1, <1>2, <1>3

\* The variables of the router keep their types, the number of attempts of a
\* request and the failures of a key their bounds.
THEOREM TypeCorrect == SafetySpec => []TypeOK
  <1>1. IndInv /\ Local /\ Windows => TypeOK
    BY DEF IndInv, Shape, Local, Windows, Entry, TypeOK
  <1> QED BY <1>1, Start, StartAsleep, Step, LocalStep, WindowsStep, PTL DEF SafetySpec

\* The scheduler's counters are the leases that are out, in every reachable
\* state: release is called once for every grant that acquire made, however
\* attempts, streams and failures interleave, dropped streams apart.
THEOREM Accounted == SafetySpec => []InFlightExact
  <1>1. IndInv => InFlightExact BY DEF IndInv
  <1> QED BY <1>1, Start, Step, PTL DEF SafetySpec

\* The provider never sees more calls of a capability, with a key, or in all,
\* than RouterScheduler's three limits allow.
THEOREM Bounded == SafetySpec => [](BoundedCalls /\ BoundedOverall)
  <1>1. IndInv => BoundedCalls /\ BoundedOverall
    <2> SUFFICES ASSUME IndInv PROVE BoundedCalls /\ BoundedOverall OBVIOUS
    <2>1. \A r \in Open : r \in Requests /\ lease[r] # NoKey
      BY DEF Open, IndInv, LeaseHeld, Holding
    <2>2. Cardinality(Open) =< MaxConcurrency
      <3>1. Open \subseteq AllLeased BY <2>1 DEF AllLeased
      <3>2. IsFiniteSet(AllLeased) BY RequestsFinite, FS_Subset DEF AllLeased
      <3>3. Cardinality(Open) =< Cardinality(AllLeased) /\ IsFiniteSet(Open)
        BY <3>1, <3>2, FS_Subset
      <3>4. Cardinality(Open) \in Nat BY <3>3, FS_CardinalityType
      <3> QED BY <3>3, <3>4, RouterConfig DEF IndInv, Shape, InFlightExact, Within
    <2>3. ASSUME NEW c \in Capabilities
          PROVE  Cardinality({r \in Open : CapOf[r] = c}) =< CapLimit[c]
      <3> DEFINE S == {r \in Open : CapOf[r] = c}
      <3>1. S \subseteq LeasedFor(c) BY <2>1 DEF LeasedFor
      <3>2. IsFiniteSet(LeasedFor(c)) BY RequestsFinite, FS_Subset DEF LeasedFor
      <3>3. Cardinality(S) =< Cardinality(LeasedFor(c)) /\ IsFiniteSet(S)
        BY <3>1, <3>2, FS_Subset
      <3>4. Cardinality(S) \in Nat BY <3>3, FS_CardinalityType
      <3> HIDE DEF S
      <3>5. Cardinality(S) =< CapLimit[c]
        BY <3>3, <3>4, RouterConfig DEF IndInv, Shape, InFlightExact, Within
      <3> QED BY <3>5 DEF S
    <2>4. ASSUME NEW k \in Keys
          PROVE  Cardinality({r \in Open : lease[r] = k}) =< KeyConcurrency
      <3> DEFINE S == {r \in Open : lease[r] = k}
      <3>1. S \subseteq Leased(k) BY <2>1 DEF Leased
      <3>2. IsFiniteSet(Leased(k)) BY RequestsFinite, FS_Subset DEF Leased
      <3>3. Cardinality(S) =< Cardinality(Leased(k)) /\ IsFiniteSet(S)
        BY <3>1, <3>2, FS_Subset
      <3>4. Cardinality(S) \in Nat BY <3>3, FS_CardinalityType
      <3> HIDE DEF S
      <3>5. Cardinality(S) =< KeyConcurrency
        BY <3>3, <3>4, RouterConfig DEF IndInv, Shape, InFlightExact, Within
      <3> QED BY <3>5 DEF S
    <2> QED BY <2>2, <2>3, <2>4 DEF BoundedCalls, BoundedOverall
  <1> QED BY <1>1, Start, Step, PTL DEF SafetySpec

\* No request sleeps in acquire while it could be let through, whatever the
\* limits, the windows and the cooldowns: the time-out of its condition.wait
\* ends with the first of the cooldowns and windows it waits for, and a release
\* wakes it.
THEOREM NeverSleepsOn == SafetySpec => []NoLostWakeup
  <1> QED BY Start, StartAsleep, Step, LocalStep, WindowsStep, AsleepStep, AsleepIsEnough, PTL
        DEF SafetySpec

=============================================================================
