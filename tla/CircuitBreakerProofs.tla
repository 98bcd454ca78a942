------------------------ MODULE CircuitBreakerProofs ------------------------
(***************************************************************************)
(* TrippedAtThreshold and OutageCost for every number of callers, every    *)
(* threshold, cooldown and number of attempts.  Together with the types    *)
(* they are inductive: OutageCost alone is not, since the step that trips  *)
(* the breaker must know that the streak was one below the threshold.      *)
(***************************************************************************)
EXTENDS CircuitBreaker, FiniteSetTheorems, TLAPS

IndInv == TypeOK /\ TrippedAtThreshold /\ OutageCost

\* The calls under way are among the callers, so they can be counted.
LEMMA InFlightFinite ==
    /\ IsFiniteSet(InFlight)
    /\ Cardinality(InFlight) \in Nat /\ Cardinality(Callers) \in Nat
    /\ Cardinality(InFlight) =< Cardinality(Callers)
<1>1. InFlight \subseteq Callers
  BY DEF InFlight
<1>2. QED
  BY <1>1, CallersFinite, FS_Subset, FS_CardinalityType

\* When a call ends, one call fewer is under way.
LEMMA OneFewer ==
    ASSUME NEW c \in Callers, pc \in [Callers -> {"idle", "asking", "calling"}],
           pc[c] = "calling", NEW v \in {"idle", "asking"},
           pc' = [pc EXCEPT ![c] = v]
    PROVE  /\ Cardinality(InFlight') = Cardinality(InFlight) - 1
           /\ Cardinality(InFlight') \in Nat
           /\ Cardinality(InFlight') =< Cardinality(Callers) - 1
<1>1. InFlight' = InFlight \ {c} /\ c \in InFlight
  BY DEF InFlight
<1>2. Cardinality(InFlight') = Cardinality(InFlight) - 1
  BY <1>1, InFlightFinite, FS_RemoveElement
<1>3. IsFiniteSet(InFlight')
  BY <1>1, InFlightFinite, FS_RemoveElement
<1>4. QED
  BY <1>2, <1>3, InFlightFinite, FS_CardinalityType

\* A reported failure keeps the two fields in step and, if the breaker is open
\* afterwards, the streak has grown by one or has just reached the threshold.
LEMMA FailureReported ==
    ASSUME TypeOK, TrippedAtThreshold, RecordFailure
    PROVE  /\ failures' \in 0..FailureCap /\ age' \in Closed..Cooldown
           /\ TrippedAtThreshold'
           /\ \/ age = Closed /\ failures' =< Threshold
              \/ age # Closed /\ age' = age /\ failures' =< failures + 1
  BY BreakerConstants, InFlightFinite
  DEF TypeOK, TrippedAtThreshold, RecordFailure, Closed

\* One step of any thread, or of the clock, keeps the invariant.
LEMMA Step == IndInv /\ [Next]_vars => IndInv'
<1> SUFFICES ASSUME IndInv, [Next]_vars PROVE IndInv'
  OBVIOUS
<1> USE BreakerConstants, InFlightFinite
<1>1. CASE Tick
  <2>1. InFlight' = InFlight
    BY <1>1 DEF Tick, InFlight
  <2>2. QED
    BY <1>1, <2>1 DEF Tick, IndInv, TypeOK, TrippedAtThreshold, OutageCost, State, Closed
<1>2. ASSUME NEW c \in Callers, Begin(c) PROVE IndInv'
  <2>1. InFlight' = InFlight
    BY <1>2 DEF Begin, InFlight, IndInv, TypeOK
  <2>2. TypeOK'
    BY <1>2 DEF Begin, IndInv, TypeOK
  <2>3. QED
    BY <1>2, <2>1, <2>2 DEF Begin, IndInv, TrippedAtThreshold, OutageCost, State
<1>3. ASSUME NEW c \in Callers, BeforeCall(c) PROVE IndInv'
  <2>1. TypeOK' /\ TrippedAtThreshold'
    BY <1>3 DEF BeforeCall, IndInv, TypeOK, TrippedAtThreshold
  <2>2. CASE Admits
    BY <1>3, <2>1, <2>2 DEF BeforeCall, IndInv, OutageCost, State, Admits
  <2>3. CASE ~Admits
    <3>1. InFlight' = InFlight
      BY <1>3, <2>3 DEF BeforeCall, InFlight, IndInv, TypeOK
    <3>2. QED
      BY <1>3, <2>1, <3>1 DEF BeforeCall, IndInv, OutageCost, State
  <2>4. QED
    BY <2>2, <2>3
<1>4. ASSUME NEW c \in Callers, CallSucceeds(c) PROVE IndInv'
  BY <1>4 DEF CallSucceeds, RecordSuccess, IndInv, TypeOK, TrippedAtThreshold,
              OutageCost, State, Closed
<1>5. ASSUME NEW c \in Callers, CallFails(c) PROVE IndInv'
  <2>1. TypeOK' /\ TrippedAtThreshold'
    BY <1>5, FailureReported DEF CallFails, LastTry, IndInv, TypeOK
  <2>2. /\ Cardinality(InFlight') = Cardinality(InFlight) - 1
        /\ Cardinality(InFlight') \in Nat
        /\ Cardinality(InFlight') =< Cardinality(Callers) - 1
    BY <1>5, OneFewer DEF CallFails, IndInv, TypeOK
  <2>3. OutageCost'
    BY <1>5, <2>1, <2>2, FailureReported
    DEF CallFails, IndInv, TypeOK, OutageCost, State, Closed
  <2>4. QED
    BY <2>1, <2>3 DEF IndInv
<1>6. ASSUME NEW c \in Callers, CallRejected(c) PROVE IndInv'
  <2>1. TypeOK' /\ TrippedAtThreshold'
    BY <1>6, FailureReported DEF CallRejected, IndInv, TypeOK, TrippedAtThreshold
  <2>2. /\ Cardinality(InFlight') = Cardinality(InFlight) - 1
        /\ Cardinality(InFlight') \in Nat
        /\ Cardinality(InFlight') =< Cardinality(Callers) - 1
    BY <1>6, OneFewer DEF CallRejected, IndInv, TypeOK
  <2>3. OutageCost'
    BY <1>6, <2>1, <2>2, FailureReported
    DEF CallRejected, IndInv, TypeOK, OutageCost, State, Closed
  <2>4. QED
    BY <2>1, <2>3 DEF IndInv
<1>7. CASE UNCHANGED vars
  <2>1. InFlight' = InFlight
    BY <1>7 DEF vars, InFlight
  <2>2. QED
    BY <1>7, <2>1 DEF vars, IndInv, TypeOK, TrippedAtThreshold, OutageCost, State
<1>8. QED
  BY <1>1, <1>2, <1>3, <1>4, <1>5, <1>6, <1>7 DEF Next, CallEnds

\* A new breaker is closed with an empty streak and nobody calling.
LEMMA Start == Init => IndInv
<1>1. QED
  BY BreakerConstants
  DEF Init, IndInv, TypeOK, TrippedAtThreshold, OutageCost, State, Closed

\* The breaker's fields and its callers' local state keep their types.
THEOREM TypeCorrect == SafetySpec => []TypeOK
<1>1. IndInv => TypeOK
  BY DEF IndInv
<1>2. QED
  BY <1>1, Start, Step, PTL DEF SafetySpec

\* The breaker is closed exactly while fewer than Threshold failures have been
\* reported since the last success, however many threads report.
THEOREM Tripped == SafetySpec => []TrippedAtThreshold
<1>1. IndInv => TrippedAtThreshold
  BY DEF IndInv
<1>2. QED
  BY <1>1, Start, Step, PTL DEF SafetySpec

\* Until the cooldown ends, an outage costs at most Threshold provider calls
\* plus those of the other callers that were already under way.
THEOREM OutageBounded == SafetySpec => []OutageCost
<1>1. IndInv => OutageCost
  BY DEF IndInv
<1>2. QED
  BY <1>1, Start, Step, PTL DEF SafetySpec

=============================================================================
