--------------------------- MODULE CircuitBreaker ---------------------------
(***************************************************************************)
(* The LLM circuit breaker (backend/app/llm/circuit.py) shared by the      *)
(* threads of one backend process, with the two loops that drive it:       *)
(*   - _call_llm_with_retry (ingestion/batch.py): up to three attempts,    *)
(*     only availability failures are counted;                             *)
(*   - narrate (llm/gateway.py): one attempt, every exception is counted.  *)
(* Each method of the breaker holds its lock, so it is one step here; the  *)
(* provider call in between is not.                                        *)
(*                                                                         *)
(* age is the time since _opened_at, in ticks, and stops at Cooldown since *)
(* nothing tells later instants apart; Closed stands for None.  failures   *)
(* stops at FailureCap for the same reason.                                *)
(***************************************************************************)
EXTENDS Integers, FiniteSets

CONSTANTS
    Callers,      \* threads that call the provider through this breaker
    Threshold,    \* LLM_CB_THRESHOLD
    Cooldown,     \* LLM_CB_COOLDOWN_SECONDS, in ticks
    Tries,        \* attempts per call: len(_RETRY_BACKOFFS) + 1, or 1 for narrate
    CountsAll,    \* does the caller count a failure that is not retryable?
    FailureCap    \* bound: where the modelled failure counter saturates

ASSUME CallersFinite == IsFiniteSet(Callers)
ASSUME BreakerConstants ==
    /\ Threshold \in Nat \ {0} /\ Cooldown \in Nat \ {0} /\ Tries \in Nat \ {0}
    /\ CountsAll \in BOOLEAN
    /\ FailureCap \in Nat /\ FailureCap > Threshold + Cardinality(Callers)

VARIABLES
    failures, age,  \* the breaker: _failures, _opened_at
    pc,             \* per caller: idle, asking (before before_call), calling
    tries           \* per caller: attempts already made in this call

vars == <<failures, age, pc, tries>>

Closed == -1

\* _state_locked
State == IF age = Closed THEN "closed"
         ELSE IF age >= Cooldown THEN "half_open" ELSE "open"

Init ==
    /\ failures = 0 /\ age = Closed
    /\ pc = [c \in Callers |-> "idle"]
    /\ tries = [c \in Callers |-> 0]

\* A thread starts a parse or a narration.
Begin(c) ==
    /\ pc[c] = "idle"
    /\ pc' = [pc EXCEPT ![c] = "asking"]
    /\ tries' = [tries EXCEPT ![c] = 0]
    /\ UNCHANGED <<failures, age>>

\* Mutant of Admits: an open breaker lets calls through.
AdmitsAlways == TRUE

\* before_call raises CircuitOpenError only in the open state.
Admits == State # "open"

\* before_call, and the fast failure of the whole call when it raises.
BeforeCall(c) ==
    /\ pc[c] = "asking"
    /\ pc' = [pc EXCEPT ![c] = IF Admits THEN "calling" ELSE "idle"]
    /\ UNCHANGED <<failures, age, tries>>

\* Mutant of RecordSuccess: the streak is reset, the breaker stays tripped.
RecordSuccessKeepsOpen == failures' = 0 /\ UNCHANGED age

RecordSuccess == failures' = 0 /\ age' = Closed

\* record_failure: trips when the streak reaches the threshold, and never
\* touches an _opened_at that is already set.
RecordFailure ==
    LET n == IF failures < FailureCap THEN failures + 1 ELSE failures IN
    /\ failures' = n
    /\ age' = IF n >= Threshold /\ age = Closed THEN 0 ELSE age

\* The provider answered with usable JSON.
CallSucceeds(c) ==
    /\ pc[c] = "calling"
    /\ RecordSuccess
    /\ pc' = [pc EXCEPT ![c] = "idle"]
    /\ UNCHANGED tries

LastTry(c) == tries[c] + 1 >= Tries

\* Mutant of CallFails: the loop variable is not advanced.
CallFailsForever(c) ==
    /\ pc[c] = "calling"
    /\ RecordFailure
    /\ pc' = [pc EXCEPT ![c] = "asking"]
    /\ UNCHANGED tries

\* A network error, timeout, 5xx or 429: counted, then retried after a backoff
\* (the wait is the time spent in "asking").
CallFails(c) ==
    /\ pc[c] = "calling"
    /\ RecordFailure
    /\ pc' = [pc EXCEPT ![c] = IF LastTry(c) THEN "idle" ELSE "asking"]
    /\ tries' = [tries EXCEPT ![c] = IF LastTry(c) THEN @ ELSE @ + 1]

\* A failure that is not retryable (bad JSON, 4xx): the call ends.
CallRejected(c) ==
    /\ pc[c] = "calling"
    /\ IF CountsAll THEN RecordFailure ELSE UNCHANGED <<failures, age>>
    /\ pc' = [pc EXCEPT ![c] = "idle"]
    /\ UNCHANGED tries

\* The monotonic clock, as far as the breaker can tell instants apart.
Tick ==
    /\ age # Closed /\ age < Cooldown
    /\ age' = age + 1
    /\ UNCHANGED <<failures, pc, tries>>

CallEnds(c) == CallSucceeds(c) \/ CallFails(c) \/ CallRejected(c)

Next == Tick \/ \E c \in Callers : Begin(c) \/ BeforeCall(c) \/ CallEnds(c)

\* A thread runs on, a provider call ends (httpx has a timeout) and time passes.
Fairness ==
    /\ \A c \in Callers : WF_vars(BeforeCall(c)) /\ WF_vars(CallEnds(c))
    /\ WF_vars(Tick)

SafetySpec == Init /\ [][Next]_vars
Spec == SafetySpec /\ Fairness

-----------------------------------------------------------------------------
(* Properties *)

\* Every variable has its type.
TypeOK ==
    /\ failures \in 0..FailureCap
    /\ age \in Closed..Cooldown
    /\ pc \in [Callers -> {"idle", "asking", "calling"}]
    /\ tries \in [Callers -> 0..(Tries - 1)]

\* record_failure and record_success keep the two fields in step whatever the
\* order in which threads report: the breaker is closed exactly while fewer
\* than Threshold failures have been reported since the last success.
TrippedAtThreshold == age = Closed <=> failures < Threshold

\* "Avoids spending the three workers on 120 s timeouts" (circuit.py:1): before
\* the cooldown ends, an outage costs at most Threshold failed provider calls
\* plus the ones that were already under way when the breaker tripped.
InFlight == {c \in Callers : pc[c] = "calling"}

OutageCost ==
    State = "open" =>
        failures + Cardinality(InFlight) =< Threshold - 1 + Cardinality(Callers)

\* A call always returns to its caller: the retry loop is bounded and an open
\* breaker answers at once.
CallReturns == \A c \in Callers : pc[c] # "idle" ~> pc[c] = "idle"

=============================================================================
