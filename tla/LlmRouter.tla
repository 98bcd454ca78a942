----------------------------- MODULE LlmRouter -----------------------------
(***************************************************************************)
(* The LLM router (llm_router/main.py): RouterScheduler, which shares the  *)
(* provider's keys between concurrent requests, and proxy, which takes a   *)
(* lease for every attempt and gives it back.                              *)
(*                                                                         *)
(* The router is one asyncio process, and acquire and release hold the     *)
(* condition's lock, so they are atomic up to their next await; requests   *)
(* interleave at the awaits: condition.wait, the upstream call, the        *)
(* streamed answer and the back-off.                                       *)
(*                                                                         *)
(* One clock drives everything: openFor, left and timer are the ticks left *)
(* until opened_until, the deadline of acquire and the time-out of         *)
(* condition.wait; recent[k] holds, oldest first, what is left of the      *)
(* 60-second window for each request of key k, with its estimate.  The     *)
(* estimate is never 0 and proxy never reports the actual tokens, so       *)
(* request_times and token_events always have the same entries.            *)
(***************************************************************************)
EXTENDS Integers, Sequences, FiniteSets, FiniteSetsExt

CONSTANTS
    Requests,       \* requests the clients may send
    MaxOpen,        \* bound: requests that are open at the same time
    Capabilities,   \* text, vision, agent
    CapOf,          \* the capability each request asks for
    Estimates,      \* what _estimate_tokens may return
    NKeys,          \* number of provider keys
    NoKey,
    MaxConcurrency, KeyConcurrency, CapLimit,
    KeyRpm, KeyTpm,                     \* 0: no limit
    QueueWait, Window, CircuitCooldown, \* in ticks
    CircuitThreshold, Retries

Keys == 0..(NKeys - 1)

ASSUME RequestsFinite == IsFiniteSet(Requests)
ASSUME RequestShape ==
    /\ CapOf \in [Requests -> Capabilities] /\ Estimates \subseteq Nat \ {0}
    /\ NoKey \notin Keys
ASSUME RouterConfig ==
    /\ NKeys \in Nat \ {0} /\ MaxConcurrency \in Nat \ {0}
    /\ KeyConcurrency \in Nat \ {0} /\ CapLimit \in [Capabilities -> Nat \ {0}]
    /\ KeyRpm \in Nat /\ KeyTpm \in Nat /\ QueueWait \in Nat
    /\ Window \in Nat \ {0} /\ CircuitCooldown \in Nat
    /\ CircuitThreshold \in Nat \ {0} /\ Retries \in Nat

VARIABLES
    inFlight, failures, openFor, recent,  \* _KeyState, per key
    globalInFlight, capInFlight, cursor,  \* the scheduler
    pc, est, attempt, lease, left, timer  \* proxy and acquire, per request

keyVars == <<inFlight, failures, openFor, recent>>
schedVars == <<globalInFlight, capInFlight, cursor>>
vars == <<inFlight, failures, openFor, recent, globalInFlight, capInFlight,
          cursor, pc, est, attempt, lease, left, timer>>

\* idle: no request; asking: in acquire, about to look for a key; waiting: in
\* condition.wait; calling: the lease is held, upstream has not answered;
\* streaming: the answer is being forwarded; backoff: asleep before the next
\* attempt; dropped: the stream ended without its clean-up, for ever.
Phases == {"idle", "asking", "waiting", "calling", "streaming", "backoff", "dropped"}

Init ==
    /\ inFlight = [k \in Keys |-> 0] /\ failures = [k \in Keys |-> 0]
    /\ openFor = [k \in Keys |-> 0] /\ recent = [k \in Keys |-> <<>>]
    /\ globalInFlight = 0 /\ capInFlight = [c \in Capabilities |-> 0]
    /\ cursor = 0
    /\ pc = [r \in Requests |-> "idle"] /\ attempt = [r \in Requests |-> 0]
    /\ est = [r \in Requests |-> 0]
    /\ lease = [r \in Requests |-> NoKey]
    /\ left = [r \in Requests |-> 0] /\ timer = [r \in Requests |-> 0]

\* The request is answered, or gone: what it held in local variables is gone.
Leave(r) ==
    /\ est' = [est EXCEPT ![r] = 0]
    /\ attempt' = [attempt EXCEPT ![r] = 0]
    /\ left' = [left EXCEPT ![r] = 0]
    /\ timer' = [timer EXCEPT ![r] = 0]

\* proxy's first attempt; requests without a token or a JSON object are
\* answered before they reach the scheduler.
Arrive(r) ==
    /\ pc[r] = "idle" /\ Cardinality({q \in Requests : pc[q] # "idle"}) < MaxOpen
    /\ pc' = [pc EXCEPT ![r] = "asking"]
    /\ \E e \in Estimates : est' = [est EXCEPT ![r] = e]
    /\ left' = [left EXCEPT ![r] = QueueWait]
    /\ UNCHANGED <<keyVars, schedVars, attempt, lease, timer>>

-----------------------------------------------------------------------------
(* acquire *)

\* The sum of the window's estimates: its tokens, counted one by one.
Spent(k) ==
    Cardinality(UNION {{n} \X (1..recent[k][n].tokens) : n \in DOMAIN recent[k]})

\* Mutant of Busy: one call too many.
BusyBeyond(k) == inFlight[k] > KeyConcurrency

\* The reasons to pass over a key, in the order the loop tests them.
Tripped(k) == openFor[k] > 0
Busy(k) == inFlight[k] >= KeyConcurrency
RateLimited(k) == KeyRpm > 0 /\ Len(recent[k]) >= KeyRpm
Full(k) == Tripped(k) \/ Busy(k) \/ RateLimited(k)

\* The request's estimate does not fit into what the window has left.
Overdrawn(k, r) == ~Full(k) /\ KeyTpm > 0 /\ Spent(k) + est[r] > KeyTpm

Usable(k, r) == ~Full(k) /\ ~Overdrawn(k, r)

KeyAt(offset) == (cursor + offset) % NKeys

\* The keys the loop looks at: up to the first usable one, round robin.
Scanned(r) ==
    {KeyAt(n) : n \in {m \in 0..(NKeys - 1) :
                         \A i \in 0..(m - 1) : ~Usable(KeyAt(i), r)}}

Candidate(r) == CHOOSE k \in Scanned(r) : Usable(k, r)

\* token_events[0] of an empty window: acquire ends in an IndexError.
Breaks(r) == \E k \in Scanned(r) : Overdrawn(k, r) /\ recent[k] = <<>>

\* A candidate is found, and neither the router nor the capability is full.
Admits(r) ==
    /\ \E k \in Scanned(r) : Usable(k, r)
    /\ globalInFlight < MaxConcurrency
    /\ capInFlight[CapOf[r]] < CapLimit[CapOf[r]]

\* Keys the window keeps closed; a new look is due when its oldest entry ends.
Windowed(r) ==
    {k \in Scanned(r) : ~Tripped(k) /\ ~Busy(k) /\ (RateLimited(k) \/ Overdrawn(k, r))}

\* retry_after: the deadline, or an earlier moment at which a key that only
\* time keeps closed may open.
RetryAfter(r) ==
    Min({left[r]} \cup {openFor[k] : k \in {q \in Scanned(r) : Tripped(q)}}
                  \cup {Head(recent[k]).left : k \in Windowed(r)})

\* The lease is taken on the candidate.
Grant(r) ==
    /\ pc[r] = "asking" /\ ~Breaks(r) /\ Admits(r)
    /\ LET k == Candidate(r) IN
         /\ inFlight' = [inFlight EXCEPT ![k] = @ + 1]
         /\ recent' = [recent EXCEPT ![k] =
                         Append(@, [left |-> Window, tokens |-> est[r]])]
         /\ cursor' = (k + 1) % NKeys
         /\ lease' = [lease EXCEPT ![r] = k]
    /\ globalInFlight' = globalInFlight + 1
    /\ capInFlight' = [capInFlight EXCEPT ![CapOf[r]] = @ + 1]
    /\ pc' = [pc EXCEPT ![r] = "calling"]
    /\ left' = [left EXCEPT ![r] = 0]
    /\ timer' = [timer EXCEPT ![r] = 0]
    /\ UNCHANGED <<failures, openFor, est, attempt>>

\* No key, and time left: condition.wait.
Wait(r) ==
    /\ pc[r] = "asking" /\ ~Breaks(r) /\ ~Admits(r) /\ left[r] > 0
    /\ pc' = [pc EXCEPT ![r] = "waiting"]
    /\ timer' = [timer EXCEPT ![r] = RetryAfter(r)]
    /\ UNCHANGED <<keyVars, schedVars, est, attempt, lease, left>>

\* The IndexError, answered with 500.
Break(r) ==
    /\ pc[r] = "asking" /\ Breaks(r)
    /\ pc' = [pc EXCEPT ![r] = "idle"]
    /\ Leave(r)
    /\ UNCHANGED <<keyVars, schedVars, lease>>

\* CapacityError, answered with 429.
Refuse(r) ==
    /\ pc[r] = "asking" /\ ~Breaks(r) /\ ~Admits(r) /\ left[r] = 0
    /\ pc' = [pc EXCEPT ![r] = "idle"]
    /\ Leave(r)
    /\ UNCHANGED <<keyVars, schedVars, lease>>

\* condition.wait timed out: at the deadline the request is refused without
\* another look, before it the loop goes round.
TimedOut(r) ==
    /\ pc[r] = "waiting" /\ timer[r] = 0
    /\ IF left[r] = 0
         THEN pc' = [pc EXCEPT ![r] = "idle"] /\ Leave(r)
         ELSE pc' = [pc EXCEPT ![r] = "asking"] /\ UNCHANGED <<est, attempt, left, timer>>
    /\ UNCHANGED <<keyVars, schedVars, lease>>

-----------------------------------------------------------------------------
(* release, and the upstream call that leads to it *)

Less(n) == IF n > 0 THEN n - 1 ELSE 0

\* Mutant of Woken: nobody is notified.
WokenNobody(r, phase) == [pc EXCEPT ![r] = phase]

\* notify_all: every waiting request looks again.
Woken(r, phase) ==
    [q \in Requests |-> IF q = r THEN phase
                        ELSE IF pc[q] = "waiting" THEN "asking" ELSE pc[q]]

\* Mutant of Counted: the capability's counter is not given back.
CountedKeyOnly(r) ==
    /\ inFlight' = [inFlight EXCEPT ![lease[r]] = Less(@)]
    /\ globalInFlight' = Less(globalInFlight)
    /\ UNCHANGED capInFlight

\* The three counters of release.
Counted(r) ==
    /\ inFlight' = [inFlight EXCEPT ![lease[r]] = Less(@)]
    /\ globalInFlight' = Less(globalInFlight)
    /\ capInFlight' = [capInFlight EXCEPT ![CapOf[r]] = Less(@)]

\* One more failure of the key reaches the threshold.
Trips(k) == failures[k] + 1 >= CircuitThreshold

\* The key's consecutive failures after a release.
Streak(k, success) == IF success \/ Trips(k) THEN 0 ELSE failures[k] + 1

\* RouterScheduler.release of the lease of r, which goes on in the given phase.
Release(r, success, phase) ==
    LET k == lease[r] IN
    /\ Counted(r)
    /\ failures' = [failures EXCEPT ![k] = Streak(k, success)]
    /\ openFor' = IF ~success /\ Trips(k)
                    THEN [openFor EXCEPT ![k] = CircuitCooldown] ELSE openFor
    /\ lease' = [lease EXCEPT ![r] = NoKey]
    /\ pc' = Woken(r, phase)
    /\ UNCHANGED <<recent, cursor>>

\* A buffered answer that is not retryable, an error of the caller included.
Answer(r) ==
    /\ pc[r] = "calling"
    /\ Release(r, TRUE, "idle")
    /\ Leave(r)

\* A retryable status, or the upstream call raised.
Fail(r) ==
    /\ pc[r] = "calling"
    /\ IF attempt[r] < Retries
         THEN Release(r, FALSE, "backoff") /\ UNCHANGED <<est, attempt, left, timer>>
         ELSE Release(r, FALSE, "idle") /\ Leave(r)

\* Mutant of Resume: the attempt is not counted.
ResumeForever(r) ==
    /\ pc[r] = "backoff"
    /\ pc' = [pc EXCEPT ![r] = "asking"]
    /\ left' = [left EXCEPT ![r] = QueueWait]
    /\ UNCHANGED <<keyVars, schedVars, est, attempt, lease, timer>>

\* The back-off is over: next attempt, with a new deadline.
Resume(r) ==
    /\ pc[r] = "backoff"
    /\ pc' = [pc EXCEPT ![r] = "asking"]
    /\ attempt' = [attempt EXCEPT ![r] = @ + 1]
    /\ left' = [left EXCEPT ![r] = QueueWait]
    /\ UNCHANGED <<keyVars, schedVars, est, lease, timer>>

\* The headers of a streamed answer; the lease now belongs to the iterator.
StreamStarts(r) ==
    /\ pc[r] = "calling"
    /\ pc' = [pc EXCEPT ![r] = "streaming"]
    /\ UNCHANGED <<keyVars, schedVars, est, attempt, lease, left, timer>>

\* The iterator's finally clause: a complete answer below 400, or anything else.
StreamEnds(r) ==
    /\ pc[r] = "streaming"
    /\ \E ok \in BOOLEAN : Release(r, ok, "idle")
    /\ Leave(r)

\* The client has left before the first chunk, so the iterator never starts
\* and its finally clause never runs; or closing the upstream stream raises.
StreamDropped(r) ==
    /\ pc[r] = "streaming"
    /\ pc' = [pc EXCEPT ![r] = "dropped"]
    /\ UNCHANGED <<keyVars, schedVars, est, attempt, lease, left, timer>>

-----------------------------------------------------------------------------
\* A key's window a tick later, before what has left it is dropped.
Aged(k) == [n \in DOMAIN recent[k] |->
              [left |-> recent[k][n].left - 1, tokens |-> recent[k][n].tokens]]

\* _prune: the entries too old at the head of a window go.
Pruned(window) ==
    SubSeq(window, Min({n \in DOMAIN window : window[n].left > 0} \cup {Len(window) + 1}),
           Len(window))

\* The monotonic clock, and what it does to every window.
Tick ==
    /\ openFor' = [k \in Keys |-> Less(openFor[k])]
    /\ recent' = [k \in Keys |-> Pruned(Aged(k))]
    /\ left' = [r \in Requests |-> Less(left[r])]
    /\ timer' = [r \in Requests |-> Less(timer[r])]
    /\ UNCHANGED <<inFlight, failures, schedVars, pc, est, attempt, lease>>

Acquire(r) == Grant(r) \/ Wait(r) \/ Break(r) \/ Refuse(r) \/ TimedOut(r)
Upstream(r) == Answer(r) \/ Fail(r) \/ StreamStarts(r) \/ StreamEnds(r) \/ StreamDropped(r)

Next == Tick \/ \E r \in Requests : Arrive(r) \/ Acquire(r) \/ Upstream(r) \/ Resume(r)

\* The event loop runs every task that is ready, an upstream call ends (the
\* client's time-out is 120 s), sleeps end and time passes.
Fairness ==
    /\ \A r \in Requests : WF_vars(Acquire(r) \/ Upstream(r) \/ Resume(r))
    /\ WF_vars(Tick)

SafetySpec == Init /\ [][Next]_vars
Spec == SafetySpec /\ Fairness

-----------------------------------------------------------------------------
(* Properties *)

\* The variables have their types: a key's failures never stay at the
\* threshold, no request is retried more often than Retries, no entry outlives
\* the window, and no wait is longer than what its deadline leaves.
TypeOK ==
    /\ inFlight \in [Keys -> Nat] /\ failures \in [Keys -> 0..(CircuitThreshold - 1)]
    /\ openFor \in [Keys -> 0..CircuitCooldown]
    /\ globalInFlight \in Nat /\ capInFlight \in [Capabilities -> Nat]
    /\ cursor \in Keys
    /\ pc \in [Requests -> Phases] /\ est \in [Requests -> Nat]
    /\ attempt \in [Requests -> 0..Retries]
    /\ lease \in [Requests -> Keys \cup {NoKey}]
    /\ left \in [Requests -> 0..QueueWait] /\ timer \in [Requests -> 0..QueueWait]
    /\ recent \in [Keys -> Seq([left : 1..Window, tokens : Nat])]

Leased(k) == {r \in Requests : lease[r] = k}
LeasedFor(c) == {r \in Requests : lease[r] # NoKey /\ CapOf[r] = c}
AllLeased == {r \in Requests : lease[r] # NoKey}

\* The counters are the leases that are out, over retries, streams, failures
\* and dropped streams: no lease is counted twice or given back twice, and the
\* max(0, ...) of release never hides a difference.
InFlightExact ==
    /\ \A k \in Keys : inFlight[k] = Cardinality(Leased(k))
    /\ \A c \in Capabilities : capInFlight[c] = Cardinality(LeasedFor(c))
    /\ globalInFlight = Cardinality(AllLeased)

Open == {r \in Requests : pc[r] \in {"calling", "streaming"}}

\* What RouterScheduler is for ("enforces global, capability and per-key
\* concurrency", main.py:5): the provider never sees more calls of a capability,
\* nor more calls with a key, than their limits allow.
BoundedCalls ==
    /\ \A c \in Capabilities : Cardinality({r \in Open : CapOf[r] = c}) =< CapLimit[c]
    /\ \A k \in Keys : Cardinality({r \in Open : lease[r] = k}) =< KeyConcurrency

\* The same of the router's own limit, over all capabilities and keys.
BoundedOverall == Cardinality(Open) =< MaxConcurrency

\* No lost wake-up in acquire: a request does not sleep on while it could be
\* let through; whatever frees a key, a release, the end of a cooldown or of a
\* window, has notified it or ends its wait at that moment.
NoLostWakeup == \A r \in Requests : pc[r] = "waiting" /\ Admits(r) => timer[r] = 0

\* Every request is answered, with 429 if need be, even when streams that were
\* dropped have taken all the capacity.
Answered == \A r \in Requests : pc[r] # "idle" ~> pc[r] \in {"idle", "dropped"}

=============================================================================
