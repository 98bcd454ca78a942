----------------------------- MODULE TurnTasks -----------------------------
(***************************************************************************)
(* The turns of one agent session (runtime/codex-rs/core): how submitted   *)
(* input starts a turn or joins the running one, how a turn's task runs,   *)
(* ends, is interrupted or replaced, and how mail from other agents wakes  *)
(* an idle session.                                                        *)
(*                                                                         *)
(* Session.active_turn is one lock-protected slot: no turn, a reserved     *)
(* turn without a task, or a turn with its running task.  Five kinds of    *)
(* actors change it, and every place where one of them releases the lock   *)
(* ends a step: the submission loop (one operation at a time), the fan-out *)
(* task of a realtime conversation (one text at a time), the task of each  *)
(* turn, the guardian's abort task, and extensions that inject items.      *)
(*                                                                         *)
(* Data is kept only as the place where each submitted item is: waiting in *)
(* the mailbox, pending in a turn's state, carried by an actor, given to a *)
(* turn as its input, or settled: recorded in the history, or dropped.     *)
(***************************************************************************)
EXTENDS Integers, FiniteSets

CONSTANTS
    Inputs,      \* user input: submitted by the client, or text routed from
                 \* a realtime conversation
    Triggers,    \* mail of other agents that asks for a turn
    Notes,       \* mail of other agents that does not
    Extras,      \* requests to compact, review or run a shell command, or
                 \* items an extension injects into the active turn
    Loop, Guard, \* the submission loop, and the guardian's abort task
    Voice,       \* the fan-out task of the realtime conversation
    NoTurn,
    MaxTurns,    \* bound: turns, and turn states, ever created
    MaxStops,    \* bound: interrupts, by the client and by the guardian
    StopAtRace   \* bound: what follows a race is not explored

Turns == 1..MaxTurns
Actors == Turns \cup {Loop, Guard, Voice}
Mails == Triggers \cup Notes
Items == Inputs \cup Mails \cup Extras

ASSUME NamesAreFresh ==
    /\ Loop # Guard /\ Loop # Voice /\ Guard # Voice
    /\ {Loop, Guard, Voice} \cap Turns = {}
    /\ NoTurn \notin Actors
ASSUME ItemsDisjoint ==
    /\ Inputs \cap Mails = {} /\ Triggers \cap Notes = {}
    /\ Extras \cap (Inputs \cup Mails) = {}
ASSUME BoundsAssumption ==
    /\ MaxTurns \in Nat /\ MaxStops \in Nat
    /\ StopAtRace \in BOOLEAN

VARIABLES
    slotTs, slotTask,  \* Session.active_turn: its turn state (0: None), its task
    nextTurn,          \* live turn states whose delivery phase is NextTurn
    loc,               \* where each item is
    pc,                \* where each actor is
    tsOf,              \* the turn state an actor has a reference to (0: none)
    goal,              \* the turn an actor is about to start
    victim,            \* the turn whose task an actor is aborting
    kind,              \* regular; shell: takes input, but reads none of it;
                       \* other: takes none
    cancelled,         \* live turns whose cancellation token is cancelled
    terminal,          \* history: TurnComplete and TurnAborted events of a turn
    turns, states,     \* turns and turn states created
    stops,             \* interrupts so far
    raced              \* history: an abort dropped a turn without a task, a
                       \* start went past its abort or reserved the slot while
                       \* another was there, or a task took out another's task

slotVars == <<slotTs, slotTask>>
actorVars == <<pc, tsOf, goal, victim>>
turnVars == <<kind, cancelled, terminal>>
countVars == <<turns, states, stops>>
vars == <<slotTs, slotTask, nextTurn, loc, pc, tsOf, goal, victim, kind,
          cancelled, terminal, turns, states, stops, raced>>

Place(at, of) == [at |-> at, of |-> of]

New == Place("new", 0)
Mailbox == Place("mailbox", 0)
\* Recorded in the history; or refused, dropped, or cleared with an aborted
\* turn.  Either way nothing waits for the item any more, and no property tells
\* the two apart: they are one place.
History == Place("settled", 0)
Gone == Place("settled", 0)

\* pending: in a turn's state; carried: by an actor; input: of a turn.
Places == {"new", "mailbox", "settled", "pending", "carried", "input"}

At(place) == {i \in Items : loc[i] = place}
Pending(ts) == At(Place("pending", ts))
MailIn == At(Mailbox)

\* Every item of set I is moved to a place.
Move(I, place) == loc' = [i \in Items |-> IF i \in I THEN place ELSE loc[i]]

\* run: run_turn begins; drain: about to take pending input; sample: in a model
\* request; check: after it; early: run_turn has returned before it took anything;
\* exit: run has returned.  f1..f3: on_task_finished;
\* a1..a3: abort_all_tasks; m1, m2: maybe_start_turn_for_pending_work; s1..s4:
\* start_task; reserved: start_if_idle holds the slot.
Running == {"run", "drain", "sample", "check", "early"}
Routines == {"a1", "a2", "a3", "m1", "m2", "s1", "s2", "s3", "s4"}
Phases == Running \cup Routines
          \cup {"none", "idle", "reserved", "exit", "f1", "f2", "f3", "over"}

\* The variables have their types; the submission loop, the guardian and the
\* realtime task are never over, and the task of a turn aborts nothing and holds
\* no reservation.
TypeOK ==
    /\ slotTs \in 0..MaxTurns /\ slotTask \in Turns \cup {NoTurn}
    /\ nextTurn \subseteq 1..MaxTurns
    /\ loc \in [Items -> [at : Places, of : 0..MaxTurns \cup Actors]]
    /\ pc \in [Actors -> Phases]
    /\ \A t \in Turns : pc[t] \notin {"idle", "reserved", "a1", "a2", "a3"}
    /\ pc[Loop] \in Routines \cup {"idle", "reserved"}
    /\ pc[Guard] \in Routines \cup {"idle"} /\ pc[Voice] \in Routines \cup {"idle"}
    /\ tsOf \in [Actors -> 0..MaxTurns]
    /\ goal \in [Actors -> Turns \cup {NoTurn}]
    /\ victim \in [Actors -> Turns \cup {NoTurn}]
    /\ kind \in [Turns -> {"regular", "shell", "other"}]
    /\ cancelled \subseteq Turns
    /\ terminal \in [Turns -> Nat]
    /\ turns \in 0..MaxTurns /\ states \in 0..MaxTurns
    /\ stops \in 0..MaxStops
    /\ raced \in BOOLEAN

Init ==
    /\ slotTs = 0 /\ slotTask = NoTurn
    /\ nextTurn = {}
    /\ loc = [i \in Items |-> New]
    /\ pc = [a \in Actors |-> IF a \in Turns THEN "none" ELSE "idle"]
    /\ tsOf = [a \in Actors |-> 0]
    /\ goal = [a \in Actors |-> NoTurn]
    /\ victim = [a \in Actors |-> NoTurn]
    /\ kind = [t \in Turns |-> "regular"]
    /\ cancelled = {}
    /\ terminal = [t \in Turns |-> 0]
    /\ turns = 0 /\ states = 0 /\ stops = 0
    /\ raced = FALSE

Goto(a, p) == pc' = [pc EXCEPT ![a] = p]

\* The routine an actor was in has returned.
AtRest(a) == IF a \in Turns THEN "over" ELSE "idle"
Return(a) ==
    /\ pc' = [pc EXCEPT ![a] = AtRest(a)]
    /\ tsOf' = [tsOf EXCEPT ![a] = 0]
    /\ goal' = [goal EXCEPT ![a] = NoTurn]
    /\ victim' = [victim EXCEPT ![a] = NoTurn]

-----------------------------------------------------------------------------
(* The input queue. *)

\* The active turn takes pending input and mail into its next model request.
Accepts == slotTs \notin nextTurn

\* get_pending_input: the pending input of the turn in the slot, whoever asks,
\* and then the mailbox; nothing once that turn has deferred to the next one.
TakenInput ==
    IF Accepts THEN MailIn \cup (IF slotTs = 0 THEN {} ELSE Pending(slotTs)) ELSE {}

\* Mutant of has_pending_input: mail for the next turn keeps this one going.
has_pending_inputAnyPhase == MailIn \cup Pending(slotTs) # {}

has_pending_input == TakenInput # {}

HasTriggerMail == MailIn \cap Triggers # {}

-----------------------------------------------------------------------------
(* The routines that several actors run: abort, start, wake. *)

\* Other actors on the way to install a task, past the abort that comes first.
Underway(a) == {b \in Actors \ {a} : goal[b] # NoTurn /\ pc[b] # "a1"}

\* abort_all_tasks and abort_turn_if_active empty the slot.  A turn without a
\* task is dropped silently: that is a race with whoever had reserved the slot
\* or is finishing its turn.  Two starts past their aborts race for the slot.
TakeActive(a) ==
    /\ slotTs' = 0 /\ slotTask' = NoTurn
    /\ raced' = (\/ raced
                 \/ slotTs # 0 /\ slotTask = NoTurn
                 \/ goal[a] # NoTurn /\ Underway(a) # {})
    /\ IF slotTask = NoTurn
       THEN /\ IF goal[a] = NoTurn THEN Return(a)
               ELSE /\ Goto(a, "s1") /\ UNCHANGED <<tsOf, goal, victim>>
            /\ UNCHANGED cancelled
       ELSE /\ cancelled' = cancelled \cup {slotTask}
            /\ victim' = [victim EXCEPT ![a] = slotTask]
            /\ tsOf' = [tsOf EXCEPT ![a] = slotTs]
            /\ Goto(a, "a2")
            /\ UNCHANGED goal

AbortTake(a) ==
    /\ pc[a] = "a1"
    /\ TakeActive(a)
    /\ UNCHANGED <<nextTurn, loc, kind, terminal, countVars>>

\* handle_task_abort: after the task is done, or after the grace period, it is
\* aborted and TurnAborted is sent.
AbortKill(a) ==
    LET v == victim[a]
    IN /\ pc[a] = "a2"
       /\ pc' = [pc EXCEPT ![a] = "a3", ![v] = "over"]
       /\ terminal' = [terminal EXCEPT ![v] = @ + 1]
       /\ cancelled' = cancelled \ {v}
       /\ UNCHANGED <<slotVars, nextTurn, loc, tsOf, goal, victim, kind,
                      countVars, raced>>

\* clear_pending; then spawn_task goes on, and an interrupt wakes the session.
AbortClear(a) ==
    /\ pc[a] = "a3"
    /\ Move(Pending(tsOf[a]), Gone)
    /\ nextTurn' = nextTurn \ {tsOf[a]}
    /\ Goto(a, IF goal[a] = NoTurn THEN "m1" ELSE "s1")
    /\ tsOf' = [tsOf EXCEPT ![a] = 0]
    /\ victim' = [victim EXCEPT ![a] = NoTurn]
    /\ UNCHANGED <<slotVars, goal, turnVars, countVars, raced>>

\* maybe_start_turn_for_pending_work: first the mailbox is looked at.
WakeLook(a) ==
    /\ pc[a] = "m1"
    /\ IF HasTriggerMail THEN Goto(a, "m2") /\ UNCHANGED <<tsOf, goal, victim>>
       ELSE Return(a)
    /\ UNCHANGED <<slotVars, nextTurn, loc, turnVars, countVars, raced>>

\* ActiveTurn::default() with a fresh turn state.
NewState ==
    /\ states < MaxTurns
    /\ slotTs' = states + 1 /\ states' = states + 1

\* Then the slot is reserved with a fresh turn state, if it is empty.
WakeReserve(a) ==
    /\ pc[a] = "m2"
    /\ IF slotTs # 0
       THEN Return(a) /\ UNCHANGED <<slotTs, turns, states>>
       ELSE /\ NewState
            /\ turns < MaxTurns /\ turns' = turns + 1
            /\ goal' = [goal EXCEPT ![a] = turns + 1]
            /\ Goto(a, "s1")
            /\ UNCHANGED <<tsOf, victim>>
    /\ raced' = (raced \/ (slotTs = 0 /\ Underway(a) # {}))
    /\ UNCHANGED <<slotTask, nextTurn, loc, turnVars, stops>>

\* start_task takes what is pending ...
StartDrain(a) ==
    /\ pc[a] = "s1"
    /\ Move(TakenInput, Place("carried", a))
    /\ Goto(a, "s2")
    /\ UNCHANGED <<slotVars, nextTurn, tsOf, goal, victim, turnVars, countVars, raced>>

\* active.get_or_insert_with(ActiveTurn::default), without a task.
SlotOrNew ==
    IF slotTs # 0 THEN UNCHANGED <<slotTs, states>> ELSE NewState

\* ... looks up the turn state of the slot ...
StartLookup(a) ==
    /\ pc[a] = "s2"
    /\ SlotOrNew
    /\ tsOf' = [tsOf EXCEPT ![a] = slotTs']
    /\ Goto(a, "s3")
    /\ UNCHANGED <<slotTask, nextTurn, loc, goal, victim, turnVars, turns, stops,
                   raced>>

\* ... puts what it took into that state ...
StartExtend(a) ==
    /\ pc[a] = "s3"
    /\ Move(At(Place("carried", a)), Place("pending", tsOf[a]))
    /\ Goto(a, "s4")
    /\ UNCHANGED <<slotVars, nextTurn, tsOf, goal, victim, turnVars, countVars, raced>>

\* A task that is in the slot is dropped, which aborts it.
Dropped == [b \in Actors |-> IF b = slotTask THEN "over" ELSE pc[b]]

\* ... and installs the spawned task.
StartInstall(a) ==
    LET t == goal[a]
    IN /\ pc[a] = "s4"
       /\ SlotOrNew
       /\ slotTask' = t
       /\ pc' = [Dropped EXCEPT ![t] = "run", ![a] = AtRest(a)]
       /\ tsOf' = [tsOf EXCEPT ![a] = 0]
       /\ goal' = [goal EXCEPT ![a] = NoTurn]
       /\ UNCHANGED <<nextTurn, loc, victim, turnVars, turns, stops, raced>>

Routine(a) ==
    \/ AbortTake(a) \/ AbortKill(a) \/ AbortClear(a)
    \/ WakeLook(a) \/ WakeReserve(a)
    \/ StartDrain(a) \/ StartLookup(a) \/ StartExtend(a) \/ StartInstall(a)

-----------------------------------------------------------------------------
(* The task of a turn. *)

\* The turn's own input is recorded; it is sampled before pending input is
\* looked at.  Tasks that are not regular do their work and return.
Begin(t) ==
    LET input == At(Place("input", t))
    IN /\ pc[t] = "run"
       /\ Move(input, History)
       /\ Goto(t, IF kind[t] # "regular" THEN "exit"
                  ELSE IF input = {} THEN "drain" ELSE "sample")
       /\ UNCHANGED <<slotVars, nextTurn, tsOf, goal, victim, turnVars, countVars, raced>>

\* run_turn fails with an error that ends the task, or sees the cancellation.
Quit(t) ==
    /\ pc[t] = "run" \/ (pc[t] \in {"drain", "sample", "check"} /\ t \in cancelled)
    /\ Goto(t, "exit")
    /\ UNCHANGED <<slotVars, nextTurn, loc, tsOf, goal, victim, turnVars, countVars, raced>>

\* run_turn returns Ok(None) before its first request: compaction failed, or a
\* hook stops the turn.  Its own input is dropped, or was recorded by the hook;
\* what is pending stays pending.
ReturnEarly(t) ==
    /\ pc[t] = "run" /\ kind[t] = "regular"
    /\ Move(At(Place("input", t)), Gone)
    /\ Goto(t, "early")
    /\ UNCHANGED <<slotVars, nextTurn, tsOf, goal, victim, turnVars, countVars, raced>>

\* Pending input is recorded for the next model request.
Drain(t) ==
    /\ pc[t] = "drain"
    /\ Move(TakenInput, History)
    /\ Goto(t, "sample")
    /\ UNCHANGED <<slotVars, nextTurn, tsOf, goal, victim, turnVars, countVars, raced>>

\* The model calls a tool, or a stop hook asks for more: mail is accepted again
\* by this turn, and another request follows.
SampleTool(t) ==
    /\ pc[t] = "sample"
    /\ nextTurn' = IF slotTask = t THEN nextTurn \ {slotTs} ELSE nextTurn
    /\ Goto(t, "drain")
    /\ UNCHANGED <<slotVars, loc, tsOf, goal, victim, turnVars, countVars, raced>>

\* Visible final text defers later mail to the next turn, unless input that
\* needs this turn is already pending.
Defers(t) == slotTask = t /\ Pending(slotTs) \subseteq Notes
SampleAnswer(t) ==
    /\ pc[t] = "sample"
    /\ nextTurn' = IF Defers(t) THEN nextTurn \cup {slotTs} ELSE nextTurn
    /\ Goto(t, "check")
    /\ UNCHANGED <<slotVars, loc, tsOf, goal, victim, turnVars, countVars, raced>>

\* The request, or the compaction after it, fails.
SampleError(t) ==
    /\ pc[t] = "sample"
    /\ Goto(t, "check")
    /\ UNCHANGED <<slotVars, nextTurn, loc, tsOf, goal, victim, turnVars, countVars, raced>>

\* The turn goes on while input is pending for it: in run_turn's own loop, or,
\* once run_turn has returned, because RegularTask::run calls it again without
\* input of its own.  However run_turn came to return, that is where it goes.
Check(t) ==
    /\ pc[t] \in {"check", "early"}
    /\ \/ ~has_pending_input /\ Goto(t, "exit")
       \/ has_pending_input /\ Goto(t, "run")
       \/ has_pending_input /\ pc[t] = "check" /\ Goto(t, "drain")
    /\ UNCHANGED <<slotVars, nextTurn, loc, tsOf, goal, victim, turnVars, countVars, raced>>

\* A cancelled task leaves its end to whoever cancelled it.
Exit(t) ==
    /\ pc[t] = "exit"
    /\ Goto(t, IF t \in cancelled THEN "over" ELSE "f1")
    /\ UNCHANGED <<slotVars, nextTurn, loc, tsOf, goal, victim, turnVars, countVars, raced>>

\* Mutant of FinishTake: the turn is finished although its task was aborted.
FinishTakeAlways(t) ==
    /\ pc[t] = "f1"
    /\ slotTask' = NoTurn
    /\ raced' = (raced \/ slotTask \notin {t, NoTurn})
    /\ tsOf' = [tsOf EXCEPT ![t] = slotTs]
    /\ Goto(t, "f2")
    /\ UNCHANGED <<goal, victim>>
    /\ UNCHANGED <<slotTs, nextTurn, loc, turnVars, countVars>>

\* on_task_finished takes the task out of the slot, without asking whose it is,
\* and keeps its turn state there; with no task in the slot it returns.
FinishTake(t) ==
    /\ pc[t] = "f1"
    /\ IF slotTask = NoTurn
       THEN Return(t) /\ UNCHANGED <<slotTask, raced>>
       ELSE /\ slotTask' = NoTurn
            /\ raced' = (raced \/ slotTask # t)
            /\ tsOf' = [tsOf EXCEPT ![t] = slotTs]
            /\ Goto(t, "f2")
            /\ UNCHANGED <<goal, victim>>
    /\ UNCHANGED <<slotTs, nextTurn, loc, turnVars, countVars>>

\* Mutant of FinishReport: what is still pending is not recorded.
FinishReportDrops(t) ==
    /\ pc[t] = "f2"
    /\ UNCHANGED loc
    /\ terminal' = [terminal EXCEPT ![t] = @ + 1]
    /\ Goto(t, "f3")
    /\ UNCHANGED <<slotVars, nextTurn, tsOf, goal, victim, kind, cancelled,
                   countVars, raced>>

\* What is still pending is recorded for the next turn, and TurnComplete (or
\* TurnAborted, if the task said so) is sent.
FinishReport(t) ==
    /\ pc[t] = "f2"
    /\ Move(Pending(tsOf[t]), History)
    /\ terminal' = [terminal EXCEPT ![t] = @ + 1]
    /\ Goto(t, "f3")
    /\ UNCHANGED <<slotVars, nextTurn, tsOf, goal, victim, kind, cancelled,
                   countVars, raced>>

\* Mutant of FinishClear: the session is not woken for waiting mail.
FinishClearSleeps(t) ==
    /\ pc[t] = "f3"
    /\ IF slotTs = tsOf[t] /\ slotTask = NoTurn
       THEN /\ slotTs' = 0
            /\ nextTurn' = nextTurn \ {tsOf[t]}
            /\ Return(t)
       ELSE Return(t) /\ UNCHANGED <<slotTs, nextTurn>>
    /\ UNCHANGED <<slotTask, loc, turnVars, countVars, raced>>

\* The slot is emptied, if it still holds this turn's state and no task, and
\* then mail is looked for.
FinishClear(t) ==
    /\ pc[t] = "f3"
    /\ IF slotTs = tsOf[t] /\ slotTask = NoTurn
       THEN /\ slotTs' = 0
            /\ nextTurn' = nextTurn \ {tsOf[t]}
            /\ Goto(t, "m1")
            /\ tsOf' = [tsOf EXCEPT ![t] = 0]
            /\ UNCHANGED <<goal, victim>>
       ELSE Return(t) /\ UNCHANGED <<slotTs, nextTurn>>
    /\ UNCHANGED <<slotTask, loc, turnVars, countVars, raced>>

TaskStep(t) ==
    \/ Begin(t) \/ Quit(t) \/ ReturnEarly(t) \/ Drain(t)
    \/ SampleTool(t) \/ SampleAnswer(t) \/ SampleError(t)
    \/ Check(t) \/ Exit(t)
    \/ FinishTake(t) \/ FinishReport(t) \/ FinishClear(t)

-----------------------------------------------------------------------------
(* The operations of the submission loop and the realtime task. *)

\* steer_input: input joins the turn whose task is in the slot, a shell command
\* too, and reopens mailbox delivery; a turn of another kind refuses it.
Steered(i) ==
    /\ slotTask # NoTurn
    /\ IF kind[slotTask] # "other"
       THEN /\ Move({i}, Place("pending", slotTs))
            /\ nextTurn' = nextTurn \ {slotTs}
       ELSE Move({i}, Gone) /\ UNCHANGED nextTurn
    /\ UNCHANGED <<slotVars, actorVars, turnVars, countVars, raced>>

\* A turn is created for spawn_task, which first aborts whatever is running.
Spawns(a, k) ==
    /\ turns < MaxTurns /\ turns' = turns + 1
    /\ kind' = [kind EXCEPT ![turns + 1] = k]
    /\ goal' = [goal EXCEPT ![a] = turns + 1]
    /\ Goto(a, "a1")

\* start_or_steer, for input of the client or, in route_realtime_text_input, for
\* text of the realtime conversation.
StartOrSteer(a, i) ==
    /\ pc[a] = "idle" /\ loc[i] = New
    /\ \/ Steered(i)
       \/ /\ slotTask = NoTurn
          /\ Spawns(a, "regular")
          /\ Move({i}, Place("input", turns + 1))
          /\ UNCHANGED <<slotVars, nextTurn, tsOf, victim, cancelled, terminal,
                         states, stops, raced>>

\* turn/steer names the turn it is meant for.
Steer(i, t) ==
    /\ pc[Loop] = "idle" /\ loc[i] = New /\ pc[t] # "none"
    /\ \/ slotTask = t /\ Steered(i)
       \/ /\ slotTask # t
          /\ Move({i}, Gone)
          /\ UNCHANGED <<slotVars, nextTurn, actorVars, turnVars, countVars, raced>>

\* start_if_idle reserves an empty slot, unless mail is to start a turn.
StartIfIdle(i) ==
    /\ pc[Loop] = "idle" /\ loc[i] = New
    /\ IF HasTriggerMail \/ slotTs # 0
       THEN Move({i}, Gone) /\ UNCHANGED <<slotTs, states, actorVars, turns, raced>>
       ELSE /\ NewState
            /\ raced' = (raced \/ Underway(Loop) # {})
            /\ turns < MaxTurns /\ turns' = turns + 1
            /\ Move({i}, Place("input", turns + 1))
            /\ tsOf' = [tsOf EXCEPT ![Loop] = states + 1]
            /\ goal' = [goal EXCEPT ![Loop] = turns + 1]
            /\ Goto(Loop, "reserved")
            /\ UNCHANGED victim
    /\ UNCHANGED <<slotTask, nextTurn, turnVars, stops>>

\* What start_if_idle was asked to start a turn with: user input goes with the
\* turn, a response item is made pending in the state it has reserved.
Reserved == At(Place("input", goal[Loop]))
Proceed ==
    /\ ~HasTriggerMail
    /\ Goto(Loop, "s1")
    /\ UNCHANGED loc \/ Move(Reserved, Place("pending", tsOf[Loop]))
    /\ UNCHANGED <<slotTs, tsOf, goal, victim>>

\* A turn that is given up: mail that asks for a turn is looked at instead.
GiveUp ==
    /\ Move(Reserved, Gone)
    /\ pc' = [pc EXCEPT ![Loop] = IF HasTriggerMail THEN "m1" ELSE "idle"]
    /\ tsOf' = [tsOf EXCEPT ![Loop] = 0]
    /\ goal' = [goal EXCEPT ![Loop] = NoTurn]
    /\ UNCHANGED victim

\* Mutant of ReservedStart: a turn that is given up keeps the slot.
ReservedStartKeeps ==
    /\ pc[Loop] = "reserved"
    /\ Proceed \/ (GiveUp /\ UNCHANGED slotTs)
    /\ UNCHANGED <<slotTask, nextTurn, turnVars, countVars, raced>>

\* With the slot reserved the mailbox is looked at again and the settings are
\* applied: the turn is started, or given up and the reservation cleared if it
\* is still the one in the slot.
ReservedStart ==
    /\ pc[Loop] = "reserved"
    /\ \/ Proceed
       \/ /\ GiveUp
          /\ slotTs' = IF slotTs = tsOf[Loop] /\ slotTask = NoTurn THEN 0 ELSE slotTs
    /\ UNCHANGED <<slotTask, nextTurn, turnVars, countVars, raced>>

\* compact and review; a shell command when no task is running (one beside a
\* running task is part of that turn).
StartOther(x, k) ==
    /\ pc[Loop] = "idle" /\ loc[x] = New
    /\ k = "shell" => slotTask = NoTurn
    /\ Spawns(Loop, k)
    /\ Move({x}, Place("input", turns + 1))
    /\ UNCHANGED <<slotVars, nextTurn, tsOf, victim, cancelled, terminal,
                   states, stops, raced>>

\* inter_agent_communication
Mail(m) ==
    /\ pc[Loop] = "idle" /\ loc[m] = New
    /\ Move({m}, Mailbox)
    /\ Goto(Loop, IF m \in Triggers THEN "m1" ELSE "idle")
    /\ UNCHANGED <<slotVars, nextTurn, tsOf, goal, victim, turnVars, countVars, raced>>

Interrupt ==
    /\ pc[Loop] = "idle" /\ stops < MaxStops
    /\ stops' = stops + 1
    /\ TakeActive(Loop)
    /\ UNCHANGED <<nextTurn, loc, kind, terminal, turns, states>>

\* The guardian's task aborts the turn it judged, if it is still the active one.
GuardAbort(t) ==
    /\ pc[Guard] = "idle" /\ stops < MaxStops /\ slotTask = t
    /\ stops' = stops + 1
    /\ TakeActive(Guard)
    /\ UNCHANGED <<nextTurn, loc, kind, terminal, turns, states>>

\* An extension injects an item: into the turn in the slot, with or without a
\* task; without a turn the item is recorded at once.
Inject(i) ==
    /\ loc[i] = New
    /\ IF slotTs = 0 THEN Move({i}, History) /\ UNCHANGED nextTurn
       ELSE /\ Move({i}, Place("pending", slotTs))
            /\ nextTurn' = nextTurn \ {slotTs}
    /\ UNCHANGED <<slotVars, actorVars, turnVars, countVars, raced>>

Operation ==
    \/ \E i \in Inputs : StartOrSteer(Loop, i) \/ StartIfIdle(i)
    \/ \E i \in Inputs, t \in Turns : Steer(i, t)
    \/ \E x \in Extras, k \in {"shell", "other"} : StartOther(x, k)
    \/ \E m \in Mails : Mail(m)
    \/ Interrupt

\* What goes on without the client.
Internal ==
    \/ ReservedStart
    \/ \E t \in Turns : TaskStep(t)
    \/ \E a \in Actors : Routine(a)

Explored == StopAtRace => ~raced

Next ==
    /\ Explored
    /\ \/ Operation \/ Internal
       \/ \E t \in Turns : GuardAbort(t)
       \/ \E i \in Inputs : StartOrSteer(Voice, i)
       \/ \E i \in Extras : Inject(i)

\* The executor runs some task as long as one can run; the client, the realtime
\* conversation and the guardian need not do anything.
Fairness == WF_vars(Explored /\ Internal)

Spec == Init /\ [][Next]_vars /\ Fairness

-----------------------------------------------------------------------------
(* Properties. *)

\* A turn is announced by one terminal event, TurnComplete or TurnAborted, and
\* never by both, although its own task and whoever aborts it both send one:
\* the slot decides.  Once it is sent the turn is not the active one.
TerminalOnce ==
    raced \/ \A t \in Turns :
        /\ terminal[t] <= 1
        /\ terminal[t] = 1 => slotTask # t

\* Whoever will put a task into the slot, or empty it.
Holders == {a \in Actors : pc[a] \in {"s1", "s2", "s3", "s4", "reserved", "f2", "f3"}}

\* The slot is never stuck.  A turn without a task makes start_if_idle refuse and
\* mail wait: somebody is always on the way to fill or to empty the slot.  A task
\* in the slot is alive: it runs, or is about to take itself out.
SlotLive ==
    raced \/
    /\ slotTs # 0 /\ slotTask = NoTurn => Holders # {}
    /\ slotTask # NoTurn => pc[slotTask] \in Running \cup {"exit", "f1"}

\* Accepted user input and mail never rest in a turn state nobody will look at
\* again: the one in the slot, or one an actor still has to record or clear.
NoLimbo ==
    raced \/ \A i \in Inputs \cup Mails : loc[i].at = "pending" =>
        \/ loc[i].of = slotTs
        \/ \E a \in Actors : pc[a] \in {"a2", "a3", "f2", "s3", "s4"} /\ tsOf[a] = loc[i].of

\* Nothing goes on in the session.
Quiet == \A a \in Actors : pc[a] \in {"none", "idle", "over"}

\* When the session has come to rest, every turn that was started has been
\* announced as ended, no mail that asks for a turn is left in the mailbox, and
\* no accepted input or mail is left in a turn's state: no wake-up was lost.
RestIsClean ==
    raced \/ (Quiet =>
        /\ slotTs = 0
        /\ \A t \in Turns : pc[t] # "none" => terminal[t] = 1
        /\ ~HasTriggerMail
        /\ \A i \in Inputs \cup Mails : loc[i].at \notin {"pending", "carried"})

\* start_task's debug_assert: no task is in the slot when one is installed.
SlotFree == \A a \in Actors : pc[a] = "s4" => slotTask = NoTurn

\* A turn whose run_turn returned before it took anything, although input is
\* pending: RegularTask::run calls it again at once, however often it fails.
Retrying == has_pending_input /\ \E t \in Turns : pc[t] = "early"

\* The session comes to rest: no turn, abort or wake-up goes on forever, with two
\* exceptions: a turn that returns early with input pending again and again, and
\* a model that never stops asking for another request.
ComesToRest ==
    \/ []<>(Quiet \/ raced \/ Retrying)
    \/ []<><<\E t \in Turns : SampleTool(t)>>_vars

=============================================================================
