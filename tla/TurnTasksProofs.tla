-------------------------- MODULE TurnTasksProofs --------------------------
(***************************************************************************)
(* TypeOK, TerminalOnce, SlotLive, NoLimbo and RestIsClean for any number  *)
(* of items, turns, turn states and interrupts.                            *)
(*                                                                         *)
(* None is inductive alone.  All rest on Owned: until a race, the slot has *)
(* one owner, its task, the one actor that will fill or empty it, or the   *)
(* loop or realtime task that aborts to start a turn; and on Ended:        *)
(* a turn that has begun has been announced, is in the slot, is being      *)
(* aborted, or is about to announce itself.                                *)
(***************************************************************************)
EXTENDS TurnTasks, TLAPS

Starts == {"s1", "s2", "s3", "s4"}
Alive == Running \cup {"exit", "f1"}
HoldPhases == {"s1", "s2", "s3", "s4", "reserved", "f2", "f3"}
LookPhases == {"m1", "m2", "a1", "a2", "a3", "s1", "s2"}
Accepted == Inputs \cup Mails

\* The actors that run spawn_task.
Spawners == {Loop, Voice}

\* Actors on the way to install a task know which; a task being aborted is
\* known.  This holds after a race too.
Aimed ==
    \A a \in Actors :
        /\ pc[a] \in Starts \cup {"reserved", "a1"} => goal[a] \in Turns
        /\ pc[a] = "a2" => victim[a] \in Turns

\* A task in the slot has a turn state, after a race too.
Seated == slotTask # NoTurn => slotTs # 0

TypeInv == TypeOK /\ Aimed /\ Seated

\* The turns somebody is about to start have not begun, and are all different.
Goals ==
    /\ \A a \in Actors : goal[a] # NoTurn =>
          /\ pc[a] \in Starts \cup {"reserved", "a1", "a2", "a3"}
          /\ pc[a] \in {"a1", "a2", "a3"} => a \in Spawners
          /\ goal[a] <= turns /\ pc[goal[a]] = "none"
    /\ \A a, b \in Actors : goal[a] # NoTurn /\ goal[a] = goal[b] => a = b
    /\ \A t \in Turns : t > turns => pc[t] = "none"

\* Turn states are numbered in the order they are made.
Numbered ==
    /\ slotTs <= states
    /\ \A a \in Actors : tsOf[a] <= states
    /\ \A i \in Items : loc[i].at = "pending" => loc[i].of \in 1..states

\* A turn whose task is being aborted.
Victim(t) == \E a \in Actors : pc[a] = "a2" /\ victim[a] = t

\* Nobody else aborts a task that is being aborted, and it is no longer the one
\* in the slot.
Aborted ==
    /\ \A a \in Actors : pc[a] = "a2" =>
          /\ pc[victim[a]] \in Alive \cup {"over"}
          /\ slotTask # victim[a]
    /\ \A a, b \in Actors :
          pc[a] = "a2" /\ pc[b] = "a2" /\ victim[a] = victim[b] => a = b
    /\ \A t \in cancelled : Victim(t)

\* Nobody holds the slot.
Free == \A a \in Actors : pc[a] \notin HoldPhases

\* The owner of the slot: its task, the one holder, or the one actor that has
\* emptied it on the way to a turn of its own.
OwnedTask == slotTask # NoTurn => slotTs # 0 /\ Free /\ pc[slotTask] \in Alive
OwnedHeld == slotTs # 0 /\ slotTask = NoTurn => ~Free
OneHolder == \A a, b \in Actors : pc[a] \in HoldPhases /\ pc[b] \in HoldPhases => a = b
HolderShape ==
    \A a \in Actors : pc[a] \in HoldPhases =>
        /\ slotTs = 0 => a \in Spawners /\ pc[a] \in {"s1", "s2"}
        /\ pc[a] \notin {"s1", "s2"} => tsOf[a] = slotTs
SpawnAborts ==
    \A a \in Spawners : pc[a] \in {"a2", "a3"} /\ goal[a] # NoTurn =>
        /\ slotTs = 0 /\ Free
        /\ \A b \in Spawners \ {a} : goal[b] # NoTurn => pc[b] = "a1"
Owned == OwnedTask /\ OwnedHeld /\ OneHolder /\ HolderShape /\ SpawnAborts

\* Every turn that has begun has been announced once, or will be: by its task,
\* which is in the slot or has just taken itself out, or by who aborts it.
Unannounced(t) == slotTask = t \/ Victim(t) \/ pc[t] = "f2"
Ended ==
    \A t \in Turns :
        /\ terminal[t] \in {0, 1}
        /\ pc[t] # "none" /\ terminal[t] = 0 => Unannounced(t)
        /\ pc[t] = "none" \/ Unannounced(t) \/ pc[t] \in Alive => terminal[t] = 0

\* Items an actor carries, or has emptied its turn state of.
Carried ==
    /\ \A i \in Items : loc[i].at = "carried" =>
          loc[i].of \in Actors /\ pc[loc[i].of] \in {"s2", "s3"}
    /\ \A a \in Actors, i \in Accepted :
          pc[a] \in {"f3", "reserved"} => loc[i] # Place("pending", tsOf[a])

\* Nothing accepted is pending where nobody looks (NoLimbo, before a race).
Limbo ==
    \A i \in Accepted : loc[i].at = "pending" =>
        \/ loc[i].of = slotTs
        \/ \E a \in Actors : pc[a] \in {"a2", "a3", "f2", "s3", "s4"} /\ tsOf[a] = loc[i].of

\* Somebody will look at mail that asks for a turn.
Heard ==
    /\ HasTriggerMail => slotTs # 0 \/ \E a \in Actors : pc[a] \in LookPhases
    /\ pc[Loop] = "reserved" => ~HasTriggerMail

Core == Goals /\ Numbered /\ Aborted /\ Owned /\ Ended /\ Carried /\ Limbo /\ Heard

Inv == TypeInv /\ (raced \/ Core)

-----------------------------------------------------------------------------
(* Types. *)

\* Turns and the other actors have different names.
LEMMA Names ==
    /\ Turns \subseteq Actors /\ Loop \in Actors /\ Guard \in Actors /\ Voice \in Actors
    /\ Loop \notin Turns /\ Guard \notin Turns /\ Voice \notin Turns
    /\ Loop # Guard /\ Loop # Voice /\ Guard # Voice
    /\ Spawners \subseteq Actors /\ \A a \in Spawners : a \notin Turns
    /\ NoTurn \notin Actors /\ NoTurn \notin Turns
    /\ \A a \in Actors : a # Loop /\ a # Guard /\ a # Voice => a \in Turns
    /\ Turns = 1..MaxTurns /\ MaxTurns \in Nat
    /\ \A n \in 0..MaxTurns : n < MaxTurns => n + 1 \in Turns /\ n + 1 \in 0..MaxTurns
  BY NamesAreFresh, BoundsAssumption DEF Turns, Actors, Spawners

\* Where an item may be.
Spots == [at : Places, of : 0..MaxTurns \cup Actors]

\* The places items are moved to.
LEMMA PlaceType ==
    /\ \A at \in Places, of \in 0..MaxTurns \cup Actors : Place(at, of) \in Spots
    /\ New \in Spots /\ Mailbox \in Spots /\ History \in Spots /\ Gone \in Spots
  BY BoundsAssumption DEF Place, New, Mailbox, History, Gone, Places, Spots

\* Moving items keeps them in places.
LEMMA MoveType ==
    ASSUME NEW I, NEW p \in Spots, loc \in [Items -> Spots], Move(I, p)
    PROVE  /\ loc' \in [Items -> Spots]
           /\ \A i \in Items : loc'[i] = IF i \in I THEN p ELSE loc[i]
  BY DEF Move

\* The phases of an actor.
PhasesOf(a) ==
    IF a = Loop THEN Routines \cup {"idle", "reserved"}
    ELSE IF a \in {Guard, Voice} THEN Routines \cup {"idle"}
    ELSE Phases \ {"idle", "reserved", "a1", "a2", "a3"}

\* The types, variable by variable.
PcT == pc \in [Actors -> Phases] /\ \A a \in Actors : pc[a] \in PhasesOf(a)
LocT == loc \in [Items -> Spots]
ActorT ==
    /\ tsOf \in [Actors -> 0..MaxTurns]
    /\ goal \in [Actors -> Turns \cup {NoTurn}]
    /\ victim \in [Actors -> Turns \cup {NoTurn}]
SlotT ==
    /\ slotTs \in 0..MaxTurns /\ slotTask \in Turns \cup {NoTurn}
    /\ nextTurn \subseteq 1..MaxTurns
    /\ turns \in 0..MaxTurns /\ states \in 0..MaxTurns
    /\ slotTask # NoTurn => slotTs # 0
TurnT ==
    /\ kind \in [Turns -> {"regular", "shell", "other"}]
    /\ cancelled \subseteq Turns
    /\ terminal \in [Turns -> Nat]
    /\ stops \in 0..MaxStops
    /\ raced \in BOOLEAN
Types == PcT /\ LocT /\ ActorT /\ SlotT /\ TurnT /\ Aimed

\* Types says the same as TypeInv.
LEMMA TypeParts == TypeInv <=> Types
<1>1. (/\ pc \in [Actors -> Phases]
       /\ \A t \in Turns : pc[t] \notin {"idle", "reserved", "a1", "a2", "a3"}
       /\ pc[Loop] \in Routines \cup {"idle", "reserved"}
       /\ pc[Guard] \in Routines \cup {"idle"} /\ pc[Voice] \in Routines \cup {"idle"}) <=> PcT
  BY Names DEF PcT, PhasesOf
<1>2. QED
  BY <1>1 DEF TypeInv, TypeOK, Seated, Types, LocT, Spots, ActorT, SlotT, TurnT

\* The types hold at first.
LEMMA InitType == Init => Types
<1> SUFFICES ASSUME Init PROVE Types
  OBVIOUS
<1> USE Names, BoundsAssumption DEF Init
<1>1. PcT
  BY DEF PcT, PhasesOf, Phases, Routines
<1>2. LocT
  BY PlaceType DEF LocT
<1>3. ActorT /\ SlotT
  BY DEF ActorT, SlotT
<1>4. TurnT
  <2>1. raced \in BOOLEAN
    BY Zenon
  <2>2. QED
    BY <2>1 DEF TurnT
<1>5. Aimed
  BY DEF Aimed, Starts
<1>6. QED
  BY <1>1, <1>2, <1>3, <1>4, <1>5 DEF Types

\* Actor a goes to phase p, with new local values.
Moves(a, p, ts, g, v) ==
    /\ pc' = [pc EXCEPT ![a] = p]
    /\ tsOf' = [tsOf EXCEPT ![a] = ts]
    /\ goal' = [goal EXCEPT ![a] = g]
    /\ victim' = [victim EXCEPT ![a] = v]

\* The same, point by point.
Moved(a, p, ts, g, v) ==
    /\ \A b \in Actors : pc'[b] = IF b = a THEN p ELSE pc[b]
    /\ \A b \in Actors : tsOf'[b] = IF b = a THEN ts ELSE tsOf[b]
    /\ \A b \in Actors : goal'[b] = IF b = a THEN g ELSE goal[b]
    /\ \A b \in Actors : victim'[b] = IF b = a THEN v ELSE victim[b]

\* Such a move keeps the types of what belongs to the actors.
LEMMA MovesType ==
    ASSUME PcT, ActorT, Aimed, NEW a \in Actors, NEW p \in PhasesOf(a),
           NEW ts \in 0..MaxTurns, NEW g \in Turns \cup {NoTurn},
           NEW v \in Turns \cup {NoTurn}, Moves(a, p, ts, g, v),
           p \in Starts \cup {"reserved", "a1"} => g \in Turns,
           p = "a2" => v \in Turns
    PROVE  PcT' /\ ActorT' /\ Aimed' /\ Moved(a, p, ts, g, v)
<1>1. p \in Phases
  BY DEF PhasesOf, Phases, Routines
<1>2. PcT' /\ \A b \in Actors : pc'[b] = IF b = a THEN p ELSE pc[b]
  BY <1>1 DEF Moves, PcT, PhasesOf
<1>3. ActorT' /\ Moved(a, p, ts, g, v)
  BY <1>2 DEF Moves, ActorT, Moved
<1>4. Aimed'
  BY <1>3 DEF Aimed, Moved
<1>5. QED
  BY <1>2, <1>3, <1>4

\* Goto is such a move.
LEMMA GotoMoves ==
    ASSUME ActorT, NEW a \in Actors, NEW p, Goto(a, p), UNCHANGED <<tsOf, goal, victim>>
    PROVE  Moves(a, p, tsOf[a], goal[a], victim[a])
  BY DEF Goto, Moves, ActorT

\* And so is Return.
LEMMA ReturnMoves ==
    ASSUME NEW a \in Actors, Return(a)
    PROVE  Moves(a, AtRest(a), 0, NoTurn, NoTurn) /\ AtRest(a) \in PhasesOf(a)
  BY Names DEF Return, Moves, AtRest, PhasesOf, Phases

\* So Goto keeps the types of what belongs to the actors.
LEMMA GotoType ==
    ASSUME Types, NEW a \in Actors, NEW p \in PhasesOf(a), Goto(a, p),
           UNCHANGED <<tsOf, goal, victim>>,
           p \in Starts \cup {"reserved", "a1"} => goal[a] \in Turns,
           p = "a2" => victim[a] \in Turns
    PROVE  PcT' /\ ActorT' /\ Aimed' /\ Moved(a, p, tsOf[a], goal[a], victim[a])
<1>1. /\ Moves(a, p, tsOf[a], goal[a], victim[a]) /\ tsOf[a] \in 0..MaxTurns
      /\ goal[a] \in Turns \cup {NoTurn} /\ victim[a] \in Turns \cup {NoTurn}
  BY GotoMoves DEF Types, ActorT
<1>2. QED
  BY <1>1, MovesType DEF Types

\* And so does Return.
LEMMA ReturnType ==
    ASSUME Types, NEW a \in Actors, Return(a)
    PROVE  PcT' /\ ActorT' /\ Aimed' /\ Moved(a, AtRest(a), 0, NoTurn, NoTurn)
<1>1. /\ Moves(a, AtRest(a), 0, NoTurn, NoTurn) /\ AtRest(a) \in PhasesOf(a)
      /\ 0 \in 0..MaxTurns /\ AtRest(a) \in {"idle", "over"}
  BY ReturnMoves, Names DEF AtRest
<1>2. QED
  BY <1>1, MovesType DEF Types, Starts

\* The types of what a step leaves alone.
LEMMA TurnTSame ==
    ASSUME Types, UNCHANGED <<kind, cancelled, terminal, stops>>, raced' \in BOOLEAN
    PROVE  TurnT'
  BY DEF Types, TurnT

-----------------------------------------------------------------------------
(* The steps before a race. *)

\* No mail arrives.
LEMMA NoNewMail ==
    ASSUME \A i \in Items : loc'[i] = Mailbox => loc[i] = Mailbox
    PROVE  HasTriggerMail' => HasTriggerMail
  BY DEF HasTriggerMail, MailIn, At

\* Places are told apart by their name, and have the owner they were given.
LEMMA PlacesDiffer ==
    /\ New.at = "new" /\ Mailbox.at = "mailbox" /\ History.at = "settled" /\ Gone.at = "settled"
    /\ \A at, of : Place(at, of).at = at /\ Place(at, of).of = of
  BY DEF Place, New, Mailbox, History, Gone

\* While the slot has a turn or a holder nobody has emptied it to start a turn.
LEMMA NoSpawnAborts ==
    ASSUME SpawnAborts, slotTs # 0 \/ ~Free, NEW a \in Actors, NEW p, NEW ts, NEW g, NEW v,
           Moved(a, p, ts, g, v), p \notin {"a2", "a3"}
    PROVE  SpawnAborts'
<1>1. \A b \in Spawners : pc[b] \in {"a2", "a3"} => goal[b] = NoTurn
  BY DEF SpawnAborts
<1>2. \A b \in Spawners : pc'[b] \in {"a2", "a3"} => goal'[b] = NoTurn
  BY <1>1, Names DEF Moved
<1>3. QED
  BY <1>2 DEF SpawnAborts

\* A step of a turn's own task, up to the end of its run.
LEMMA TaskCore ==
    ASSUME Types, Core, NEW t \in Turns, NEW p \in Alive \cup {"over"},
           pc[t] \in Running \cup {"exit"}, p = "over" => t \in cancelled,
           Moved(t, p, tsOf[t], goal[t], victim[t]),
           UNCHANGED <<slotTs, slotTask, cancelled, terminal, turns, states>>,
           \A i \in Items : loc'[i] \in {loc[i], History, Gone}
    PROVE  Core'
<1> USE Names DEF Alive, Running
<1>1. Goals /\ Numbered /\ Aborted /\ Owned /\ Ended /\ Carried /\ Limbo /\ Heard
  BY DEF Core
<1>2. goal[t] = NoTurn /\ pc[t] \notin HoldPhases \cup LookPhases
  BY <1>1 DEF Goals, HoldPhases, LookPhases, Starts
<1>3. Goals'
  <2>1. \A b \in Actors : goal'[b] = goal[b] /\ (goal[b] # NoTurn => b # t /\ goal[b] # t)
    BY <1>1, <1>2 DEF Goals, Moved
  <2>2. \A b \in Actors : goal[b] \in Turns \cup {NoTurn}
    BY DEF Types, ActorT
  <2>3. ~(t > turns)
    BY <1>1 DEF Goals
  <2>4. QED
    BY <1>1, <2>1, <2>2, <2>3 DEF Goals, Moved
<1>4. Numbered'
  BY <1>1, PlacesDiffer DEF Numbered, Moved
<1>5. Aborted'
  BY <1>1 DEF Aborted, Moved, Victim, Types, Aimed
<1>6. OwnedTask'
  BY <1>1, <1>2 DEF Owned, OwnedTask, Free, Moved, HoldPhases, Aborted, Victim, Types, SlotT
<1>7. OwnedHeld' /\ OneHolder' /\ HolderShape' /\ SpawnAborts'
  <2>1. p \notin HoldPhases /\ (Free' <=> Free)
    BY <1>2 DEF Free, Moved, HoldPhases
  <2>2. OwnedHeld' /\ OneHolder' /\ HolderShape'
    BY <1>1, <1>2, <2>1 DEF Owned, OwnedHeld, OneHolder, HolderShape, Moved
  <2>3. SpawnAborts'
    BY <1>1, <1>2, <2>1 DEF Owned, SpawnAborts, Moved
  <2>4. QED
    BY <2>2, <2>3
<1>8. Ended'
  <2>1. \A u \in Turns : Victim(u)' <=> Victim(u)
    BY DEF Victim, Moved
  <2>2. \A u \in Turns : Unannounced(u)' <=> Unannounced(u)
    BY <2>1 DEF Unannounced, Moved
  <2>3. p = "over" => Unannounced(t)
    BY <1>1 DEF Aborted, Unannounced
  <2>4. QED
    BY <1>1, <2>2, <2>3 DEF Ended, Moved
<1>9. Carried'
  <2>1. ASSUME NEW i \in Items, loc'[i].at = "carried"
        PROVE  loc'[i].of \in Actors /\ pc'[loc'[i].of] \in {"s2", "s3"}
    <3>1. loc'[i] = loc[i]
      BY <2>1, PlacesDiffer
    <3>2. loc[i].of \in Actors /\ pc[loc[i].of] \in {"s2", "s3"}
      BY <1>1, <2>1, <3>1 DEF Carried
    <3>3. loc[i].of # t
      BY <3>2 DEF Running
    <3>4. pc'[loc[i].of] = pc[loc[i].of]
      BY <3>2, <3>3 DEF Moved
    <3>5. QED
      BY <3>1, <3>2, <3>4
  <2>2. ASSUME NEW b \in Actors, NEW i \in Accepted, pc'[b] \in {"f3", "reserved"}
        PROVE  loc'[i] # Place("pending", tsOf'[b])
    <3>1. pc[b] \in {"f3", "reserved"} /\ tsOf'[b] = tsOf[b]
      BY <1>1, <2>2 DEF Moved
    <3>2. loc[i] # Place("pending", tsOf[b])
      BY <1>1, <3>1 DEF Carried
    <3>3. i \in Items
      BY DEF Accepted, Items
    <3>4. QED
      BY <3>1, <3>2, <3>3, PlacesDiffer
  <2>3. QED
    BY <2>1, <2>2 DEF Carried
<1>10. Limbo'
  BY <1>1, PlacesDiffer DEF Limbo, Moved, Accepted, Items
<1>11. Heard'
  <2>1. HasTriggerMail' => HasTriggerMail
    BY NoNewMail, PlacesDiffer
  <2>2. QED
    BY <1>1, <1>2, <2>1 DEF Heard, Moved, LookPhases
<1>12. QED
  BY <1>3, <1>4, <1>5, <1>6, <1>7, <1>8, <1>9, <1>10, <1>11 DEF Core, Owned

\* Emptying the slot: nothing to abort, and the actor goes on or returns, or
\* the task of the slot is now being aborted.
Taken(a) ==
    \/ /\ slotTask = NoTurn /\ goal[a] = NoTurn /\ UNCHANGED cancelled
       /\ Moved(a, AtRest(a), 0, NoTurn, NoTurn)
    \/ /\ slotTask = NoTurn /\ goal[a] # NoTurn /\ UNCHANGED cancelled
       /\ Moved(a, "s1", tsOf[a], goal[a], victim[a])
    \/ /\ slotTask # NoTurn /\ cancelled' = cancelled \cup {slotTask}
       /\ Moved(a, "a2", slotTs, goal[a], slotTask)

\* It keeps the types.
LEMMA TakeType ==
    ASSUME Types, NEW a \in {Loop, Guard, Voice}, TakeActive(a)
    PROVE  /\ PcT' /\ ActorT' /\ Aimed'
           /\ slotTs' = 0 /\ slotTask' = NoTurn /\ cancelled' \subseteq Turns
           /\ raced' \in BOOLEAN
           /\ Taken(a)
<1>1. /\ slotTs' = 0 /\ slotTask' = NoTurn /\ a \in Actors
      /\ tsOf[a] \in 0..MaxTurns /\ goal[a] \in Turns \cup {NoTurn}
      /\ victim[a] \in Turns \cup {NoTurn} /\ slotTs \in 0..MaxTurns
      /\ slotTask \in Turns \cup {NoTurn} /\ cancelled \subseteq Turns
  BY Names DEF TakeActive, Types, ActorT, SlotT, TurnT
<1>2. raced' \in BOOLEAN
  BY Zenon DEF TakeActive
<1>3. CASE slotTask = NoTurn /\ goal[a] = NoTurn
  <2>1. Return(a) /\ UNCHANGED cancelled
    BY <1>3 DEF TakeActive
  <2>2. AtRest(a) = "idle"
    BY Names DEF AtRest
  <2>3. PcT' /\ ActorT' /\ Aimed' /\ Moved(a, AtRest(a), 0, NoTurn, NoTurn)
    <3>1. Moves(a, "idle", 0, NoTurn, NoTurn) /\ "idle" \in PhasesOf(a) /\ 0 \in 0..MaxTurns
      BY <1>1, <2>1, <2>2, ReturnMoves, Names
    <3>2. QED
      BY <1>1, <2>2, <3>1, MovesType DEF Starts, Types
  <2>4. QED
    BY <1>1, <1>2, <1>3, <2>1, <2>3 DEF Taken
<1>4. CASE slotTask = NoTurn /\ goal[a] # NoTurn
  <2>1. Goto(a, "s1") /\ UNCHANGED <<tsOf, goal, victim, cancelled>>
    BY <1>4 DEF TakeActive
  <2>2. "s1" \in PhasesOf(a) /\ goal[a] \in Turns
    BY <1>1, <1>4 DEF PhasesOf, Routines
  <2>3. Moves(a, "s1", tsOf[a], goal[a], victim[a])
    BY <1>1, <2>1, GotoMoves DEF Types
  <2>4. PcT' /\ ActorT' /\ Aimed' /\ Moved(a, "s1", tsOf[a], goal[a], victim[a])
    BY <1>1, <2>2, <2>3, MovesType DEF Types
  <2>5. QED
    BY <1>1, <1>2, <1>4, <2>1, <2>4 DEF Taken
<1>5. CASE slotTask # NoTurn
  <2>1. Moves(a, "a2", slotTs, goal[a], slotTask) /\ cancelled' = cancelled \cup {slotTask}
    BY <1>1, <1>5 DEF TakeActive, Goto, Moves, Types, ActorT
  <2>2. "a2" \in PhasesOf(a) /\ slotTask \in Turns
    BY <1>1, <1>5 DEF PhasesOf, Routines
  <2>3. PcT' /\ ActorT' /\ Aimed' /\ Moved(a, "a2", slotTs, goal[a], slotTask)
    BY <1>1, <2>1, <2>2, MovesType DEF Types, Starts
  <2>4. QED
    BY <1>1, <1>2, <1>5, <2>1, <2>2, <2>3 DEF Taken
<1>6. QED
  BY <1>3, <1>4, <1>5

\* The actor that moves is not the one that looks at a turn state.
LEMMA LimboKept ==
    ASSUME Limbo, NEW a \in Actors, NEW p, NEW ts, NEW g, NEW v, Moved(a, p, ts, g, v),
           pc[a] \notin {"a2", "a3", "f2", "s3", "s4"} \/ tsOf[a] = slotTs',
           slotTs' = slotTs \/ (slotTs = 0 /\ Numbered),
           \A i \in Items : loc'[i].at = "pending" => loc'[i] = loc[i]
    PROVE  Limbo'
<1>1. ASSUME NEW i \in Accepted, loc'[i].at = "pending"
      PROVE  \/ loc'[i].of = slotTs'
             \/ \E b \in Actors : pc'[b] \in {"a2", "a3", "f2", "s3", "s4"} /\ tsOf'[b] = loc'[i].of
  <2>1. loc'[i] = loc[i] /\ i \in Items
    BY <1>1 DEF Accepted, Items
  <2>2. CASE loc[i].of = slotTs
    BY <1>1, <2>1, <2>2 DEF Numbered
  <2>3. CASE \E b \in Actors : pc[b] \in {"a2", "a3", "f2", "s3", "s4"} /\ tsOf[b] = loc[i].of
    BY <2>1, <2>3 DEF Moved
  <2>4. QED
    BY <1>1, <2>1, <2>2, <2>3 DEF Limbo
<1>2. QED
  BY <1>1 DEF Limbo

\* And, unless it is a race, the rest of the invariant.
LEMMA TakeCore ==
    ASSUME Types, Core, NEW a \in {Loop, Guard, Voice}, pc[a] \in {"a1", "idle"},
           TakeActive(a), ~raced', UNCHANGED <<loc, terminal, turns, states>>
    PROVE  Core'
<1> USE Names
<1>1. Goals /\ Numbered /\ Aborted /\ Owned /\ Ended /\ Carried /\ Limbo /\ Heard
  BY DEF Core
<1>2. slotTs' = 0 /\ slotTask' = NoTurn /\ Taken(a) /\ a \in Actors
  BY TakeType
<1>3. slotTs # 0 => slotTask # NoTurn
  BY DEF TakeActive
<1>4. /\ pc[a] = "a1" => a \in Spawners /\ goal[a] # NoTurn /\ goal[a] \in Turns
      /\ pc[a] = "idle" => goal[a] = NoTurn
  BY <1>1 DEF Goals, Starts, Types, Aimed
<1>0. goal[a] # NoTurn => \A b \in Actors : b # a /\ goal[b] # NoTurn => pc[b] = "a1"
  BY DEF TakeActive, Underway
<1>5. HasTriggerMail' <=> HasTriggerMail
  BY DEF HasTriggerMail, MailIn, At
<1>6. \A b \in Actors : goal[b] \in Turns \cup {NoTurn}
  BY DEF Types, ActorT
<1>7. CASE slotTask = NoTurn /\ goal[a] = NoTurn
  <2>1. slotTs = 0 /\ pc[a] = "idle" /\ Moved(a, "idle", 0, NoTurn, NoTurn) /\ cancelled' = cancelled
    BY <1>2, <1>3, <1>4, <1>7 DEF Taken, AtRest
  <2>2. Goals'
    BY <1>1, <1>6, <1>7, <2>1, SMTT(20) DEF Goals, Moved
  <2>3. Numbered'
    BY <1>1, <1>2, <2>1 DEF Numbered, Moved, Types, SlotT
  <2>0. /\ slotTs' = slotTs /\ slotTask' = slotTask /\ \A b \in Actors : pc'[b] = pc[b]
        /\ \A b \in Actors : goal'[b] = goal[b]
        /\ \A b \in Actors : b # a => victim'[b] = victim[b] /\ tsOf'[b] = tsOf[b]
    BY <1>2, <1>4, <1>7, <2>1 DEF Moved
  <2>4. Aborted' /\ Owned'
    <3>1. Aborted'
      BY <1>1, <2>0, <2>1 DEF Aborted, Victim, Types, Aimed
    <3>2. OwnedTask' /\ OwnedHeld' /\ OneHolder' /\ SpawnAborts'
      <4>1. Free' <=> Free
        BY <2>0 DEF Free
      <4>2. OwnedTask' /\ OwnedHeld' /\ OneHolder'
        BY <1>1, <2>0, <2>1, <4>1, Names DEF Owned, OwnedTask, OwnedHeld, OneHolder
      <4>3. SpawnAborts'
        BY <1>1, <2>0, <4>1, Names DEF Owned, SpawnAborts
      <4>4. QED
        BY <4>2, <4>3
    <3>3. HolderShape'
      BY <1>1, <2>0, <2>1 DEF Owned, HolderShape, HoldPhases
    <3>4. QED
      BY <3>1, <3>2, <3>3 DEF Owned
  <2>5. Ended'
    BY <1>1, <1>2, <1>7, <2>1 DEF Ended, Unannounced, Victim, Moved
  <2>6. Carried' /\ Limbo'
    <3>1. loc' = loc /\ pc[a] \notin {"f3", "reserved", "a2", "a3", "f2", "s3", "s4"}
      BY <2>1 DEF TakeActive, Taken
    <3>2. Carried'
      <4>1. ASSUME NEW i \in Items, loc'[i].at = "carried"
            PROVE  loc'[i].of \in Actors /\ pc'[loc'[i].of] \in {"s2", "s3"}
        <5>1. loc[i].of \in Actors /\ pc[loc[i].of] \in {"s2", "s3"}
          BY <1>1, <3>1, <4>1 DEF Carried
        <5>2. QED
          <6>1. loc'[i] = loc[i]
            BY <3>1
          <6>2. pc'[loc[i].of] = pc[loc[i].of]
            BY <2>0, <5>1, Zenon
          <6>3. QED
            BY <5>1, <6>1, <6>2, Zenon
      <4>2. ASSUME NEW b \in Actors, NEW i \in Accepted, pc'[b] \in {"f3", "reserved"}
            PROVE  loc'[i] # Place("pending", tsOf'[b])
        <5>1. pc[b] \in {"f3", "reserved"} /\ b # a
          BY <2>0, <3>1, <4>2
        <5>2. loc[i] # Place("pending", tsOf[b])
          BY <1>1, <5>1 DEF Carried
        <5>3. QED
          BY <2>0, <3>1, <5>1, <5>2
      <4>3. QED
        BY <4>1, <4>2 DEF Carried
    <3>3. Limbo'
      BY <1>1, <2>0, <3>1, LimboKept, <2>1
    <3>4. QED
      BY <3>2, <3>3
  <2>7. Heard'
    BY <1>1, <1>2, <1>5, <2>1 DEF Heard, Moved, LookPhases
  <2>8. QED
    BY <2>2, <2>4, <2>5, <2>6, <2>7, <2>3 DEF Core
<1>8. CASE slotTask = NoTurn /\ goal[a] # NoTurn
  <2>1. /\ slotTs = 0 /\ pc[a] = "a1" /\ a \in Spawners /\ cancelled' = cancelled
        /\ Moved(a, "s1", tsOf[a], goal[a], victim[a])
    BY <1>2, <1>3, <1>4, <1>8 DEF Taken
  <2>2. Free
    BY <1>0, <1>1, <1>8, <2>1 DEF Owned, HolderShape, Free, HoldPhases, Types, Aimed, Starts
  <2>3. Goals' /\ Numbered'
    <3>1. Goals'
      BY <1>1, <1>6, <1>8, <2>1 DEF Goals, Moved, Starts
    <3>2. Numbered'
      BY <1>1, <1>2, <2>1 DEF Numbered, Moved, Types, SlotT
    <3>3. QED
      BY <3>1, <3>2
  <2>4. Aborted'
    BY <1>1, <1>2, <1>8, <2>1 DEF Aborted, Victim, Moved, Types, Aimed
  <2>5. Owned'
    <3>1. SpawnAborts'
      BY <1>0, <1>8, <2>1 DEF SpawnAborts, Spawners, Moved
    <3>2. QED
      BY <1>2, <2>1, <2>2, <3>1 DEF Owned, OwnedTask, OwnedHeld, OneHolder,
            HolderShape, Free, Moved, HoldPhases
  <2>6. Ended'
    BY <1>1, <1>2, <1>8, <2>1 DEF Ended, Unannounced, Victim, Moved
  <2>7. Carried' /\ Limbo' /\ Heard'
    BY <1>1, <1>2, <1>5, <1>8, <2>1 DEF Carried, Limbo, Heard, Moved, LookPhases
  <2>8. QED
    BY <2>3, <2>4, <2>5, <2>6, <2>7 DEF Core
<1>9. CASE slotTask # NoTurn
  <2>1. /\ cancelled' = cancelled \cup {slotTask} /\ slotTask \in Turns
        /\ Moved(a, "a2", slotTs, goal[a], slotTask)
    BY <1>2, <1>9 DEF Taken, Types, SlotT
  <2>2. Free /\ slotTs # 0 /\ pc[slotTask] \in Alive
    BY <1>1, <1>9 DEF Owned, OwnedTask
  <2>3. Goals'
    BY <1>1, <1>4, <1>6, <2>1 DEF Goals, Moved
  <2>4. Numbered'
    BY <1>1, <1>2, <2>1 DEF Numbered, Moved, Types, SlotT
  <2>5. Aborted'
    BY <1>1, <1>2, <1>4, <2>1, <2>2, SMTT(20) DEF Aborted, Victim, Moved, Types, Aimed, Alive, Running
  <2>6. Owned'
    <3>1. \A b \in Spawners : b # a /\ pc[b] \in {"a2", "a3"} => goal[b] = NoTurn
      BY <1>1, <2>2 DEF Owned, SpawnAborts, Spawners
    <3>2. Free'
      BY <2>1, <2>2 DEF Free, Moved, HoldPhases
    <3>3. SpawnAborts'
      BY <1>0, <1>2, <1>4, <2>1, <3>1, <3>2 DEF SpawnAborts, Spawners, Moved
    <3>4. QED
      BY <1>2, <2>1, <2>2, <3>2, <3>3 DEF Owned, OwnedTask, OwnedHeld, OneHolder,
            HolderShape, Free, Moved, HoldPhases
  <2>7. Ended'
    <3>1. \A t \in Turns : Unannounced(t)' <=> Unannounced(t)
      BY <1>2, <1>4, <1>9, <2>1 DEF Unannounced, Victim, Moved
    <3>2. QED
      BY <1>1, <2>1, <3>1 DEF Ended, Moved
  <2>8. Carried' /\ Limbo'
    <3>1. Carried'
      BY <1>1, <1>4, <2>1, <2>2 DEF Carried, Moved, Free, HoldPhases
    <3>2. Limbo'
      BY <1>1, <1>2, <1>4, <2>1, <2>2 DEF Limbo, Moved, Free, HoldPhases
    <3>3. QED
      BY <3>1, <3>2
  <2>9. Heard'
    BY <1>1, <1>2, <1>5, <2>1 DEF Heard, Moved, LookPhases
  <2>10. QED
    BY <2>3, <2>4, <2>5, <2>6, <2>7, <2>8, <2>9 DEF Core
<1>10. QED
  BY <1>7, <1>8, <1>9

-----------------------------------------------------------------------------
(* What a move of one actor leaves as it is. *)

\* Its goal is kept or dropped, and it is not a turn that has not begun.
LEMMA GoalsKept ==
    ASSUME Types, Goals, NEW a \in Actors, NEW p, NEW ts, NEW g \in {goal[a], NoTurn}, NEW v,
           Moved(a, p, ts, g, v), UNCHANGED turns, pc[a] # "none",
           g # NoTurn => /\ p \in Starts \cup {"reserved", "a1", "a2", "a3"}
                         /\ p \in {"a1", "a2", "a3"} => a \in Spawners
    PROVE  Goals'
<1>1. \A b \in Actors : goal[b] \in Turns \cup {NoTurn}
  BY DEF Types, ActorT
<1>2. \A b \in Actors : goal[b] # NoTurn => goal[b] # a
  BY DEF Goals
<1>3. a \in Turns => ~(a > turns)
  BY DEF Goals
<1>4. QED
  BY <1>1, <1>2, <1>3, Names, SMTT(20) DEF Goals, Moved

\* It neither begins nor ends an abort.
LEMMA AbortedKept ==
    ASSUME Types, Aborted, NEW a \in Actors, NEW p, NEW ts, NEW g, NEW v,
           Moved(a, p, ts, g, v), pc[a] # "a2", p # "a2",
           slotTask' \in {slotTask, NoTurn}, UNCHANGED cancelled,
           Victim(a) => p \in Alive \cup {"over"}
    PROVE  Aborted' /\ \A t \in Turns : Victim(t)' <=> Victim(t)
<1>1. \A b \in Actors : pc[b] = "a2" => victim[b] \in Turns
  BY DEF Types, Aimed
<1>2. \A t : Victim(t)' <=> Victim(t)
  BY DEF Victim, Moved
<1>3. ASSUME NEW b \in Actors, pc'[b] = "a2"
      PROVE  pc'[victim'[b]] \in Alive \cup {"over"} /\ slotTask' # victim'[b]
  <2>1. pc[b] = "a2" /\ b # a /\ victim'[b] = victim[b]
    BY <1>3 DEF Moved
  <2>2. victim[b] = a => Victim(a)
    BY <2>1 DEF Victim
  <2>3. QED
    BY <1>1, <2>1, <2>2, Names DEF Aborted, Moved
<1>4. QED
  BY <1>2, <1>3 DEF Aborted, Moved

\* It does not hold the slot before or after, and the slot stays as it is.
LEMMA OwnedKept ==
    ASSUME Types, Owned, NEW a \in Actors, NEW p, NEW ts, NEW g, NEW v,
           Moved(a, p, ts, g, v), pc[a] \notin HoldPhases, p \notin HoldPhases,
           UNCHANGED <<slotTs, slotTask>>, slotTask = a => p \in Alive,
           a \in Spawners /\ p \in {"a2", "a3"} => g = NoTurn, g # NoTurn => p = "a1"
    PROVE  Owned'
<1>1. Free' <=> Free
  BY DEF Free, Moved
<1>2. OwnedTask' /\ OwnedHeld' /\ SpawnAborts'
  <2>1. OwnedTask' /\ OwnedHeld'
    BY <1>1, Names DEF Owned, OwnedTask, OwnedHeld, Moved, Types, SlotT
  <2>2. SpawnAborts'
    BY <1>1, Names DEF Owned, SpawnAborts, Moved, Spawners
  <2>3. QED
    BY <2>1, <2>2
<1>3. OneHolder' /\ HolderShape'
  BY DEF Owned, OneHolder, HolderShape, Moved
<1>4. QED
  BY <1>2, <1>3 DEF Owned

\* It announces nothing, and does not end unannounced.
LEMMA EndedKept ==
    ASSUME Ended, NEW a \in Actors, NEW p, NEW ts, NEW g, NEW v,
           Moved(a, p, ts, g, v), UNCHANGED <<slotTask, terminal>>,
           \A t \in Turns : Victim(t)' <=> Victim(t),
           a \in Turns => /\ pc[a] \notin {"none", "f2"} /\ p \notin {"none", "f2"}
                          /\ p \in Alive => pc[a] \in Alive
    PROVE  Ended'
<1>1. \A t \in Turns : Unannounced(t)' <=> Unannounced(t)
  BY Names DEF Unannounced, Moved
<1>2. QED
  BY <1>1, Names DEF Ended, Moved

\* It carries nothing, and nothing becomes pending.
LEMMA CarriedKept ==
    ASSUME Carried, NEW a \in Actors, NEW p, NEW ts, NEW g, NEW v,
           Moved(a, p, ts, g, v), pc[a] \notin {"s2", "s3"}, p \notin {"f3", "reserved"},
           \A i \in Items : loc'[i].at \in {"carried", "pending"} => loc'[i] = loc[i]
    PROVE  Carried'
<1>1. ASSUME NEW i \in Items, loc'[i].at = "carried"
      PROVE  loc'[i].of \in Actors /\ pc'[loc'[i].of] \in {"s2", "s3"}
  BY <1>1 DEF Carried, Moved
<1>2. ASSUME NEW b \in Actors, NEW i \in Accepted, pc'[b] \in {"f3", "reserved"},
             loc'[i] = Place("pending", tsOf'[b])
      PROVE  FALSE
  BY <1>2, PlacesDiffer DEF Carried, Accepted, Items, Moved
<1>3. QED
  BY <1>1, <1>2 DEF Carried

\* Turn states and their items stay, or a turn state is made.
LEMMA NumberedKept ==
    ASSUME Types, Numbered, NEW a \in Actors, NEW p, NEW ts, NEW g, NEW v,
           Moved(a, p, ts, g, v), states' \in Nat, states <= states', ts <= states',
           slotTs' <= states',
           \A i \in Items : loc'[i].at = "pending" =>
               loc'[i] = loc[i] \/ loc'[i].of \in 1..states
    PROVE  Numbered'
  BY DEF Numbered, Moved, Types, SlotT, ActorT

\* AbortKill: the aborted turn is announced, and is over.
LEMMA AbortKillStep ==
    ASSUME Types, NEW a \in Actors, AbortKill(a)
    PROVE  Types' /\ (Core /\ ~raced' => Core')
<1> USE Names
<1>0. PICK v \in Turns : v = victim[a]
  BY DEF AbortKill, Types, Aimed
<1>1. pc[a] = "a2" /\ a \notin Turns /\ a # v
  BY DEF AbortKill, Types, PcT, PhasesOf
<1>2. /\ UNCHANGED <<slotTs, slotTask, nextTurn, loc, tsOf, goal, victim, kind, 
                     turns, states, stops, raced>>
      /\ cancelled' = cancelled \ {v}
  BY <1>0 DEF AbortKill, slotVars, countVars
<1>3. \A b \in Actors : pc'[b] = IF b = v THEN "over" ELSE IF b = a THEN "a3" ELSE pc[b]
  BY <1>0, <1>1 DEF AbortKill, Types, PcT
<1>4. \A t \in Turns : terminal'[t] = IF t = v THEN terminal[t] + 1 ELSE terminal[t]
  BY <1>0, <1>1 DEF AbortKill, Types, TurnT
<1>5. Types'
  <2>1. PcT'
    BY <1>0, <1>1 DEF AbortKill, Types, PcT, PhasesOf, Phases, Routines
  <2>2. LocT' /\ ActorT' /\ SlotT'
    BY <1>2 DEF Types, LocT, ActorT, SlotT
  <2>3. terminal' \in [Turns -> Nat]
    BY <1>0, <1>1 DEF AbortKill, Types, TurnT
  <2>4. TurnT'
    BY <1>2, <2>3 DEF Types, TurnT
  <2>5. Aimed'
    BY <1>1, <1>2, <1>3 DEF Types, Aimed, Starts
  <2>6. QED
    BY <2>1, <2>2, <2>4, <2>5 DEF Types
<1>6. ASSUME Core PROVE Core'
  <2>1. Goals /\ Numbered /\ Aborted /\ Owned /\ Ended /\ Carried /\ Limbo /\ Heard
    BY <1>6 DEF Core
  <2>2. pc[v] \in Alive \cup {"over"} /\ slotTask # v /\ victim[a] = v
    BY <1>0, <1>1, <2>1 DEF Aborted
  <2>3. \A b \in Actors : goal[b] \in Turns \cup {NoTurn}
    BY DEF Types, ActorT
  <2>4. goal[v] = NoTurn /\ \A b \in Actors : goal[b] # v
    BY <1>1, <2>1, <2>2 DEF Goals, Alive, Running, Starts
  <2>5. \A b \in Actors : pc'[b] = "a2" <=> pc[b] = "a2" /\ b # a
    BY <1>1, <1>3, <2>2 DEF Alive, Running
  <2>6. Goals'
    BY <1>1, <1>2, <1>3, <2>1, <2>2, <2>3, <2>4 DEF Goals, Alive, Running
  <2>7. Numbered'
    BY <1>2, <2>1 DEF Numbered
  <2>8. Aborted'
    <3>1. \A b \in Actors : pc[b] = "a2" /\ b # a => victim[b] \in Turns /\ victim[b] # v
      BY <1>1, <2>1, <2>2 DEF Aborted, Types, Aimed
    <3>2. \A t \in cancelled' : Victim(t)'
      BY <1>2, <2>1, <2>2, <2>5 DEF Aborted, Victim
    <3>3. QED
      BY <1>1, <1>2, <1>3, <2>1, <2>5, <3>1, <3>2 DEF Aborted
  <2>9. OwnedTask' /\ OwnedHeld' /\ OneHolder'
    BY <1>1, <1>2, <1>3, <2>1, <2>2 DEF Owned, OwnedTask, OwnedHeld, OneHolder, Free,
          HoldPhases, Alive, Running, Types, SlotT
  <2>10. HolderShape' /\ SpawnAborts'
    <3>1. HolderShape' /\ (Free => Free')
      BY <1>1, <1>2, <1>3, <2>1 DEF Owned, HolderShape, Free, HoldPhases
    <3>2. SpawnAborts'
      BY <1>1, <1>2, <1>3, <2>1, <3>1 DEF Owned, SpawnAborts
    <3>3. QED
      BY <3>1, <3>2
  <2>11. Ended'
    <3>1. \A t \in Turns : t # v => (Unannounced(t)' <=> Unannounced(t))
      BY <1>1, <1>2, <1>3, <2>2, <2>5 DEF Unannounced, Victim
    <3>2. ~Unannounced(v)' /\ Unannounced(v)
      BY <1>1, <1>2, <1>3, <2>1, <2>2 DEF Unannounced, Victim, Aborted
    <3>3. QED
      BY <1>1, <1>3, <1>4, <2>1, <3>1, <3>2 DEF Ended, Alive, Running
  <2>12. Carried' /\ Limbo'
    <3>1. pc[v] \notin {"s2", "s3", "f3", "reserved", "a2", "a3", "f2", "s4"}
      BY <2>2 DEF Alive, Running
    <3>2. \A b \in Actors : b # a /\ b # v => pc'[b] = pc[b]
      BY <1>3
    <3>3. pc'[a] = "a3" /\ pc'[v] = "over" /\ v \in Actors
      BY <1>1, <1>3
    <3>4. loc' = loc /\ tsOf' = tsOf /\ slotTs' = slotTs
      BY <1>2
    <3>5. ASSUME NEW i \in Items, loc'[i].at = "carried"
          PROVE  loc'[i].of \in Actors /\ pc'[loc'[i].of] \in {"s2", "s3"}
      <4>1. loc[i].of \in Actors /\ pc[loc[i].of] \in {"s2", "s3"}
        BY <2>1, <3>4, <3>5 DEF Carried
      <4>2. loc[i].of # a /\ loc[i].of # v
        BY <1>1, <3>1, <4>1
      <4>3. QED
        BY <3>2, <3>4, <4>1, <4>2
    <3>6. ASSUME NEW b \in Actors, NEW i \in Accepted, pc'[b] \in {"f3", "reserved"}
          PROVE  loc'[i] # Place("pending", tsOf'[b])
      <4>1. b # a /\ b # v
        BY <3>3, <3>6
      <4>2. QED
        BY <2>1, <3>2, <3>4, <3>6, <4>1 DEF Carried
    <3>7. Limbo'
      <4>1. ASSUME NEW i \in Accepted, loc'[i].at = "pending"
            PROVE  \/ loc'[i].of = slotTs'
                   \/ \E b \in Actors : pc'[b] \in {"a2", "a3", "f2", "s3", "s4"} /\ tsOf'[b] = loc'[i].of
        BY <1>1, <2>1, <3>1, <3>2, <3>3, <3>4, <4>1 DEF Limbo
      <4>2. QED
        BY <4>1 DEF Limbo
    <3>8. QED
      BY <3>5, <3>6, <3>7 DEF Carried
  <2>13. HasTriggerMail' <=> HasTriggerMail
    BY <1>2 DEF HasTriggerMail, MailIn, At
  <2>14. Heard'
    BY <1>1, <1>2, <1>3, <2>1, <2>13 DEF Heard, LookPhases
  <2>15. QED
    BY <2>6, <2>7, <2>8, <2>9, <2>10, <2>11, <2>12, <2>14 DEF Core, Owned
<1>7. QED
  BY <1>5, <1>6

\* AbortClear: what was pending for the aborted turn is gone.
LEMMA AbortClearStep ==
    ASSUME Types, NEW a \in Actors, AbortClear(a)
    PROVE  Types' /\ (Core /\ ~raced' => Core')
<1> USE Names
<1> DEFINE p == IF goal[a] = NoTurn THEN "m1" ELSE "s1"
<1>1. pc[a] = "a3" /\ a \notin Turns
  BY DEF AbortClear, Types, PcT, PhasesOf
<1>2. UNCHANGED <<slotTs, slotTask, goal, kind, cancelled, terminal, turns, states,
                  stops, raced>>
  BY DEF AbortClear, slotVars, turnVars, countVars
<1>3. PcT' /\ ActorT' /\ Aimed' /\ Moved(a, p, 0, goal[a], NoTurn)
  <2>1. Moves(a, p, 0, goal[a], NoTurn) /\ goal[a] \in Turns \cup {NoTurn} /\ 0 \in 0..MaxTurns
    BY DEF AbortClear, Goto, Moves, Types, ActorT
  <2>2. p \in PhasesOf(a)
    BY <1>1 DEF PhasesOf, Routines
  <2>3. p \in Starts \cup {"reserved", "a1"} => goal[a] \in Turns
    BY <2>1 DEF Starts
  <2>4. p # "a2"
    OBVIOUS
  <2> HIDE DEF p
  <2>5. QED
    BY <2>1, <2>2, <2>3, <2>4, MovesType DEF Types
<1>4. LocT' /\ \A i \in Items : loc'[i] \in {loc[i], Gone}
  BY MoveType, PlaceType DEF AbortClear, Types, LocT
<1>5. Types'
  BY <1>2, <1>3, <1>4, TurnTSame DEF Types, SlotT, AbortClear, TurnT
<1>6. ASSUME Core PROVE Core'
  <2>1. Goals /\ Numbered /\ Aborted /\ Owned /\ Ended /\ Carried /\ Limbo /\ Heard
    BY <1>6 DEF Core
  <2>2. \A b \in Actors : goal[b] \in Turns \cup {NoTurn}
    BY DEF Types, ActorT
  <2>3. goal[a] # NoTurn => /\ a \in Spawners /\ slotTs = 0 /\ Free
                            /\ \A b \in Spawners \ {a} : goal[b] # NoTurn => pc[b] = "a1"
    BY <1>1, <2>1 DEF Goals, Owned, SpawnAborts
  <2>4. Goals'
    BY <1>1, <1>2, <1>3, <2>1, <2>2 DEF Goals, Moved, Starts
  <2>5. Numbered'
    BY <1>2, <1>3, <1>4, <2>1, PlacesDiffer DEF Numbered, Moved, Types, SlotT
  <2>6. Aborted'
    BY <1>1, <1>2, <1>3, <2>1 DEF Aborted, Victim, Moved, Types, Aimed
  <2>7. OwnedTask' /\ OwnedHeld' /\ OneHolder'
    BY <1>1, <1>2, <1>3, <2>1, <2>3 DEF Owned, OwnedTask, OwnedHeld, OneHolder, Free, Moved,
          HoldPhases, Types, SlotT
  <2>8. HolderShape' /\ SpawnAborts'
    <3>1. HolderShape'
      BY <1>1, <1>2, <1>3, <2>1, <2>3 DEF Owned, HolderShape, Moved, HoldPhases
    <3>2. CASE goal[a] = NoTurn
      <4>1. Free' <=> Free
        BY <1>1, <1>3, <3>2 DEF Free, Moved, HoldPhases
      <4>2. QED
        BY <1>1, <1>2, <1>3, <2>1, <3>1, <3>2, <4>1 DEF Owned, SpawnAborts, Moved
    <3>3. CASE goal[a] # NoTurn
      BY <1>1, <1>2, <1>3, <2>3, <3>1, <3>3 DEF SpawnAborts, Moved
    <3>4. QED
      BY <3>2, <3>3
  <2>9. Ended'
    BY <1>1, <1>2, <1>3, <2>1 DEF Ended, Unannounced, Victim, Moved
  <2>10. Carried'
    <3>1. \A i \in Items : loc'[i].at \in {"carried", "pending"} => loc'[i] = loc[i]
      BY <1>4, PlacesDiffer
    <3>2. \A b \in Actors : pc'[b] = IF b = a THEN p ELSE pc[b]
      BY <1>3 DEF Moved
    <3>3. \A b \in Actors : b # a => tsOf'[b] = tsOf[b]
      BY <1>3 DEF Moved
    <3>4. ASSUME NEW i \in Items, loc'[i].at = "carried"
          PROVE  loc'[i].of \in Actors /\ pc'[loc'[i].of] \in {"s2", "s3"}
      BY <1>1, <2>1, <3>1, <3>2, <3>4 DEF Carried
    <3>5. ASSUME NEW b \in Actors, NEW i \in Accepted, pc'[b] \in {"f3", "reserved"},
                 loc'[i] = Place("pending", tsOf'[b])
          PROVE  FALSE
      BY <1>1, <2>1, <3>1, <3>2, <3>3, <3>5, PlacesDiffer DEF Carried, Accepted, Items
    <3>6. QED
      BY <3>4, <3>5 DEF Carried
  <2>11. Limbo'
    <3>1. \A i \in Items : loc'[i] = IF i \in Pending(tsOf[a]) THEN Gone ELSE loc[i]
      BY MoveType, PlaceType DEF AbortClear, Types, LocT
    <3>2. ASSUME NEW i \in Accepted, loc'[i].at = "pending"
          PROVE  loc'[i] = loc[i] /\ loc[i].of # tsOf[a]
      BY <3>1, <3>2, PlacesDiffer DEF Pending, At, Place, Accepted, Items, Types, LocT, Spots
    <3>3. QED
      BY <1>2, <1>3, <2>1, <3>2 DEF Limbo, Moved
  <2>12. HasTriggerMail' => HasTriggerMail
    BY <1>4, NoNewMail, PlacesDiffer
  <2>13. Heard'
    BY <1>1, <1>2, <1>3, <2>1, <2>12 DEF Heard, Moved, LookPhases
  <2>14. QED
    BY <2>4, <2>5, <2>6, <2>7, <2>8, <2>9, <2>10, <2>11, <2>13 DEF Core, Owned
<1>7. QED
  BY <1>5, <1>6

\* WakeLook: the actor goes on only if mail asks for a turn.
LEMMA WakeLookStep ==
    ASSUME Types, NEW a \in Actors, WakeLook(a)
    PROVE  Types' /\ (Core /\ ~raced' => Core')
<1> USE Names
<1>1. pc[a] = "m1" /\ UNCHANGED <<slotTs, slotTask, nextTurn, loc, kind, cancelled, 
                                  terminal, turns, states, stops, raced>>
  BY DEF WakeLook, slotVars, turnVars, countVars
<1>2. PICK p \in {"m2", "idle", "over"}, ts \in 0..MaxTurns, g \in {goal[a], NoTurn},
            v \in Turns \cup {NoTurn} :
        /\ PcT' /\ ActorT' /\ Aimed' /\ Moved(a, p, ts, g, v)
        /\ ts \in {tsOf[a], 0} /\ (p = "m2" => g = goal[a]) /\ (p # "m2" => g = NoTurn)
        /\ p # "m2" => ~HasTriggerMail
        /\ p = "over" => a \in Turns
  <2>1. CASE HasTriggerMail
    <3>1. Goto(a, "m2") /\ UNCHANGED <<tsOf, goal, victim>>
      BY <2>1 DEF WakeLook
    <3>2. "m2" \in PhasesOf(a) /\ tsOf[a] \in 0..MaxTurns /\ victim[a] \in Turns \cup {NoTurn}
      BY DEF PhasesOf, Routines, Phases, Types, ActorT
    <3>3. PcT' /\ ActorT' /\ Aimed' /\ Moved(a, "m2", tsOf[a], goal[a], victim[a])
      BY <3>1, <3>2, GotoType DEF Starts
    <3>4. QED
      BY <3>2, <3>3
  <2>2. CASE ~HasTriggerMail
    <3>1. PcT' /\ ActorT' /\ Aimed' /\ Moved(a, AtRest(a), 0, NoTurn, NoTurn)
      BY <2>2, ReturnType DEF WakeLook
    <3>2. AtRest(a) \in {"idle", "over"} /\ 0 \in 0..MaxTurns /\ (AtRest(a) = "over" => a \in Turns)
      BY DEF AtRest
    <3>3. QED
      BY <2>2, <3>1, <3>2
  <2>3. QED
    BY <2>1, <2>2
<1>3. Types'
  BY <1>1, <1>2 DEF Types, SlotT, LocT, TurnT
<1>4. ASSUME Core PROVE Core'
  <2>1. Goals /\ Numbered /\ Aborted /\ Owned /\ Ended /\ Carried /\ Limbo /\ Heard
    BY <1>4 DEF Core
  <2>2. goal[a] = NoTurn /\ pc[a] \notin HoldPhases /\ slotTask # a /\ ~Victim(a)
    BY <1>1, <2>1 DEF Goals, Starts, HoldPhases, Owned, OwnedTask, Alive, Running, Aborted, Victim
  <2>3. p \notin HoldPhases /\ g = NoTurn
    BY <1>2, <2>2 DEF HoldPhases
  <2>4. Goals'
    BY <1>1, <1>2, <2>1, <2>3, GoalsKept
  <2>5. Numbered'
    BY <1>1, <1>2, <2>1, NumberedKept DEF Types, SlotT, Numbered
  <2>6. Aborted' /\ \A t \in Turns : Victim(t)' <=> Victim(t)
    BY <1>1, <1>2, <2>1, <2>2, AbortedKept
  <2>7. Owned'
    BY <1>1, <1>2, <2>1, <2>2, <2>3, OwnedKept
  <2>8. Ended'
    BY <1>1, <1>2, <2>1, <2>6, EndedKept DEF Alive, Running
  <2>9. Carried' /\ Limbo'
    BY <1>1, <1>2, <2>1, CarriedKept, LimboKept
  <2>10. Heard'
    <3>1. HasTriggerMail' <=> HasTriggerMail
      BY <1>1 DEF HasTriggerMail, MailIn, At
    <3>2. QED
      BY <1>1, <1>2, <2>1, <3>1 DEF Heard, Moved, LookPhases
  <2>11. QED
    BY <2>4, <2>5, <2>6, <2>7, <2>8, <2>9, <2>10 DEF Core
<1>5. QED
  BY <1>3, <1>4

\* WakeReserve: an empty slot is reserved for a new turn.
LEMMA WakeReserveStep ==
    ASSUME Types, NEW a \in Actors, WakeReserve(a)
    PROVE  Types' /\ (Core /\ ~raced' => Core')
<1> USE Names
<1>1. pc[a] = "m2" /\ UNCHANGED <<slotTask, nextTurn, loc, kind, cancelled, 
                                  terminal, stops>>
  BY DEF WakeReserve, turnVars
<1>2. raced' \in BOOLEAN
  BY Zenon DEF WakeReserve
<1>3. TurnT' /\ LocT'
  BY <1>1, <1>2 DEF Types, TurnT, LocT
<1>4. CASE slotTs # 0
  <2>1. Return(a) /\ UNCHANGED <<slotTs, turns, states>>
    BY <1>4 DEF WakeReserve
  <2>2. PcT' /\ ActorT' /\ Aimed' /\ Moved(a, AtRest(a), 0, NoTurn, NoTurn)
    BY <2>1, ReturnType
  <2>3. AtRest(a) \in {"idle", "over"} /\ (AtRest(a) = "over" => a \in Turns)
    BY DEF AtRest
  <2>4. Types'
    BY <1>1, <1>3, <2>1, <2>2 DEF Types, SlotT
  <2>5. ASSUME Core PROVE Core'
    <3>1. Goals /\ Numbered /\ Aborted /\ Owned /\ Ended /\ Carried /\ Limbo /\ Heard
      BY <2>5 DEF Core
    <3>2. pc[a] \notin HoldPhases /\ slotTask # a /\ ~Victim(a) /\ AtRest(a) \notin HoldPhases
      BY <1>1, <2>3, <3>1 DEF HoldPhases, Owned, OwnedTask, Alive, Running, Aborted, Victim
    <3>3. Goals'
      BY <1>1, <2>1, <2>2, <3>1, GoalsKept
    <3>4. Numbered'
      BY <1>1, <2>1, <2>2, <3>1, NumberedKept DEF Types, SlotT, Numbered
    <3>5. Aborted' /\ \A t \in Turns : Victim(t)' <=> Victim(t)
      BY <1>1, <2>2, <2>3, <3>1, <3>2, AbortedKept
    <3>6. Owned'
      BY <1>1, <2>1, <2>2, <2>3, <3>1, <3>2, OwnedKept
    <3>7. Ended'
      BY <1>1, <2>2, <2>3, <3>1, <3>5, EndedKept DEF Alive, Running
    <3>8. Carried' /\ Limbo'
      BY <1>1, <2>1, <2>2, <2>3, <3>1, CarriedKept, LimboKept
    <3>9. Heard'
      <4>1. HasTriggerMail' <=> HasTriggerMail
        BY <1>1 DEF HasTriggerMail, MailIn, At
      <4>2. QED
        BY <1>1, <1>4, <2>1, <2>2, <2>3, <3>1, <4>1 DEF Heard, Moved
    <3>10. QED
      BY <3>3, <3>4, <3>5, <3>6, <3>7, <3>8, <3>9 DEF Core
  <2>6. QED
    BY <2>4, <2>5
<1>5. CASE slotTs = 0
  <2>1. /\ states < MaxTurns /\ slotTs' = states + 1 /\ states' = states + 1
        /\ turns < MaxTurns /\ turns' = turns + 1
        /\ Moves(a, "s1", tsOf[a], turns + 1, victim[a])
        /\ turns + 1 \in Turns /\ states + 1 \in 0..MaxTurns /\ turns + 1 \in 0..MaxTurns
        /\ tsOf[a] \in 0..MaxTurns /\ victim[a] \in Turns \cup {NoTurn}
    BY <1>5 DEF WakeReserve, NewState, Goto, Moves, Types, SlotT, ActorT
  <2>2. "s1" \in PhasesOf(a)
    BY DEF PhasesOf, Routines, Phases
  <2>3. PcT' /\ ActorT' /\ Aimed' /\ Moved(a, "s1", tsOf[a], turns + 1, victim[a])
    BY <2>1, <2>2, MovesType DEF Types
  <2>4. Types'
    BY <1>1, <1>3, <2>1, <2>3 DEF Types, SlotT
  <2>5. ASSUME Core, ~raced' PROVE Core'
    <3>1. Goals /\ Numbered /\ Aborted /\ Owned /\ Ended /\ Carried /\ Limbo /\ Heard
      BY <2>5 DEF Core
    <3>2. \A b \in Actors : b # a /\ goal[b] # NoTurn => pc[b] = "a1"
      BY <1>5, <2>5 DEF WakeReserve, Underway
    <3>0. goal[a] = NoTurn /\ \A b \in Actors : goal[b] \in Turns \cup {NoTurn}
      BY <1>1, <3>1 DEF Goals, Starts, Types, ActorT
    <3>3. Free /\ slotTask = NoTurn
      BY <1>1, <1>5, <3>1, <3>2 DEF Owned, HolderShape, OwnedTask, Free, HoldPhases, Types, Aimed,
            Starts
    <3>4. turns \in Nat /\ states \in Nat
      BY DEF Types, SlotT
    <3>5. Goals'
      <4>1. pc[turns + 1] = "none"
        BY <2>1, <3>1, <3>4 DEF Goals
      <4>2. \A t \in Turns : t > turns + 1 => t > turns /\ t # a
        BY <1>1, <3>1, <3>4 DEF Goals
      <4>3. \A b \in Actors : b # a => goal'[b] = goal[b]
        BY <2>3 DEF Moved
      <4>4. \A b \in Actors : goal[b] # NoTurn => goal[b] # a /\ goal[b] # turns + 1
        BY <1>1, <3>0, <3>1, <3>4 DEF Goals
      <4>5. ASSUME NEW b \in Actors, goal'[b] # NoTurn
            PROVE  /\ pc'[b] \in Starts \cup {"reserved", "a1", "a2", "a3"}
                   /\ pc'[b] \in {"a1", "a2", "a3"} => b \in Spawners
                   /\ goal'[b] <= turns' /\ pc'[goal'[b]] = "none"
        <5>1. CASE b = a
          <6>1. goal'[b] = turns + 1 /\ pc'[b] = "s1" /\ turns + 1 # a /\ turns + 1 \in Actors
            BY <1>1, <2>1, <2>3, <4>1, <5>1 DEF Moved
          <6>2. pc'[turns + 1] = "none"
            BY <2>3, <4>1, <6>1 DEF Moved
          <6>3. QED
            BY <2>1, <3>4, <6>1, <6>2 DEF Starts
        <5>2. CASE b # a
          <6>1. goal'[b] = goal[b] /\ goal[b] \in Turns /\ pc'[b] = pc[b]
            BY <2>3, <3>0, <4>5, <5>2 DEF Moved
          <6>2. pc'[goal[b]] = pc[goal[b]]
            BY <2>3, <4>4, <6>1 DEF Moved
          <6>3. QED
            BY <2>1, <3>1, <3>4, <4>5, <6>1, <6>2 DEF Goals
        <5>3. QED
          BY <5>1, <5>2
      <4>6. \A b, c \in Actors : goal'[b] # NoTurn /\ goal'[b] = goal'[c] => b = c
        BY <2>3, <3>1, <4>4 DEF Goals, Moved
      <4>7. \A t \in Turns : t > turns' => pc'[t] = "none"
        BY <2>1, <2>3, <3>1, <4>2 DEF Goals, Moved
      <4>8. QED
        BY <4>5, <4>6, <4>7 DEF Goals
    <3>6. Numbered'
      <4>1. tsOf[a] <= states + 1 /\ slotTs' <= states' /\ states <= states' /\ states' \in Nat
        BY <2>1, <3>1, <3>4 DEF Numbered
      <4>2. QED
        BY <1>1, <2>1, <2>3, <3>1, <4>1, NumberedKept
    <3>7. Aborted' /\ \A t \in Turns : Victim(t)' <=> Victim(t)
      <4>1. ~Victim(a)
        BY <1>1, <3>1 DEF Aborted, Victim, Alive, Running
      <4>2. QED
        BY <1>1, <2>3, <3>1, <4>1, AbortedKept
    <3>8. Owned'
      <4>1. SpawnAborts'
        BY <1>1, <2>3, <3>2 DEF SpawnAborts, Spawners, Moved
      <4>2. QED
        BY <1>1, <2>1, <2>3, <3>3, <3>4, <4>1, SMTT(20) DEF Owned, OwnedTask, OwnedHeld, OneHolder,
              HolderShape, Free, HoldPhases, Moved
    <3>9. Ended'
      BY <1>1, <2>3, <3>1, <3>7, EndedKept DEF Alive, Running
    <3>10. Carried' /\ Limbo'
      BY <1>1, <1>5, <2>3, <3>1, CarriedKept, LimboKept
    <3>11. Heard'
      BY <1>1, <2>1, <2>3, <3>1, <3>4 DEF Heard, Moved, HasTriggerMail, MailIn, At
    <3>12. QED
      BY <3>5, <3>6, <3>7, <3>8, <3>9, <3>10, <3>11 DEF Core
  <2>6. QED
    BY <2>4, <2>5
<1>6. QED
  BY <1>4, <1>5

\* StartDrain: what is pending is taken along.
LEMMA StartDrainStep ==
    ASSUME Types, NEW a \in Actors, StartDrain(a)
    PROVE  Types' /\ (Core /\ ~raced' => Core')
<1> USE Names
<1>1. pc[a] = "s1" /\ UNCHANGED <<slotTs, slotTask, nextTurn, kind, cancelled, 
                                  terminal, turns, states, stops, raced>>
  BY DEF StartDrain, slotVars, turnVars, countVars
<1>2. PcT' /\ ActorT' /\ Aimed' /\ Moved(a, "s2", tsOf[a], goal[a], victim[a])
  <2>1. "s2" \in PhasesOf(a) /\ goal[a] \in Turns
    BY <1>1 DEF PhasesOf, Routines, Phases, Types, Aimed, Starts
  <2>2. Goto(a, "s2") /\ UNCHANGED <<tsOf, goal, victim>>
    BY DEF StartDrain
  <2>3. QED
    BY <2>1, <2>2, GotoType
<1>3. LocT' /\ \A i \in Items : loc'[i] \in {loc[i], Place("carried", a)}
  <2>1. Place("carried", a) \in Spots
    BY PlaceType DEF Places
  <2>2. QED
    BY <2>1, MoveType DEF StartDrain, Types, LocT
<1>4. Types'
  BY <1>1, <1>2, <1>3 DEF Types, SlotT, TurnT
<1>5. ASSUME Core PROVE Core'
  <2>1. Goals /\ Numbered /\ Aborted /\ Owned /\ Ended /\ Carried /\ Limbo /\ Heard
    BY <1>5 DEF Core
  <2>2. \A i \in Items : loc'[i].at = "pending" => loc'[i] = loc[i]
    BY <1>3, PlacesDiffer
  <2>3. Goals'
    BY <1>1, <1>2, <2>1, GoalsKept DEF Starts
  <2>4. Numbered'
    BY <1>1, <1>2, <2>1, <2>2, NumberedKept DEF Types, SlotT, Numbered
  <2>5. Aborted' /\ \A t \in Turns : Victim(t)' <=> Victim(t)
    <3>1. ~Victim(a)
      BY <1>1, <2>1 DEF Aborted, Victim, Alive, Running
    <3>2. QED
      BY <1>1, <1>2, <2>1, <3>1, AbortedKept
  <2>6. Owned'
    <3>1. ~Free
      BY <1>1 DEF Free, HoldPhases
    <3>2. SpawnAborts'
      BY <1>2, <2>1, <3>1, NoSpawnAborts DEF Owned
    <3>3. QED
      BY <1>1, <1>2, <2>1, <3>2 DEF Owned, OwnedTask, OwnedHeld, OneHolder, HolderShape, Free,
            HoldPhases, Moved
  <2>7. Ended'
    BY <1>1, <1>2, <2>1, <2>5, EndedKept DEF Alive, Running
  <2>8. Carried'
    <3>1. ASSUME NEW i \in Items, loc'[i].at = "carried"
          PROVE  loc'[i].of \in Actors /\ pc'[loc'[i].of] \in {"s2", "s3"}
      <4>1. CASE loc'[i] = loc[i]
        <5>1. loc[i].of \in Actors /\ pc[loc[i].of] \in {"s2", "s3"}
          BY <2>1, <3>1, <4>1 DEF Carried
        <5>2. QED
          <6>1. pc'[loc[i].of] \in {"s2", "s3"}
            BY <1>1, <1>2, <5>1 DEF Moved
          <6>2. QED
            BY <4>1, <5>1, <6>1, Zenon
      <4>2. CASE loc'[i] = Place("carried", a)
        BY <1>2, <4>2, PlacesDiffer DEF Moved
      <4>3. QED
        BY <1>3, <4>1, <4>2
    <3>2. ASSUME NEW b \in Actors, NEW i \in Accepted, pc'[b] \in {"f3", "reserved"},
                 loc'[i] = Place("pending", tsOf'[b])
          PROVE  FALSE
      BY <1>1, <1>2, <2>1, <2>2, <3>2, PlacesDiffer DEF Carried, Accepted, Items, Moved
    <3>3. QED
      BY <3>1, <3>2 DEF Carried
  <2>9. Limbo'
    BY <1>1, <1>2, <2>1, <2>2, LimboKept
  <2>10. Heard'
    <3>1. HasTriggerMail' => HasTriggerMail
      BY <1>3, NoNewMail, PlacesDiffer
    <3>2. QED
      BY <1>1, <1>2, <2>1, <3>1 DEF Heard, Moved, LookPhases
  <2>11. QED
    BY <2>3, <2>4, <2>5, <2>6, <2>7, <2>8, <2>9, <2>10 DEF Core
<1>6. QED
  BY <1>4, <1>5

\* StartLookup: the slot has a turn state from here on.
LEMMA StartLookupStep ==
    ASSUME Types, NEW a \in Actors, StartLookup(a)
    PROVE  Types' /\ (Core /\ ~raced' => Core')
<1> USE Names
<1>1. pc[a] = "s2" /\ UNCHANGED <<slotTask, nextTurn, loc, kind, cancelled, 
                                  terminal, turns, stops, raced>>
  BY DEF StartLookup, turnVars
<1>2. /\ slotTs' \in 0..MaxTurns /\ states' \in 0..MaxTurns
      /\ \/ slotTs # 0 /\ slotTs' = slotTs /\ states' = states
         \/ slotTs = 0 /\ slotTs' = states + 1 /\ states' = states + 1
  BY DEF StartLookup, SlotOrNew, NewState, Types, SlotT
<1>3. PcT' /\ ActorT' /\ Aimed' /\ Moved(a, "s3", slotTs', goal[a], victim[a])
  <2>1. /\ "s3" \in PhasesOf(a) /\ goal[a] \in Turns /\ goal[a] \in Turns \cup {NoTurn}
        /\ victim[a] \in Turns \cup {NoTurn}
    BY <1>1 DEF PhasesOf, Routines, Phases, Types, ActorT, Aimed, Starts
  <2>2. Moves(a, "s3", slotTs', goal[a], victim[a])
    BY DEF StartLookup, Goto, Moves, Types, ActorT
  <2>3. QED
    BY <1>2, <2>1, <2>2, MovesType DEF Types
<1>4. Types'
  BY <1>1, <1>2, <1>3 DEF Types, SlotT, TurnT, LocT
<1>5. ASSUME Core PROVE Core'
  <2>1. Goals /\ Numbered /\ Aborted /\ Owned /\ Ended /\ Carried /\ Limbo /\ Heard
    BY <1>5 DEF Core
  <2>2. slotTask = NoTurn /\ states \in Nat /\ slotTs' # 0
    BY <1>1, <1>2, <2>1 DEF Owned, OwnedTask, Free, HoldPhases, Types, SlotT
  <2>3. Goals'
    BY <1>1, <1>3, <2>1, GoalsKept DEF Starts
  <2>4. Numbered'
    <3>1. states' \in Nat /\ states <= states' /\ slotTs' <= states'
      BY <1>2, <2>1, <2>2 DEF Numbered
    <3>2. QED
      BY <1>1, <1>3, <2>1, <3>1, NumberedKept
  <2>5. Aborted' /\ \A t \in Turns : Victim(t)' <=> Victim(t)
    <3>1. ~Victim(a)
      BY <1>1, <2>1 DEF Aborted, Victim, Alive, Running
    <3>2. QED
      BY <1>1, <1>3, <2>1, <3>1, AbortedKept
  <2>6. Owned'
    <3>1. \A b \in Actors : pc[b] \in HoldPhases => b = a
      BY <1>1, <2>1 DEF Owned, OneHolder, HoldPhases
    <3>2. \A b \in Actors : pc'[b] \in HoldPhases <=> b = a
      BY <1>3, <3>1 DEF Moved, HoldPhases
    <3>3. ~Free /\ ~Free' /\ pc'[a] = "s3" /\ tsOf'[a] = slotTs'
      BY <1>1, <1>3, <3>2 DEF Free, HoldPhases, Moved
    <3>4. SpawnAborts'
      BY <1>3, <2>1, <3>3, NoSpawnAborts DEF Owned
    <3>5. QED
      BY <1>1, <2>2, <3>2, <3>3, <3>4 DEF Owned, OwnedTask, OwnedHeld, OneHolder, HolderShape
  <2>7. Ended'
    BY <1>1, <1>3, <2>1, <2>5, EndedKept DEF Alive, Running
  <2>8. Carried'
    <3>1. ASSUME NEW i \in Items, loc'[i].at = "carried"
          PROVE  loc'[i].of \in Actors /\ pc'[loc'[i].of] \in {"s2", "s3"}
      BY <1>1, <1>3, <2>1, <3>1 DEF Carried, Moved
    <3>2. ASSUME NEW b \in Actors, NEW i \in Accepted, pc'[b] \in {"f3", "reserved"},
                 loc'[i] = Place("pending", tsOf'[b])
          PROVE  FALSE
      BY <1>1, <1>3, <2>1, <3>2 DEF Carried, Moved
    <3>3. QED
      BY <3>1, <3>2 DEF Carried
  <2>9. Limbo'
    BY <1>1, <1>2, <1>3, <2>1, LimboKept
  <2>10. Heard'
    BY <1>1, <1>3, <2>1, <2>2 DEF Heard, Moved, HasTriggerMail, MailIn, At
  <2>11. QED
    BY <2>3, <2>4, <2>5, <2>6, <2>7, <2>8, <2>9, <2>10 DEF Core
<1>6. QED
  BY <1>4, <1>5

\* StartExtend: what was taken along is pending for the new turn.
LEMMA StartExtendStep ==
    ASSUME Types, NEW a \in Actors, StartExtend(a)
    PROVE  Types' /\ (Core /\ ~raced' => Core')
<1> USE Names
<1>1. pc[a] = "s3" /\ UNCHANGED <<slotTs, slotTask, nextTurn, kind, cancelled, 
                                  terminal, turns, states, stops, raced>>
  BY DEF StartExtend, slotVars, turnVars, countVars
<1>2. PcT' /\ ActorT' /\ Aimed' /\ Moved(a, "s4", tsOf[a], goal[a], victim[a])
  <2>1. "s4" \in PhasesOf(a) /\ goal[a] \in Turns
    BY <1>1 DEF PhasesOf, Routines, Phases, Types, Aimed, Starts
  <2>2. Goto(a, "s4") /\ UNCHANGED <<tsOf, goal, victim>>
    BY DEF StartExtend
  <2>3. QED
    BY <2>1, <2>2, GotoType
<1>3. LocT' /\ \A i \in Items : loc'[i] = IF loc[i] = Place("carried", a)
                                          THEN Place("pending", tsOf[a]) ELSE loc[i]
  <2>1. Place("pending", tsOf[a]) \in Spots
    BY PlaceType DEF Places, Types, ActorT
  <2>2. QED
    BY <2>1, MoveType DEF StartExtend, Types, LocT, At
<1>4. Types'
  BY <1>1, <1>2, <1>3 DEF Types, SlotT, TurnT
<1>5. ASSUME Core PROVE Core'
  <2>1. Goals /\ Numbered /\ Aborted /\ Owned /\ Ended /\ Carried /\ Limbo /\ Heard
    BY <1>5 DEF Core
  <2>2. tsOf[a] = slotTs /\ slotTs \in 1..states /\ slotTask = NoTurn
    BY <1>1, <2>1 DEF Owned, HolderShape, OwnedTask, Free, HoldPhases, Numbered, Types, SlotT
  <2>3. Goals'
    BY <1>1, <1>2, <2>1, GoalsKept DEF Starts
  <2>4. Numbered'
    <3>1. \A i \in Items : loc'[i].at = "pending" => loc'[i] = loc[i] \/ loc'[i].of \in 1..states
      BY <1>3, <2>2, PlacesDiffer
    <3>2. QED
      BY <1>1, <1>2, <2>1, <3>1, NumberedKept DEF Types, SlotT, Numbered
  <2>5. Aborted' /\ \A t \in Turns : Victim(t)' <=> Victim(t)
    <3>1. ~Victim(a)
      BY <1>1, <2>1 DEF Aborted, Victim, Alive, Running
    <3>2. QED
      BY <1>1, <1>2, <2>1, <3>1, AbortedKept
  <2>6. Owned'
    <3>1. ~Free
      BY <1>1 DEF Free, HoldPhases
    <3>2. SpawnAborts'
      BY <1>2, <2>1, <3>1, NoSpawnAborts DEF Owned
    <3>3. QED
      BY <1>1, <1>2, <2>1, <3>2 DEF Owned, OwnedTask, OwnedHeld, OneHolder, HolderShape, Free,
            HoldPhases, Moved
  <2>7. Ended'
    BY <1>1, <1>2, <2>1, <2>5, EndedKept DEF Alive, Running
  <2>8. Carried'
    <3>1. ASSUME NEW i \in Items, loc'[i].at = "carried"
          PROVE  loc'[i].of \in Actors /\ pc'[loc'[i].of] \in {"s2", "s3"}
      <4>1. loc'[i] = loc[i] /\ loc[i] # Place("carried", a)
        BY <1>3, <3>1, PlacesDiffer
      <4>2. loc[i].of # a
        BY <3>1, <4>1 DEF Place, Types, LocT, Spots
      <4>3. QED
        <5>1. loc[i].of \in Actors /\ pc[loc[i].of] \in {"s2", "s3"}
          BY <2>1, <3>1, <4>1 DEF Carried
        <5>2. QED
          BY <1>2, <4>1, <4>2, <5>1 DEF Moved
    <3>2. ASSUME NEW b \in Actors, pc'[b] \in {"f3", "reserved"}
          PROVE  FALSE
      BY <1>1, <1>2, <2>1, <3>2 DEF Owned, OneHolder, HoldPhases, Moved
    <3>3. QED
      BY <3>1, <3>2 DEF Carried
  <2>9. Limbo'
    <3>1. ASSUME NEW i \in Accepted, loc'[i].at = "pending", loc'[i].of # slotTs
          PROVE  loc'[i] = loc[i]
      BY <1>3, <2>2, <3>1, PlacesDiffer DEF Accepted, Items
    <3>2. QED
      BY <1>1, <1>2, <2>1, <3>1 DEF Limbo, Moved
  <2>10. Heard'
    <3>1. HasTriggerMail' => HasTriggerMail
      BY <1>3, NoNewMail, PlacesDiffer
    <3>2. QED
      BY <1>1, <1>2, <2>1, <2>2, <3>1 DEF Heard, Moved
  <2>11. QED
    BY <2>3, <2>4, <2>5, <2>6, <2>7, <2>8, <2>9, <2>10 DEF Core
<1>6. QED
  BY <1>4, <1>5

\* StartInstall: the turn begins; its task owns the slot.
LEMMA StartInstallStep ==
    ASSUME Types, NEW a \in Actors, StartInstall(a)
    PROVE  Types' /\ (Core /\ ~raced' => Core')
<1> USE Names
<1>0. PICK t \in Turns : t = goal[a]
  BY DEF StartInstall, Types, Aimed, Starts
<1>1. /\ pc[a] = "s4" /\ slotTask' = t
      /\ UNCHANGED <<nextTurn, loc, victim, kind, cancelled, terminal, turns, stops, raced>>
  BY <1>0 DEF StartInstall, turnVars
<1>2. /\ slotTs' \in 0..MaxTurns /\ states' \in 0..MaxTurns /\ slotTs' # 0
      /\ slotTs # 0 => slotTs' = slotTs /\ states' = states
  BY DEF StartInstall, SlotOrNew, NewState, Types, SlotT
<1>3. /\ \A b \in Actors : pc'[b] = IF b = a THEN AtRest(a) ELSE IF b = t THEN "run"
                                     ELSE IF b = slotTask THEN "over" ELSE pc[b]
      /\ \A b \in Actors : tsOf'[b] = IF b = a THEN 0 ELSE tsOf[b]
      /\ \A b \in Actors : goal'[b] = IF b = a THEN NoTurn ELSE goal[b]
  <2>1. DOMAIN Dropped = Actors /\ \A b \in Actors : Dropped[b] = IF b = slotTask THEN "over" ELSE pc[b]
    BY DEF Dropped
  <2>2. pc' = [Dropped EXCEPT ![t] = "run", ![a] = AtRest(a)]
    BY <1>0 DEF StartInstall
  <2>3. \A b \in Actors : pc'[b] = IF b = a THEN AtRest(a) ELSE IF b = t THEN "run" ELSE Dropped[b]
    BY <2>1, <2>2
  <2>4. QED
    BY <2>1, <2>3 DEF StartInstall, Types, ActorT
<1>4. AtRest(a) = IF a \in Turns THEN "over" ELSE "idle"
  BY DEF AtRest
<1>5. Types'
  <2>1. slotTask \in Turns \cup {NoTurn}
    BY DEF Types, SlotT
  <2>2. pc' \in [Actors -> Phases]
    <3>1. \A b \in Actors : pc'[b] \in Phases
      BY <1>3, <1>4 DEF Types, PcT, Phases, Running
    <3>2. QED
      BY <3>1 DEF StartInstall, Dropped
  <2>3. PcT'
    BY <1>3, <1>4, <2>1, <2>2 DEF Types, PcT, PhasesOf, Phases, Running
  <2>4. ActorT'
    BY <1>1 DEF StartInstall, Types, ActorT
  <2>5. Aimed'
    BY <1>1, <1>3, <1>4 DEF Types, Aimed, Starts
  <2>6. QED
    BY <1>1, <1>2, <2>3, <2>4, <2>5 DEF Types, SlotT, TurnT, LocT
<1>6. ASSUME Core PROVE Core'
  <2>1. Goals /\ Numbered /\ Aborted /\ Owned /\ Ended /\ Carried /\ Limbo /\ Heard
    BY <1>6 DEF Core
  <2>2. /\ slotTask = NoTurn /\ slotTs # 0 /\ slotTs' = slotTs /\ states' = states
        /\ tsOf[a] = slotTs /\ \A b \in Actors : b # a => pc[b] \notin HoldPhases
    BY <1>1, <1>2, <2>1 DEF Owned, OwnedTask, HolderShape, OneHolder, Free, HoldPhases
  <2>3. pc[t] = "none" /\ t <= turns /\ a # t /\ \A b \in Actors : b # a => goal[b] # t
    BY <1>0, <1>1, <2>1 DEF Goals
  <2>4. \A b \in Actors : pc'[b] = IF b = a THEN AtRest(a) ELSE IF b = t THEN "run" ELSE pc[b]
    BY <1>3, <2>2
  <2>5. Goals'
    <3>1. \A b \in Actors : goal[b] \in Turns \cup {NoTurn}
      BY DEF Types, ActorT
    <3>2. \A b \in Actors : goal[b] # NoTurn => goal[b] # a
      BY <1>1, <2>1 DEF Goals
    <3>3. \A u \in Turns : u > turns => u # a /\ u # t
      BY <1>1, <2>1, <2>3 DEF Goals, Types, SlotT
    <3>4. \A b \in Actors : goal'[b] # NoTurn => b # a /\ b # t /\ goal'[b] = goal[b]
      BY <1>3, <2>1, <2>3 DEF Goals, Starts
    <3>5. QED
      BY <1>1, <2>1, <2>3, <2>4, <3>1, <3>2, <3>3, <3>4, SMTT(20) DEF Goals
  <2>6. Numbered'
    BY <1>1, <1>3, <2>1, <2>2 DEF Numbered, Types, SlotT
  <2>7. \A b \in Actors : pc'[b] = "a2" <=> pc[b] = "a2"
    BY <1>1, <1>4, <2>3, <2>4
  <2>8. \A u : Victim(u)' <=> Victim(u)
    BY <1>1, <2>7 DEF Victim
  <2>9. Aborted'
    <3>1. \A b \in Actors : pc[b] = "a2" => victim[b] \in Turns /\ victim[b] # t /\ victim[b] # a
      BY <1>1, <2>1, <2>3 DEF Aborted, Types, Aimed, Alive, Running
    <3>2. QED
      BY <1>1, <2>1, <2>4, <2>7, <2>8, <3>1 DEF Aborted
  <2>10. Owned'
    <3>1. Free' /\ pc'[t] \in Alive
      BY <1>4, <2>2, <2>3, <2>4 DEF Free, HoldPhases, Alive, Running
    <3>2. SpawnAborts'
      <4>1. \A b \in Spawners : pc[b] \in {"a2", "a3"} => goal[b] = NoTurn
        BY <1>1, <2>1, <2>2 DEF Owned, SpawnAborts
      <4>2. \A b \in Spawners : pc'[b] \in {"a2", "a3"} => pc[b] \in {"a2", "a3"} /\ b # a
        BY <1>4, <2>4
      <4>3. QED
        BY <1>3, <4>1, <4>2 DEF SpawnAborts
    <3>3. QED
      BY <1>1, <2>2, <3>1, <3>2 DEF Owned, OwnedTask, OwnedHeld, OneHolder, HolderShape, Free
  <2>11. Ended'
    <3>1. \A u \in Turns : u # t => (Unannounced(u)' <=> Unannounced(u))
      BY <1>1, <1>4, <2>2, <2>4, <2>8 DEF Unannounced
    <3>2. Unannounced(t)' /\ terminal[t] = 0
      BY <1>1, <2>1, <2>3 DEF Unannounced, Ended
    <3>3. QED
      BY <1>1, <1>4, <2>1, <2>3, <2>4, <3>1, <3>2 DEF Ended, Alive, Running
  <2>12. Carried'
    <3>1. loc' = loc /\ \A b \in Actors : b # a => tsOf'[b] = tsOf[b]
      BY <1>1, <1>3
    <3>2. \A b \in Actors : b # a /\ b # t => pc'[b] = pc[b]
      BY <2>4
    <3>3. pc'[a] \notin {"f3", "reserved"} /\ pc'[t] \notin {"f3", "reserved"}
      BY <1>1, <1>4, <2>3, <2>4
    <3>4. ASSUME NEW i \in Items, loc'[i].at = "carried"
          PROVE  loc'[i].of \in Actors /\ pc'[loc'[i].of] \in {"s2", "s3"}
      <4>1. loc[i].of \in Actors /\ pc[loc[i].of] \in {"s2", "s3"}
        BY <2>1, <3>1, <3>4 DEF Carried
      <4>2. loc[i].of # a /\ loc[i].of # t
        BY <1>1, <2>3, <4>1
      <4>3. QED
        BY <3>1, <3>2, <4>1, <4>2
    <3>5. ASSUME NEW b \in Actors, NEW i \in Accepted, pc'[b] \in {"f3", "reserved"}
          PROVE  loc'[i] # Place("pending", tsOf'[b])
      <4>1. b # a /\ b # t
        BY <3>3, <3>5
      <4>2. QED
        BY <2>1, <3>1, <3>2, <3>5, <4>1 DEF Carried
    <3>6. QED
      BY <3>4, <3>5 DEF Carried
  <2>13. Limbo'
    BY <1>1, <1>3, <1>4, <2>1, <2>2, <2>3, <2>4 DEF Limbo
  <2>14. Heard'
    BY <1>1, <1>4, <2>1, <2>2, <2>3, <2>4 DEF Heard, HasTriggerMail, MailIn, At
  <2>15. QED
    BY <2>5, <2>6, <2>9, <2>10, <2>11, <2>12, <2>13, <2>14 DEF Core
<1>7. QED
  BY <1>5, <1>6

\* The steps of a turn's task up to the end of its run.
Runs(t) ==
    \/ Begin(t) \/ Quit(t) \/ ReturnEarly(t) \/ Drain(t)
    \/ SampleTool(t) \/ SampleAnswer(t) \/ SampleError(t)
    \/ Check(t) \/ Exit(t)

\* Each of them keeps the invariant.
LEMMA RunStep ==
    ASSUME Types, NEW t \in Turns, Runs(t)
    PROVE  Types' /\ (Core /\ ~raced' => Core')
<1> USE Names
<1>1. /\ UNCHANGED <<slotTs, slotTask, tsOf, goal, victim, kind, cancelled, terminal,
                     turns, states, stops, raced>>
      /\ pc[t] \in Running \cup {"exit"}
  BY DEF Runs, Begin, Quit, ReturnEarly, Drain, SampleTool, SampleAnswer, SampleError, Check, Exit,
         slotVars, turnVars, countVars, Running
<1>2. PICK p \in Alive \cup {"over"} : Goto(t, p) /\ (p = "over" => t \in cancelled)
  BY DEF Runs, Begin, Quit, ReturnEarly, Drain, SampleTool, SampleAnswer, SampleError, Check, Exit, Alive, Running
<1>3. PcT' /\ ActorT' /\ Aimed' /\ Moved(t, p, tsOf[t], goal[t], victim[t])
  <2>1. p \in PhasesOf(t) /\ p \notin Starts \cup {"reserved", "a1", "a2"}
    BY DEF PhasesOf, Phases, Alive, Running, Starts
  <2>2. QED
    BY <1>1, <1>2, <2>1, GotoType
<1>4. LocT' /\ \A i \in Items : loc'[i] \in {loc[i], History, Gone}
  <2>1. UNCHANGED loc \/ \E I \in SUBSET Items : Move(I, History) \/ Move(I, Gone)
    <3>1. At(Place("input", t)) \subseteq Items /\ TakenInput \subseteq Items
      BY DEF At, TakenInput, MailIn, Pending
    <3>2. QED
      BY <3>1 DEF Runs, Begin, Quit, ReturnEarly, Drain, SampleTool, SampleAnswer, SampleError, Check, Exit
  <2>2. QED
    BY <2>1, MoveType, PlaceType DEF Types, LocT
<1>5. nextTurn' \subseteq 1..MaxTurns
  <2>3. nextTurn' \subseteq nextTurn \/ (slotTs # 0 /\ nextTurn' = nextTurn \cup {slotTs})
    BY DEF Runs, Begin, Quit, ReturnEarly, Drain, SampleTool, SampleAnswer, SampleError, Check, Exit, Defers,
       Types, SlotT
  <2>4. nextTurn \subseteq 1..MaxTurns /\ (slotTs # 0 => slotTs \in 1..MaxTurns)
    BY DEF Types, SlotT
  <2>5. QED
    BY <2>3, <2>4
<1>6. Types'
  BY <1>1, <1>3, <1>4, <1>5 DEF Types, SlotT, TurnT
<1>7. ASSUME Core PROVE Core'
  BY <1>1, <1>2, <1>3, <1>4, <1>7, TaskCore
<1>8. QED
  BY <1>6, <1>7

\* FinishTake: the task takes itself out of the slot, or finds itself aborted.
LEMMA FinishTakeStep ==
    ASSUME Types, NEW t \in Turns, FinishTake(t)
    PROVE  Types' /\ (Core /\ ~raced' => Core')
<1> USE Names
<1>1. /\ pc[t] = "f1" /\ slotTask' = NoTurn
      /\ UNCHANGED <<slotTs, nextTurn, loc, kind, cancelled, terminal, turns, states, stops>>
  BY DEF FinishTake, turnVars, countVars
<1>2. raced' \in BOOLEAN
  <2>1. raced \in BOOLEAN
    BY DEF Types, TurnT
  <2>2. QED
    BY <2>1, Zenon DEF FinishTake
<1>3. LocT' /\ SlotT' /\ TurnT'
  BY <1>1, <1>2 DEF Types, LocT, SlotT, TurnT
<1>4. CASE slotTask = NoTurn
  <2>1. PcT' /\ ActorT' /\ Aimed' /\ Moved(t, "over", 0, NoTurn, NoTurn)
    <3>1. Return(t) /\ AtRest(t) = "over"
      BY <1>4 DEF FinishTake, AtRest
    <3>2. QED
      BY <3>1, ReturnType
  <2>2. Types'
    BY <1>3, <2>1 DEF Types
  <2>3. ASSUME Core PROVE Core'
    <3>1. Goals /\ Numbered /\ Aborted /\ Owned /\ Ended /\ Carried /\ Limbo /\ Heard
      BY <2>3 DEF Core
    <3>2. "over" \notin HoldPhases /\ pc[t] \notin HoldPhases
      BY <1>1 DEF HoldPhases
    <3>3. Goals'
      BY <1>1, <2>1, <3>1, GoalsKept
    <3>4. Numbered'
      BY <1>1, <2>1, <3>1, NumberedKept DEF Types, SlotT, Numbered
    <3>5. Aborted' /\ \A u \in Turns : Victim(u)' <=> Victim(u)
      BY <1>1, <2>1, <3>1, AbortedKept
    <3>6. Owned'
      BY <1>1, <1>4, <2>1, <3>1, <3>2, OwnedKept
    <3>7. Ended'
      BY <1>1, <1>4, <2>1, <3>1, <3>5, EndedKept DEF Alive, Running
    <3>8. Carried' /\ Limbo'
      BY <1>1, <2>1, <3>1, CarriedKept, LimboKept
    <3>9. Heard'
      BY <1>1, <2>1, <3>1 DEF Heard, Moved, LookPhases, HasTriggerMail, MailIn, At
    <3>10. QED
      BY <3>3, <3>4, <3>5, <3>6, <3>7, <3>8, <3>9 DEF Core
  <2>4. QED
    BY <2>2, <2>3
<1>5. CASE slotTask # NoTurn
  <2>1. PcT' /\ ActorT' /\ Aimed' /\ Moved(t, "f2", slotTs, goal[t], victim[t])
    <3>1. /\ Moves(t, "f2", slotTs, goal[t], victim[t]) /\ slotTs \in 0..MaxTurns
          /\ goal[t] \in Turns \cup {NoTurn} /\ victim[t] \in Turns \cup {NoTurn}
      BY <1>5 DEF FinishTake, Goto, Moves, Types, ActorT, SlotT
    <3>2. "f2" \in PhasesOf(t)
      BY DEF PhasesOf, Phases
    <3>3. QED
      BY <3>1, <3>2, MovesType DEF Types, Starts
  <2>2. Types'
    BY <1>3, <2>1 DEF Types
  <2>3. ASSUME Core, ~raced' PROVE Core'
    <3>1. Goals /\ Numbered /\ Aborted /\ Owned /\ Ended /\ Carried /\ Limbo /\ Heard
      BY <2>3 DEF Core
    <3>2. slotTask = t
      BY <1>5, <2>3 DEF FinishTake
    <3>3. slotTs # 0 /\ Free /\ goal[t] = NoTurn
      BY <1>1, <1>5, <3>1 DEF Owned, OwnedTask, Goals, Starts
    <3>4. Goals'
      BY <1>1, <2>1, <3>1, <3>3, GoalsKept
    <3>5. Numbered'
      BY <1>1, <2>1, <3>1, NumberedKept DEF Types, SlotT, Numbered
    <3>6. Aborted' /\ \A u \in Turns : Victim(u)' <=> Victim(u)
      <4>1. ~Victim(t)
        BY <3>1, <3>2 DEF Aborted, Victim
      <4>2. QED
        BY <1>1, <2>1, <3>1, <4>1, AbortedKept
    <3>7. Owned'
      <4>1. SpawnAborts'
        BY <2>1, <3>1, <3>3, NoSpawnAborts DEF Owned
      <4>2. QED
        BY <1>1, <2>1, <3>1, <3>3, <4>1 DEF Owned, OwnedTask, OwnedHeld, OneHolder, HolderShape,
              Free, HoldPhases, Moved
    <3>8. Ended'
      <4>1. \A u \in Turns : Unannounced(u)' <=> Unannounced(u)
        BY <1>1, <2>1, <3>2, <3>6 DEF Unannounced, Moved
      <4>2. Unannounced(t)
        BY <3>2 DEF Unannounced
      <4>3. QED
        BY <1>1, <2>1, <3>1, <4>1, <4>2 DEF Ended, Moved, Alive, Running
    <3>9. Carried' /\ Limbo'
      BY <1>1, <2>1, <3>1, CarriedKept, LimboKept
    <3>10. Heard'
      BY <1>1, <2>1, <3>1, <3>3 DEF Heard, Moved, HasTriggerMail, MailIn, At
    <3>11. QED
      BY <3>4, <3>5, <3>6, <3>7, <3>8, <3>9, <3>10 DEF Core
  <2>4. QED
    BY <2>2, <2>3
<1>6. QED
  BY <1>4, <1>5

\* FinishReport: the turn is announced, and what was pending for it recorded.
LEMMA FinishReportStep ==
    ASSUME Types, NEW t \in Turns, FinishReport(t)
    PROVE  Types' /\ (Core /\ ~raced' => Core')
<1> USE Names
<1>1. pc[t] = "f2" /\ UNCHANGED <<slotTs, slotTask, nextTurn, kind, cancelled, turns,
                                  states, stops, raced>>
  BY DEF FinishReport, slotVars, countVars
<1>2. PcT' /\ ActorT' /\ Aimed' /\ Moved(t, "f3", tsOf[t], goal[t], victim[t])
  <2>1. "f3" \in PhasesOf(t) /\ Goto(t, "f3") /\ UNCHANGED <<tsOf, goal, victim>>
    BY DEF PhasesOf, Phases, FinishReport
  <2>2. QED
    BY <2>1, GotoType DEF Starts
<1>3. LocT' /\ \A i \in Items : loc'[i] = IF loc[i] = Place("pending", tsOf[t]) THEN History ELSE loc[i]
  BY MoveType, PlaceType DEF FinishReport, Types, LocT, Pending, At
<1>4. /\ terminal' \in [Turns -> Nat]
      /\ \A u \in Turns : terminal'[u] = IF u = t THEN terminal[u] + 1 ELSE terminal[u]
  BY DEF FinishReport, Types, TurnT
<1>5. Types'
  BY <1>1, <1>2, <1>3, <1>4 DEF Types, SlotT, TurnT
<1>6. ASSUME Core PROVE Core'
  <2>1. Goals /\ Numbered /\ Aborted /\ Owned /\ Ended /\ Carried /\ Limbo /\ Heard
    BY <1>6 DEF Core
  <2>2. slotTask = NoTurn /\ tsOf[t] = slotTs /\ slotTs # 0 /\ goal[t] = NoTurn /\ ~Victim(t)
    BY <1>1, <2>1 DEF Owned, OwnedTask, HolderShape, Free, HoldPhases, Goals, Starts, Aborted,
          Victim, Alive, Running
  <2>3. \A i \in Items : loc'[i].at \in {"pending", "carried"} => loc'[i] = loc[i]
    BY <1>3, PlacesDiffer
  <2>4. Goals'
    BY <1>1, <1>2, <2>1, <2>2, GoalsKept
  <2>5. Numbered'
    BY <1>1, <1>2, <2>1, <2>3, NumberedKept DEF Types, SlotT, Numbered
  <2>6. Aborted' /\ \A u \in Turns : Victim(u)' <=> Victim(u)
    BY <1>1, <1>2, <2>1, <2>2, AbortedKept
  <2>7. Owned'
    <3>1. SpawnAborts'
      BY <1>2, <2>1, <2>2, NoSpawnAborts DEF Owned
    <3>2. QED
      BY <1>1, <1>2, <2>1, <2>2, <3>1 DEF Owned, OwnedTask, OwnedHeld, OneHolder, HolderShape,
            Free, HoldPhases, Moved
  <2>8. Ended'
    <3>1. \A u \in Turns : u # t => (Unannounced(u)' <=> Unannounced(u))
      BY <1>1, <1>2, <2>6 DEF Unannounced, Moved
    <3>2. Unannounced(t) /\ ~Unannounced(t)'
      BY <1>1, <1>2, <2>2, <2>6 DEF Unannounced, Moved
    <3>3. QED
      <4>1. /\ \A u \in Turns : u # t => pc'[u] = pc[u] /\ terminal'[u] = terminal[u]
            /\ pc'[t] = "f3" /\ terminal'[t] = terminal[t] + 1 /\ terminal[t] = 0
        BY <1>1, <1>2, <1>4, <2>1, <3>2 DEF Ended, Moved
      <4>2. QED
        BY <2>1, <3>1, <3>2, <4>1 DEF Ended, Alive, Running
  <2>9. Carried'
    <3>1. ASSUME NEW i \in Items, loc'[i].at = "carried"
          PROVE  loc'[i].of \in Actors /\ pc'[loc'[i].of] \in {"s2", "s3"}
      <4>1. loc'[i] = loc[i]
        BY <2>3, <3>1
      <4>2. loc[i].of \in Actors /\ pc[loc[i].of] \in {"s2", "s3"}
        BY <2>1, <3>1, <4>1 DEF Carried
      <4>3. pc'[loc[i].of] = pc[loc[i].of]
        BY <1>1, <1>2, <4>2 DEF Moved
      <4>4. QED
        BY <4>1, <4>2, <4>3
    <3>2. ASSUME NEW b \in Actors, NEW i \in Accepted, pc'[b] \in {"f3", "reserved"},
                 loc'[i] = Place("pending", tsOf'[b])
          PROVE  FALSE
      <4>1. tsOf'[b] = tsOf[b] /\ loc'[i] = loc[i] /\ i \in Items
        BY <1>2, <2>3, <3>2, PlacesDiffer DEF Moved, Accepted, Items
      <4>2. CASE b = t
        BY <1>3, <3>2, <4>1, <4>2, PlacesDiffer
      <4>3. CASE b # t
        BY <1>2, <2>1, <3>2, <4>1, <4>3 DEF Carried, Moved
      <4>4. QED
        BY <4>2, <4>3
    <3>3. QED
      BY <3>1, <3>2 DEF Carried
  <2>10. Limbo'
    BY <1>1, <1>2, <2>1, <2>2, <2>3, LimboKept
  <2>11. Heard'
    <3>1. HasTriggerMail' => HasTriggerMail
      BY <1>3, NoNewMail, PlacesDiffer
    <3>2. QED
      BY <1>1, <1>2, <2>1, <2>2, <3>1 DEF Heard, Moved
  <2>12. QED
    BY <2>4, <2>5, <2>6, <2>7, <2>8, <2>9, <2>10, <2>11 DEF Core
<1>7. QED
  BY <1>5, <1>6

\* FinishClear: the slot is emptied, and the mailbox looked at.
LEMMA FinishClearStep ==
    ASSUME Types, NEW t \in Turns, FinishClear(t)
    PROVE  Types' /\ (Core /\ ~raced' => Core')
<1> USE Names
<1>1. pc[t] = "f3" /\ UNCHANGED <<slotTask, loc, kind, cancelled, terminal, turns,
                                  states, stops, raced>>
  BY DEF FinishClear, turnVars, countVars
<1>2. LocT' /\ TurnT'
  BY <1>1 DEF Types, LocT, TurnT
<1>3. CASE ~(slotTs = tsOf[t] /\ slotTask = NoTurn)
  <2>1. PcT' /\ ActorT' /\ Aimed' /\ UNCHANGED <<slotTs, nextTurn>>
    BY <1>3, ReturnType DEF FinishClear
  <2>2. Types'
    BY <1>1, <1>2, <2>1 DEF Types, SlotT
  <2>3. Core => FALSE
    BY <1>1, <1>3 DEF Core, Owned, HolderShape, OwnedTask, Free, HoldPhases
  <2>4. QED
    BY <2>2, <2>3
<1>4. CASE slotTs = tsOf[t] /\ slotTask = NoTurn
  <2>1. /\ PcT' /\ ActorT' /\ Aimed' /\ Moved(t, "m1", 0, goal[t], victim[t])
        /\ slotTs' = 0 /\ nextTurn' \subseteq nextTurn
    <3>1. /\ Moves(t, "m1", 0, goal[t], victim[t]) /\ 0 \in 0..MaxTurns
          /\ goal[t] \in Turns \cup {NoTurn} /\ victim[t] \in Turns \cup {NoTurn}
          /\ slotTs' = 0 /\ nextTurn' \subseteq nextTurn
      BY <1>4, SMTT(20) DEF FinishClear, Goto, Moves, Types, ActorT
    <3>2. "m1" \in PhasesOf(t)
      BY DEF PhasesOf, Phases, Routines
    <3>3. QED
      BY <3>1, <3>2, MovesType DEF Types, Starts
  <2>2. Types'
    BY <1>1, <1>2, <1>4, <2>1 DEF Types, SlotT
  <2>3. ASSUME Core PROVE Core'
    <3>1. Goals /\ Numbered /\ Aborted /\ Owned /\ Ended /\ Carried /\ Limbo /\ Heard
      BY <2>3 DEF Core
    <3>2. goal[t] = NoTurn /\ ~Victim(t) /\ \A b \in Actors : b # t => pc[b] \notin HoldPhases
      BY <1>1, <3>1 DEF Goals, Starts, Aborted, Victim, Alive, Running, Owned, OneHolder, HoldPhases
    <3>3. Goals'
      BY <1>1, <2>1, <3>1, <3>2, GoalsKept
    <3>4. Numbered'
      BY <1>1, <2>1, <3>1, NumberedKept DEF Types, SlotT, Numbered
    <3>5. Aborted' /\ \A u \in Turns : Victim(u)' <=> Victim(u)
      BY <1>1, <2>1, <3>1, <3>2, AbortedKept
    <3>6. Owned'
      <4>1. ~Free
        BY <1>1 DEF Free, HoldPhases
      <4>2. SpawnAborts'
        BY <2>1, <3>1, <4>1, NoSpawnAborts DEF Owned
      <4>3. QED
        BY <1>1, <1>4, <2>1, <3>1, <3>2, <4>2 DEF Owned, OwnedTask, OwnedHeld, OneHolder,
              HolderShape, Free, HoldPhases, Moved
    <3>7. Ended'
      BY <1>1, <2>1, <3>1, <3>5, EndedKept DEF Alive, Running
    <3>8. Carried'
      BY <1>1, <2>1, <3>1, CarriedKept
    <3>9. Limbo'
      <4>1. ASSUME NEW i \in Accepted, loc'[i].at = "pending"
            PROVE  \E b \in Actors : pc'[b] \in {"a2", "a3", "f2", "s3", "s4"} /\ tsOf'[b] = loc'[i].of
        <5>1. loc[i] # Place("pending", tsOf[t]) /\ loc'[i] = loc[i] /\ i \in Items
          BY <1>1, <3>1 DEF Carried, Accepted, Items
        <5>2. loc[i].of # slotTs
          BY <1>4, <4>1, <5>1 DEF Place, Types, LocT, Spots
        <5>3. PICK b \in Actors : pc[b] \in {"a2", "a3", "f2", "s3", "s4"} /\ tsOf[b] = loc[i].of
          BY <3>1, <4>1, <5>1, <5>2 DEF Limbo
        <5>4. QED
          BY <1>1, <2>1, <5>1, <5>3 DEF Moved
      <4>2. QED
        BY <4>1 DEF Limbo
    <3>10. Heard'
      BY <1>1, <2>1, <3>1 DEF Heard, Moved, LookPhases, HasTriggerMail, MailIn, At
    <3>11. QED
      BY <3>3, <3>4, <3>5, <3>6, <3>7, <3>8, <3>9, <3>10 DEF Core
  <2>4. QED
    BY <2>2, <2>3
<1>5. QED
  BY <1>3, <1>4

-----------------------------------------------------------------------------
(* The operations of the submission loop, the guardian and extensions. *)

\* A new item is put somewhere, and nothing else happens.
LEMMA PlacedCore ==
    ASSUME Types, Core, NEW i \in Items, NEW q \in Spots,
           loc[i] = New, \A j \in Items : loc'[j] = IF j = i THEN q ELSE loc[j],
           UNCHANGED <<slotTs, slotTask, pc, tsOf, goal, victim, cancelled, terminal, turns, states>>,
           q = Gone \/ q = History
             \/ (q = Place("pending", slotTs) /\ slotTs # 0 /\ (i \in Accepted => slotTask # NoTurn))
    PROVE  Core'
<1> USE Names
<1>1. Goals /\ Numbered /\ Aborted /\ Owned /\ Ended /\ Carried /\ Limbo /\ Heard
  BY DEF Core
<1>2. Goals' /\ Aborted' /\ Ended' /\ Owned'
  BY <1>1 DEF Goals, Aborted, Ended, Unannounced, Victim, Owned, OwnedTask, OwnedHeld, OneHolder,
       HolderShape, SpawnAborts, Free
<1>3. \A j \in Items : \/ loc'[j] = loc[j]
                       \/ j = i /\ loc'[j].at \notin {"pending", "carried", "mailbox"}
                       \/ j = i /\ slotTs # 0 /\ loc'[j] = Place("pending", slotTs)
  BY PlacesDiffer
<1>4. Numbered'
  BY <1>1, <1>3, PlacesDiffer DEF Numbered, Types, SlotT
<1>5. Carried'
  <2>1. ASSUME NEW j \in Items, loc'[j].at = "carried"
        PROVE  loc'[j].of \in Actors /\ pc'[loc'[j].of] \in {"s2", "s3"}
    BY <1>1, <1>3, <2>1, PlacesDiffer DEF Carried
  <2>2. ASSUME NEW b \in Actors, NEW j \in Accepted, pc'[b] \in {"f3", "reserved"},
               loc'[j] = Place("pending", tsOf'[b])
        PROVE  FALSE
    <3>1. j \in Items /\ loc[j] # Place("pending", tsOf[b])
      BY <1>1, <2>2 DEF Carried, Accepted, Items
    <3>2. j = i /\ slotTask # NoTurn
      BY <2>2, <3>1, PlacesDiffer
    <3>3. QED
      BY <1>1, <2>2, <3>2 DEF Owned, OwnedTask, Free, HoldPhases
  <2>3. QED
    BY <2>1, <2>2 DEF Carried
<1>6. Limbo'
  BY <1>1, <1>3, PlacesDiffer DEF Limbo, Accepted, Items
<1>7. Heard'
  <2>1. HasTriggerMail' => HasTriggerMail
    BY <1>3, NoNewMail, PlacesDiffer
  <2>2. QED
    BY <1>1, <2>1 DEF Heard
<1>8. QED
  BY <1>2, <1>4, <1>5, <1>6, <1>7 DEF Core

\* Steering, refusing and injecting only place an item.
LEMMA PlacedStep ==
    ASSUME Types, NEW i \in Items, NEW q \in Spots, loc[i] = New, Move({i}, q),
           nextTurn' \subseteq nextTurn,
           UNCHANGED <<slotVars, actorVars, turnVars, countVars, raced>>,
           q = Gone \/ q = History
             \/ (q = Place("pending", slotTs) /\ slotTs # 0 /\ (i \in Accepted => slotTask # NoTurn))
    PROVE  Types' /\ (Core /\ ~raced' => Core')
<1>1. UNCHANGED <<slotTs, slotTask, pc, tsOf, goal, victim, kind, cancelled, terminal,
                  turns, states, stops, raced>>
  BY DEF slotVars, actorVars, turnVars, countVars
<1>2. LocT' /\ \A j \in Items : loc'[j] = IF j = i THEN q ELSE loc[j]
  BY MoveType DEF Types, LocT
<1>3. Types'
  BY <1>1, <1>2 DEF Types, PcT, PhasesOf, ActorT, SlotT, TurnT, Aimed
<1>4. ASSUME Core PROVE Core'
  BY <1>1, <1>2, <1>4, PlacedCore
<1>5. QED
  BY <1>3, <1>4

\* Steered: input joins the turn in the slot, or is refused by it.
LEMMA SteeredStep ==
    ASSUME Types, NEW i \in Inputs, loc[i] = New, Steered(i)
    PROVE  Types' /\ (Core /\ ~raced' => Core')
<1>1. i \in Items /\ slotTs # 0 /\ slotTask # NoTurn /\ slotTs \in 0..MaxTurns
  BY DEF Items, Steered, Types, SlotT
<1>2. UNCHANGED <<slotVars, actorVars, turnVars, countVars, raced>>
  BY DEF Steered
<1>3. CASE kind[slotTask] # "other"
  <2>1. Move({i}, Place("pending", slotTs)) /\ nextTurn' \subseteq nextTurn
    BY <1>3 DEF Steered
  <2>2. Place("pending", slotTs) \in Spots
    BY <1>1, PlaceType DEF Places
  <2>3. QED
    BY <1>1, <1>2, <2>1, <2>2, PlacedStep
<1>4. CASE kind[slotTask] = "other"
  <2>1. Move({i}, Gone) /\ nextTurn' \subseteq nextTurn
    BY <1>4 DEF Steered
  <2>2. QED
    BY <1>1, <1>2, <2>1, PlaceType, PlacedStep
<1>5. QED
  BY <1>3, <1>4

\* Steer: the same, for the turn the client names.
LEMMA SteerStep ==
    ASSUME Types, NEW i \in Inputs, NEW t \in Turns, Steer(i, t)
    PROVE  Types' /\ (Core /\ ~raced' => Core')
<1>1. loc[i] = New /\ i \in Items
  BY DEF Steer, Items
<1>2. CASE Steered(i)
  BY <1>1, <1>2, SteeredStep
<1>3. CASE ~Steered(i)
  <2>1. /\ Move({i}, Gone) /\ nextTurn' \subseteq nextTurn
        /\ UNCHANGED <<slotVars, actorVars, turnVars, countVars, raced>>
    BY <1>3 DEF Steer
  <2>2. QED
    BY <1>1, <2>1, PlaceType, PlacedStep
<1>4. QED
  BY <1>2, <1>3

\* Inject: an extension's item joins the turn in the slot, or is recorded.
LEMMA InjectStep ==
    ASSUME Types, NEW i \in Extras, Inject(i)
    PROVE  Types' /\ (Core /\ ~raced' => Core')
<1>1. loc[i] = New /\ i \in Items /\ i \notin Accepted
  BY ItemsDisjoint DEF Inject, Items, Accepted
<1>2. UNCHANGED <<slotVars, actorVars, turnVars, countVars, raced>>
  BY DEF Inject
<1>3. CASE slotTs = 0
  <2>1. Move({i}, History) /\ nextTurn' \subseteq nextTurn
    BY <1>3 DEF Inject
  <2>2. QED
    BY <1>1, <1>2, <2>1, PlaceType, PlacedStep
<1>4. CASE slotTs # 0
  <2>1. Move({i}, Place("pending", slotTs)) /\ nextTurn' \subseteq nextTurn
    BY <1>4 DEF Inject
  <2>2. Place("pending", slotTs) \in Spots
    BY PlaceType DEF Places, Types, SlotT
  <2>3. QED
    BY <1>1, <1>2, <1>4, <2>1, <2>2, PlacedStep
<1>5. QED
  BY <1>3, <1>4

\* AbortTake, Interrupt and GuardAbort: the slot is emptied.
LEMMA TakeStep ==
    ASSUME Types, NEW a \in {Loop, Guard, Voice}, pc[a] \in {"a1", "idle"}, TakeActive(a),
           stops' \in 0..MaxStops, UNCHANGED <<nextTurn, loc, kind, terminal, turns, states>>
    PROVE  Types' /\ (Core /\ ~raced' => Core')
<1>1. /\ PcT' /\ ActorT' /\ Aimed' /\ slotTs' = 0 /\ slotTask' = NoTurn
      /\ cancelled' \subseteq Turns /\ raced' \in BOOLEAN
  BY TakeType
<1>2. LocT' /\ SlotT' /\ TurnT'
  BY <1>1, Names DEF Types, LocT, SlotT, TurnT
<1>3. QED
  BY <1>1, <1>2, TakeCore DEF Types

\* AbortTake: an abort begins, to start another turn.
LEMMA AbortTakeStep ==
    ASSUME Types, NEW a \in Actors, AbortTake(a)
    PROVE  Types' /\ (Core /\ ~raced' => Core')
<1>1. a \in {Loop, Guard, Voice} /\ pc[a] = "a1" /\ TakeActive(a)
  BY Names DEF AbortTake, Types, PcT, PhasesOf
<1>2. stops' \in 0..MaxStops /\ UNCHANGED <<nextTurn, loc, kind, terminal, turns, states>>
  BY DEF AbortTake, countVars, Types, TurnT
<1>3. QED
  BY <1>1, <1>2, TakeStep

\* Interrupt and GuardAbort: an abort begins, to stop the turn.
LEMMA StopStep ==
    ASSUME Types, Interrupt \/ \E t \in Turns : GuardAbort(t)
    PROVE  Types' /\ (Core /\ ~raced' => Core')
<1>1. PICK a \in {Loop, Guard, Voice} : pc[a] = "idle" /\ TakeActive(a)
  BY DEF Interrupt, GuardAbort
<1>2. stops' \in 0..MaxStops /\ UNCHANGED <<nextTurn, loc, kind, terminal, turns, states>>
  BY BoundsAssumption DEF Interrupt, GuardAbort, Types, TurnT
<1>3. QED
  BY <1>1, <1>2, TakeStep

\* The submission loop or the realtime task decides to start a turn.
LEMMA GoalsNew ==
    ASSUME Types, Goals, NEW a \in Spawners, pc[a] = "idle", NEW p \in {"a1", "reserved"},
           NEW ts, NEW v, Moved(a, p, ts, turns + 1, v), turns' = turns + 1, turns + 1 \in Turns
    PROVE  Goals'
<1> USE Names DEF Spawners
<1>1. turns \in Nat /\ \A b \in Actors : goal[b] \in Turns \cup {NoTurn}
  BY DEF Types, SlotT, ActorT
<1>2. pc[turns + 1] = "none" /\ \A b \in Actors : goal[b] # NoTurn => goal[b] <= turns /\ goal[b] # turns + 1
  BY <1>1 DEF Goals
<1>3. \A t \in Turns : pc'[t] = pc[t]
  BY DEF Moved
<1>4. ASSUME NEW b \in Actors, goal'[b] # NoTurn
      PROVE  /\ pc'[b] \in Starts \cup {"reserved", "a1", "a2", "a3"}
             /\ pc'[b] \in {"a1", "a2", "a3"} => b \in Spawners
             /\ goal'[b] <= turns' /\ pc'[goal'[b]] = "none"
  <2>1. CASE b = a
    BY <1>1, <1>2, <1>3, <2>1 DEF Moved
  <2>2. CASE b # a
    BY <1>1, <1>2, <1>3, <1>4, <2>2 DEF Moved, Goals
  <2>3. QED
    BY <2>1, <2>2
<1>5. \A b, c \in Actors : goal'[b] # NoTurn /\ goal'[b] = goal'[c] => b = c
  BY <1>1, <1>2 DEF Moved, Goals
<1>6. \A t \in Turns : t > turns' => pc'[t] = "none"
  BY <1>1, <1>3 DEF Goals
<1>7. QED
  BY <1>4, <1>5, <1>6 DEF Goals

\* A turn is created for new input, and whatever is running will be aborted.
LEMMA SpawnStep ==
    ASSUME Types, NEW i \in Items, NEW k \in {"regular", "shell", "other"},
           NEW a \in Spawners, pc[a] = "idle", loc[i] = New, Spawns(a, k), Move({i}, Place("input", turns + 1)),
           UNCHANGED <<slotVars, nextTurn, tsOf, victim, cancelled, terminal,
                       states, stops, raced>>
    PROVE  Types' /\ (Core /\ ~raced' => Core')
<1> USE Names
<1>0. a \in Actors /\ a \notin Turns
  BY DEF Spawners
<1>1. UNCHANGED <<slotTs, slotTask, nextTurn, cancelled, terminal, states, stops, raced>>
  BY DEF slotVars
<1>2. /\ turns' = turns + 1 /\ turns + 1 \in Turns /\ turns + 1 \in 0..MaxTurns
      /\ Moves(a, "a1", tsOf[a], turns + 1, victim[a])
      /\ tsOf[a] \in 0..MaxTurns /\ victim[a] \in Turns \cup {NoTurn}
  BY <1>0 DEF Spawns, Goto, Moves, Types, SlotT, ActorT
<1>3. "a1" \in PhasesOf(a)
  BY DEF PhasesOf, Routines, Spawners
<1>4. PcT' /\ ActorT' /\ Aimed' /\ Moved(a, "a1", tsOf[a], turns + 1, victim[a])
  BY <1>0, <1>2, <1>3, MovesType DEF Types
<1>5. Place("input", turns + 1) \in Spots
  BY <1>2, PlaceType DEF Places
<1>6. LocT' /\ \A j \in Items : loc'[j] = IF j = i THEN Place("input", turns + 1) ELSE loc[j]
  BY <1>5, MoveType DEF Types, LocT
<1>7. Types'
  <2>1. kind' \in [Turns -> {"regular", "shell", "other"}]
    BY <1>2 DEF Spawns, Types, TurnT
  <2>2. SlotT' /\ TurnT'
    BY <1>1, <1>2, <2>1 DEF Types, SlotT, TurnT
  <2>3. QED
    BY <1>4, <1>6, <2>2 DEF Types
<1>8. ASSUME Core PROVE Core'
  <2>1. Goals /\ Numbered /\ Aborted /\ Owned /\ Ended /\ Carried /\ Limbo /\ Heard
    BY <1>8 DEF Core
  <2>2. \A j \in Items : loc'[j].at \in {"pending", "carried", "mailbox"} => loc'[j] = loc[j]
    BY <1>6, PlacesDiffer
  <2>3. ~Victim(a) /\ slotTask # a /\ a \in Actors
    BY <1>0 DEF Victim, Types, Aimed, SlotT
  <2>4. Goals'
    BY <1>2, <1>4, <2>1, GoalsNew
  <2>5. Numbered'
    BY <1>1, <1>4, <2>1, <2>2, <2>3, NumberedKept DEF Types, SlotT, Numbered
  <2>6. Aborted' /\ \A t \in Turns : Victim(t)' <=> Victim(t)
    BY <1>1, <1>4, <2>1, <2>3, AbortedKept
  <2>7. Owned'
    BY <1>1, <1>4, <2>1, <2>3, OwnedKept DEF HoldPhases
  <2>8. Ended'
    BY <1>0, <1>1, <1>4, <2>1, <2>3, <2>6, EndedKept
  <2>9. Carried' /\ Limbo'
    BY <1>1, <1>4, <2>1, <2>2, <2>3, CarriedKept, LimboKept
  <2>10. Heard'
    <3>1. HasTriggerMail' => HasTriggerMail
      BY <2>2, NoNewMail, PlacesDiffer
    <3>2. QED
      BY <1>1, <1>4, <2>1, <2>3, <3>1 DEF Heard, Moved, LookPhases
  <2>11. QED
    BY <2>4, <2>5, <2>6, <2>7, <2>8, <2>9, <2>10 DEF Core
<1>9. QED
  BY <1>7, <1>8

\* StartOrSteer: input joins the turn in the slot, or a turn is created for it.
LEMMA StartOrSteerStep ==
    ASSUME Types, NEW a \in Spawners, NEW i \in Inputs, StartOrSteer(a, i)
    PROVE  Types' /\ (Core /\ ~raced' => Core')
<1>1. loc[i] = New /\ pc[a] = "idle" /\ i \in Items
  BY DEF StartOrSteer, Items
<1>2. CASE Steered(i)
  BY <1>1, <1>2, SteeredStep
<1>3. CASE ~Steered(i)
  <2>1. /\ Spawns(a, "regular") /\ Move({i}, Place("input", turns + 1))
        /\ UNCHANGED <<slotVars, nextTurn, tsOf, victim, cancelled, terminal,
                       states, stops, raced>>
    BY <1>3 DEF StartOrSteer
  <2>2. QED
    BY <1>1, <2>1, SpawnStep
<1>4. QED
  BY <1>2, <1>3

\* StartOther: a turn of another kind is created.
LEMMA StartOtherStep ==
    ASSUME Types, NEW x \in Extras, NEW k \in {"shell", "other"}, StartOther(x, k)
    PROVE  Types' /\ (Core /\ ~raced' => Core')
<1>1. /\ loc[x] = New /\ pc[Loop] = "idle" /\ x \in Items
      /\ Spawns(Loop, k) /\ Move({x}, Place("input", turns + 1))
      /\ UNCHANGED <<slotVars, nextTurn, tsOf, victim, cancelled, terminal,
                     states, stops, raced>>
  BY DEF StartOther, Items
<1>2. Loop \in Spawners
  BY DEF Spawners
<1>3. QED
  BY <1>1, <1>2, SpawnStep

\* StartIfIdle: an idle session's slot is reserved, or the input is refused.
LEMMA StartIfIdleStep ==
    ASSUME Types, NEW i \in Inputs, StartIfIdle(i)
    PROVE  Types' /\ (Core /\ ~raced' => Core')
<1> USE Names
<1>1. /\ loc[i] = New /\ pc[Loop] = "idle" /\ i \in Items
      /\ UNCHANGED <<slotTask, nextTurn, kind, cancelled, terminal, stops>>
  BY DEF StartIfIdle, Items, turnVars
<1>2. CASE HasTriggerMail \/ slotTs # 0
  <2>1. Move({i}, Gone) /\ nextTurn' \subseteq nextTurn
    BY <1>1, <1>2 DEF StartIfIdle
  <2>2. UNCHANGED <<slotVars, actorVars, turnVars, countVars, raced>>
    BY <1>1, <1>2 DEF StartIfIdle, slotVars, turnVars, countVars
  <2>3. QED
    BY <1>1, <2>1, <2>2, PlaceType, PlacedStep
<1>3. CASE ~(HasTriggerMail \/ slotTs # 0)
  <2>1. /\ slotTs' = states + 1 /\ states' = states + 1 /\ turns' = turns + 1
        /\ turns + 1 \in Turns /\ turns + 1 \in 0..MaxTurns /\ states + 1 \in 0..MaxTurns
        /\ Moves(Loop, "reserved", states + 1, turns + 1, victim[Loop])
        /\ victim[Loop] \in Turns \cup {NoTurn}
        /\ Move({i}, Place("input", turns + 1))
    BY <1>3 DEF StartIfIdle, NewState, Goto, Moves, Types, SlotT, ActorT
  <2>2. PcT' /\ ActorT' /\ Aimed' /\ Moved(Loop, "reserved", states + 1, turns + 1, victim[Loop])
    BY <2>1, MovesType DEF Types, PhasesOf
  <2>3. Place("input", turns + 1) \in Spots
    BY <2>1, PlaceType DEF Places
  <2>4. LocT' /\ \A j \in Items : loc'[j] = IF j = i THEN Place("input", turns + 1) ELSE loc[j]
    BY <2>1, <2>3, MoveType DEF Types, LocT
  <2>5. Types'
    <3>1. states \in Nat
      BY DEF Types, SlotT
    <3>2. raced' \in BOOLEAN
      BY <1>3, Zenon DEF StartIfIdle
    <3>3. SlotT' /\ TurnT'
      BY <1>1, <2>1, <3>1, <3>2, SMTT(20) DEF Types, SlotT, TurnT
    <3>4. QED
      BY <2>2, <2>4, <3>3 DEF Types
  <2>6. ASSUME Core, ~raced' PROVE Core'
    <3>1. Goals /\ Numbered /\ Aborted /\ Owned /\ Ended /\ Carried /\ Limbo /\ Heard
      BY <2>6 DEF Core
    <3>2. \A j \in Items : loc'[j].at \in {"pending", "carried", "mailbox"} => loc'[j] = loc[j]
      BY <2>4, PlacesDiffer
    <3>3. ~Victim(Loop) /\ slotTask = NoTurn /\ slotTs = 0 /\ states \in Nat
      BY <1>3 DEF Victim, Types, Aimed, SlotT
    <3>0. \A b \in Actors : b # Loop /\ goal[b] # NoTurn => pc[b] = "a1"
      BY <1>3, <2>6 DEF StartIfIdle, Underway
    <3>4. \A b \in Actors : b # Loop => pc[b] \notin HoldPhases
      BY <3>0, <3>1, <3>3 DEF Owned, HolderShape, Types, Aimed, Starts
    <3>5. Goals'
      BY <1>1, <2>1, <2>2, <3>1, GoalsNew DEF Spawners
    <3>6. Numbered'
      BY <2>1, <2>2, <3>1, <3>2, <3>3, NumberedKept
    <3>7. Aborted' /\ \A t \in Turns : Victim(t)' <=> Victim(t)
      BY <1>1, <2>2, <3>1, <3>3, AbortedKept
    <3>8. Owned'
      <4>1. SpawnAborts'
        BY <2>2, <3>0 DEF SpawnAborts, Spawners, Moved
      <4>2. QED
        BY <1>1, <2>1, <2>2, <3>3, <3>4, <4>1 DEF Owned, OwnedTask, OwnedHeld, OneHolder,
              HolderShape, Free, HoldPhases, Moved
    <3>9. Ended'
      BY <1>1, <2>2, <3>1, <3>3, <3>7, EndedKept
    <3>10. Carried'
      <4>1. ASSUME NEW j \in Items, loc'[j].at = "carried"
            PROVE  loc'[j].of \in Actors /\ pc'[loc'[j].of] \in {"s2", "s3"}
        <5>1. loc'[j] = loc[j] /\ loc[j].of \in Actors /\ pc[loc[j].of] \in {"s2", "s3"}
          BY <3>1, <3>2, <4>1 DEF Carried
        <5>2. QED
          BY <1>1, <2>2, <5>1 DEF Moved
      <4>2. ASSUME NEW b \in Actors, NEW j \in Accepted, pc'[b] \in {"f3", "reserved"},
                   loc'[j] = Place("pending", tsOf'[b])
            PROVE  FALSE
        <5>1. b = Loop /\ tsOf'[b] = states + 1
          BY <2>2, <3>4, <4>2 DEF Moved, HoldPhases
        <5>2. j \in Items /\ loc'[j] = loc[j] /\ loc[j].at = "pending" /\ loc[j].of = states + 1
          BY <3>2, <4>2, <5>1, PlacesDiffer DEF Accepted, Items
        <5>3. QED
          BY <3>1, <3>3, <5>2 DEF Numbered
      <4>3. QED
        BY <4>1, <4>2 DEF Carried
    <3>11. Limbo'
      BY <1>1, <2>2, <3>1, <3>2, <3>3, LimboKept
    <3>12. Heard'
      <4>1. ~HasTriggerMail'
        BY <1>3, <3>2, NoNewMail, PlacesDiffer
      <4>2. QED
        BY <4>1 DEF Heard
    <3>13. QED
      BY <3>5, <3>6, <3>7, <3>8, <3>9, <3>10, <3>11, <3>12 DEF Core
  <2>7. QED
    BY <2>5, <2>6
<1>4. QED
  BY <1>2, <1>3

\* ReservedStart: the reserved turn is started, or given up.
LEMMA ReservedStartStep ==
    ASSUME Types, ReservedStart
    PROVE  Types' /\ (Core /\ ~raced' => Core')
<1> USE Names
<1>1. /\ pc[Loop] = "reserved" /\ Loop \in Actors
      /\ UNCHANGED <<slotTask, nextTurn, kind, cancelled, terminal, turns, states, stops,
                     raced>>
  BY DEF ReservedStart, turnVars, countVars
<1>2. TurnT'
  BY <1>1 DEF Types, TurnT
<1>0. Reserved \subseteq Items
  BY DEF Reserved, At
<1>3. CASE Proceed
  <2>1. goal[Loop] \in Turns /\ "s1" \in PhasesOf(Loop)
    BY <1>1 DEF Types, Aimed, PhasesOf, Routines
  <2>2. PcT' /\ ActorT' /\ Aimed' /\ Moved(Loop, "s1", tsOf[Loop], goal[Loop], victim[Loop])
    BY <1>3, <2>1, GotoType DEF Proceed
  <2>3. LocT' /\ \A j \in Items : loc'[j] \in {loc[j], Place("pending", tsOf[Loop])}
    <3>1. Place("pending", tsOf[Loop]) \in Spots
      BY PlaceType DEF Places, Types, ActorT
    <3>2. CASE UNCHANGED loc
      BY <3>2 DEF Types, LocT
    <3>3. CASE Move(Reserved, Place("pending", tsOf[Loop]))
      BY <3>1, <3>3, MoveType DEF Types, LocT
    <3>4. QED
      BY <1>3, <3>2, <3>3 DEF Proceed
  <2>4. Types' /\ slotTs' = slotTs
    BY <1>1, <1>2, <1>3, <2>2, <2>3 DEF Types, SlotT, Proceed
  <2>5. ASSUME Core PROVE Core'
    <3>1. Goals /\ Numbered /\ Aborted /\ Owned /\ Ended /\ Carried /\ Limbo /\ Heard
      BY <2>5 DEF Core
    <3>2. ~Victim(Loop)
      BY DEF Victim, Types, Aimed
    <3>3. tsOf[Loop] = slotTs /\ slotTs \in 1..states /\ states \in Nat
      BY <1>1, <3>1 DEF Owned, HolderShape, HoldPhases, Numbered, Types, SlotT
    <3>4. \A b \in Actors : b # Loop => pc[b] \notin HoldPhases
      BY <1>1, <3>1 DEF Owned, OneHolder, HoldPhases
    <3>5. Goals'
      BY <1>1, <2>2, <3>1, GoalsKept DEF Starts
    <3>6. Numbered'
      <4>1. \A j \in Items : loc'[j].at = "pending" => loc'[j] = loc[j] \/ loc'[j].of \in 1..states
        BY <2>3, <3>3, PlacesDiffer
      <4>2. states' \in Nat /\ states <= states' /\ tsOf[Loop] <= states' /\ slotTs' <= states'
        BY <1>1, <2>4, <3>3
      <4>3. QED
        BY <2>2, <3>1, <4>1, <4>2, NumberedKept
    <3>7. Aborted' /\ \A t \in Turns : Victim(t)' <=> Victim(t)
      BY <1>1, <2>2, <3>1, <3>2, AbortedKept
    <3>8. Owned'
      <4>1. SpawnAborts' /\ slotTs # 0
        BY <2>2, <3>1, <3>3, NoSpawnAborts DEF Owned
      <4>2. \A b \in Actors : pc'[b] \in HoldPhases <=> b = Loop
        BY <2>2, <3>4 DEF Moved, HoldPhases
      <4>3. slotTask' = NoTurn /\ ~Free' /\ pc'[Loop] = "s1"
        BY <1>1, <2>2, <3>1, <4>2 DEF Owned, OwnedTask, Free, HoldPhases, Moved
      <4>4. QED
        BY <2>4, <4>1, <4>2, <4>3 DEF Owned, OwnedTask, OwnedHeld, OneHolder, HolderShape
    <3>9. Ended'
      BY <1>1, <2>2, <3>1, <3>7, EndedKept
    <3>10. Carried'
      <4>1. ASSUME NEW j \in Items, loc'[j].at = "carried"
            PROVE  loc'[j].of \in Actors /\ pc'[loc'[j].of] \in {"s2", "s3"}
        <5>1. loc'[j] = loc[j]
          BY <2>3, <4>1, PlacesDiffer
        <5>2. loc[j].of \in Actors /\ pc[loc[j].of] \in {"s2", "s3"}
          BY <3>1, <4>1, <5>1 DEF Carried
        <5>3. pc'[loc[j].of] = pc[loc[j].of]
          BY <1>1, <2>2, <5>2 DEF Moved
        <5>4. QED
          BY <5>1, <5>2, <5>3
      <4>2. ASSUME NEW b \in Actors PROVE pc'[b] \notin {"f3", "reserved"}
        BY <2>2, <3>4 DEF Moved, HoldPhases
      <4>3. QED
        BY <4>1, <4>2 DEF Carried
    <3>11. Limbo'
      <4>1. ASSUME NEW j \in Accepted, loc'[j].at = "pending", loc'[j].of # slotTs
            PROVE  \E b \in Actors : pc'[b] \in {"a2", "a3", "f2", "s3", "s4"} /\ tsOf'[b] = loc'[j].of
        <5>1. loc'[j] = loc[j]
          BY <2>3, <3>3, <4>1, PlacesDiffer DEF Accepted, Items
        <5>2. PICK b \in Actors : pc[b] \in {"a2", "a3", "f2", "s3", "s4"} /\ tsOf[b] = loc[j].of
          BY <3>1, <4>1, <5>1 DEF Limbo
        <5>3. QED
          BY <1>1, <2>2, <5>1, <5>2 DEF Moved
      <4>2. QED
        BY <2>4, <4>1 DEF Limbo
    <3>12. Heard'
      <4>1. HasTriggerMail' => HasTriggerMail
        BY <2>3, NoNewMail, PlacesDiffer
      <4>2. ~HasTriggerMail
        BY <1>3 DEF Proceed
      <4>3. QED
        BY <4>1, <4>2 DEF Heard
    <3>13. QED
      BY <3>5, <3>6, <3>7, <3>8, <3>9, <3>10, <3>11, <3>12 DEF Core
  <2>6. QED
    BY <2>4, <2>5
<1>4. CASE GiveUp /\ slotTs' = IF slotTs = tsOf[Loop] /\ slotTask = NoTurn THEN 0 ELSE slotTs
  <2>1. /\ slotTs' = IF slotTs = tsOf[Loop] /\ slotTask = NoTurn THEN 0 ELSE slotTs
        /\ Move(Reserved, Gone)
    BY <1>4 DEF GiveUp
  <2>2. PICK p \in {"m1", "idle"}, v \in Turns \cup {NoTurn} :
          PcT' /\ ActorT' /\ Aimed' /\ Moved(Loop, p, 0, NoTurn, v)
    <3>1. PICK p \in {"m1", "idle"} : pc' = [pc EXCEPT ![Loop] = p]
      BY <1>4 DEF GiveUp
    <3>2. Moves(Loop, p, 0, NoTurn, victim[Loop]) /\ victim[Loop] \in Turns \cup {NoTurn}
      BY <1>4, <3>1 DEF GiveUp, Moves, Types, ActorT
    <3>3. p \in PhasesOf(Loop) /\ p \notin Starts \cup {"reserved", "a1", "a2"} /\ 0 \in 0..MaxTurns
      BY DEF PhasesOf, Routines, Starts
    <3>4. PcT' /\ ActorT' /\ Aimed' /\ Moved(Loop, p, 0, NoTurn, victim[Loop])
      BY <3>2, <3>3, MovesType DEF Types
    <3>5. QED
      BY <3>2, <3>4
  <2>3. LocT' /\ \A j \in Items : loc'[j] \in {loc[j], Gone}
    BY <2>1, MoveType, PlaceType DEF Types, LocT
  <2>4. Types'
    BY <1>1, <1>2, <2>1, <2>2, <2>3 DEF Types, SlotT
  <2>5. ASSUME Core PROVE Core'
    <3>1. Goals /\ Numbered /\ Aborted /\ Owned /\ Ended /\ Carried /\ Limbo /\ Heard
      BY <2>5 DEF Core
    <3>2. ~Victim(Loop)
      BY DEF Victim, Types, Aimed
    <3>3. slotTask = NoTurn /\ tsOf[Loop] = slotTs /\ slotTs' = 0
      BY <1>1, <2>1, <3>1 DEF Owned, OwnedTask, HolderShape, Free, HoldPhases
    <3>4. \A b \in Actors : b # Loop => pc[b] \notin HoldPhases
      BY <1>1, <3>1 DEF Owned, OneHolder, HoldPhases
    <3>5. \A j \in Items : loc'[j].at \in {"pending", "carried", "mailbox"} => loc'[j] = loc[j]
      BY <2>3, PlacesDiffer
    <3>6. Goals'
      BY <1>1, <2>2, <3>1, GoalsKept
    <3>7. Numbered'
      <4>1. states' \in Nat /\ states <= states' /\ 0 <= states' /\ slotTs' <= states'
        BY <1>1, <3>3 DEF Types, SlotT
      <4>2. QED
        BY <2>2, <3>1, <3>5, <4>1, NumberedKept
    <3>8. Aborted' /\ \A t \in Turns : Victim(t)' <=> Victim(t)
      BY <1>1, <2>2, <3>1, <3>2, AbortedKept
    <3>9. Owned'
      <4>1. ~Free
        BY <1>1 DEF Free, HoldPhases
      <4>2. SpawnAborts'
        BY <2>2, <3>1, <4>1, NoSpawnAborts DEF Owned
      <4>3. QED
        BY <1>1, <2>2, <3>3, <3>4, <4>2 DEF Owned, OwnedTask, OwnedHeld, OneHolder, HolderShape,
              Free, HoldPhases, Moved
    <3>10. Ended'
      BY <1>1, <2>2, <3>1, <3>8, EndedKept
    <3>11. Carried'
      BY <1>1, <2>2, <3>1, <3>5, CarriedKept
    <3>12. Limbo'
      <4>1. ASSUME NEW j \in Accepted, loc'[j].at = "pending"
            PROVE  \E b \in Actors : pc'[b] \in {"a2", "a3", "f2", "s3", "s4"} /\ tsOf'[b] = loc'[j].of
        <5>1. loc'[j] = loc[j] /\ j \in Items /\ loc[j] # Place("pending", tsOf[Loop])
          BY <1>1, <3>1, <3>5, <4>1 DEF Carried, Accepted, Items
        <5>2. loc[j].of # slotTs
          BY <3>3, <4>1, <5>1 DEF Place, Types, LocT, Spots
        <5>3. PICK b \in Actors : pc[b] \in {"a2", "a3", "f2", "s3", "s4"} /\ tsOf[b] = loc[j].of
          BY <3>1, <4>1, <5>1, <5>2 DEF Limbo
        <5>4. QED
          BY <1>1, <2>2, <5>1, <5>3 DEF Moved
      <4>2. QED
        BY <4>1 DEF Limbo
    <3>13. Heard'
      <4>1. HasTriggerMail' => HasTriggerMail
        BY <3>5, NoNewMail, PlacesDiffer
      <4>2. ~HasTriggerMail
        BY <1>1, <3>1 DEF Heard
      <4>3. QED
        BY <4>1, <4>2 DEF Heard
    <3>14. QED
      BY <3>6, <3>7, <3>8, <3>9, <3>10, <3>11, <3>12, <3>13 DEF Core
  <2>6. QED
    BY <2>4, <2>5
<1>5. QED
  BY <1>3, <1>4 DEF ReservedStart

\* Mail: it waits in the mailbox, and mail that asks for a turn is looked at.
LEMMA MailStep ==
    ASSUME Types, NEW m \in Mails, Mail(m)
    PROVE  Types' /\ (Core /\ ~raced' => Core')
<1> USE Names
<1> DEFINE p == IF m \in Triggers THEN "m1" ELSE "idle"
<1>1. /\ pc[Loop] = "idle" /\ loc[m] = New /\ m \in Items /\ Loop \in Actors
      /\ UNCHANGED <<slotTs, slotTask, nextTurn, tsOf, goal, victim, kind, cancelled, 
                     terminal, turns, states, stops, raced>>
  BY DEF Mail, Items, slotVars, turnVars, countVars
<1>2. p \in {"m1", "idle"} /\ (m \in Triggers => p = "m1")
  OBVIOUS
<1>3. Goto(Loop, p)
  BY DEF Mail
<1> HIDE DEF p
<1>4. PcT' /\ ActorT' /\ Aimed' /\ Moved(Loop, p, tsOf[Loop], goal[Loop], victim[Loop])
  <2>1. p \in PhasesOf(Loop) /\ p \notin Starts \cup {"reserved", "a1", "a2"}
    BY <1>2 DEF PhasesOf, Routines, Starts
  <2>2. QED
    BY <1>1, <1>3, <2>1, GotoType
<1>5. LocT' /\ \A j \in Items : loc'[j] = IF j = m THEN Mailbox ELSE loc[j]
  BY MoveType, PlaceType DEF Mail, Types, LocT
<1>6. Types'
  BY <1>1, <1>4, <1>5 DEF Types, SlotT, TurnT
<1>7. ASSUME Core PROVE Core'
  <2>1. Goals /\ Numbered /\ Aborted /\ Owned /\ Ended /\ Carried /\ Limbo /\ Heard
    BY <1>7 DEF Core
  <2>2. \A j \in Items : loc'[j].at \in {"pending", "carried"} => loc'[j] = loc[j]
    BY <1>5, PlacesDiffer
  <2>3. ~Victim(Loop) /\ slotTask # Loop /\ goal[Loop] = NoTurn
    BY <1>1, <2>1 DEF Victim, Types, Aimed, SlotT, Goals, Starts
  <2>4. Goals'
    BY <1>1, <1>4, <2>1, <2>3, GoalsKept
  <2>5. Numbered'
    BY <1>1, <1>4, <2>1, <2>2, NumberedKept DEF Types, SlotT, Numbered
  <2>6. Aborted' /\ \A t \in Turns : Victim(t)' <=> Victim(t)
    BY <1>1, <1>2, <1>4, <2>1, <2>3, AbortedKept
  <2>7. Owned'
    BY <1>1, <1>2, <1>4, <2>1, <2>3, OwnedKept DEF HoldPhases
  <2>8. Ended'
    BY <1>1, <1>4, <2>1, <2>6, EndedKept
  <2>9. Carried' /\ Limbo'
    BY <1>1, <1>2, <1>4, <2>1, <2>2, CarriedKept, LimboKept
  <2>10. Heard'
    <3>1. HasTriggerMail' => HasTriggerMail \/ m \in Triggers
      BY <1>5 DEF HasTriggerMail, MailIn, At
    <3>2. m \in Triggers => pc'[Loop] \in LookPhases
      BY <1>1, <1>2, <1>4 DEF Moved, LookPhases
    <3>3. pc'[Loop] # "reserved"
      BY <1>1, <1>2, <1>4 DEF Moved
    <3>4. \A b \in Actors : pc[b] \in LookPhases => pc'[b] \in LookPhases
      BY <1>1, <1>4 DEF Moved, LookPhases
    <3>5. QED
      BY <1>1, <2>1, <3>1, <3>2, <3>3, <3>4 DEF Heard
  <2>11. QED
    BY <2>4, <2>5, <2>6, <2>7, <2>8, <2>9, <2>10 DEF Core
<1>8. QED
  BY <1>6, <1>7

-----------------------------------------------------------------------------
(* The invariant, and what follows from it. *)

\* A race is not forgotten.
LEMMA RacedStays == Next /\ raced => raced'
<1> SUFFICES ASSUME Next, raced PROVE raced'
  OBVIOUS
<1>1. ASSUME Operation PROVE raced'
  BY <1>1 DEF Operation, StartOrSteer, StartIfIdle, Steer, Steered, StartOther, Mail, Interrupt,
       TakeActive
<1>2. ASSUME NEW t \in Turns, TaskStep(t) PROVE raced'
  BY <1>2 DEF TaskStep, Begin, Quit, ReturnEarly, Drain, SampleTool, SampleAnswer, SampleError, Check, Exit,
       FinishTake, FinishReport, FinishClear
<1>3. ASSUME NEW a \in Actors, Routine(a) PROVE raced'
  BY <1>3 DEF Routine, AbortTake, TakeActive, AbortKill, AbortClear, WakeLook, WakeReserve,
       StartDrain, StartLookup, StartExtend, StartInstall
<1>4. QED
  BY <1>1, <1>2, <1>3 DEF Next, Internal, ReservedStart, GuardAbort, TakeActive, Inject,
       StartOrSteer, Steered

\* Nothing has begun at first.
LEMMA InitCore == Init => Core
<1> SUFFICES ASSUME Init PROVE Core
  OBVIOUS
<1> USE Names DEF Init
<1>1. \A i \in Items : loc[i].at = "new" /\ loc[i] # Mailbox
  BY PlacesDiffer
<1>2. \A a \in Actors : pc[a] \in {"none", "idle"} /\ (a \in Turns => pc[a] = "none")
  OBVIOUS
<1>3. Goals /\ Numbered
  BY <1>1, <1>2 DEF Goals, Numbered
<1>4. Aborted /\ \A t \in Turns : ~Victim(t)
  BY <1>2 DEF Aborted, Victim
<1>5. Owned
  BY <1>2 DEF Owned, OwnedTask, OwnedHeld, OneHolder, HolderShape, SpawnAborts, Free, HoldPhases
<1>6. Ended
  BY <1>2 DEF Ended
<1>7. Carried /\ Limbo
  BY <1>1, <1>2 DEF Carried, Limbo, Accepted, Items
<1>8. Heard
  BY <1>1, <1>2 DEF Heard, HasTriggerMail, MailIn, At
<1>9. QED
  BY <1>3, <1>4, <1>5, <1>6, <1>7, <1>8 DEF Core

\* Every step keeps the types, and the rest of the invariant until a race.
LEMMA StepKept == ASSUME Types, Next PROVE Types' /\ (Core /\ ~raced' => Core')
<1>1. ASSUME Operation PROVE Types' /\ (Core /\ ~raced' => Core')
  BY <1>1, StartOrSteerStep, StartIfIdleStep, SteerStep, StartOtherStep, MailStep, StopStep
     DEF Operation, Spawners
<1>2. ASSUME NEW t \in Turns, TaskStep(t) PROVE Types' /\ (Core /\ ~raced' => Core')
  BY <1>2, RunStep, FinishTakeStep, FinishReportStep, FinishClearStep DEF TaskStep, Runs
<1>3. ASSUME NEW a \in Actors, Routine(a) PROVE Types' /\ (Core /\ ~raced' => Core')
  BY <1>3, AbortTakeStep, AbortKillStep, AbortClearStep, WakeLookStep, WakeReserveStep,
     StartDrainStep, StartLookupStep, StartExtendStep, StartInstallStep DEF Routine
<1>4. CASE ReservedStart
  BY <1>4, ReservedStartStep
<1>5. CASE \E t \in Turns : GuardAbort(t)
  BY <1>5, StopStep
<1>6. CASE \E i \in Extras : Inject(i)
  BY <1>6, InjectStep
<1>7. CASE \E i \in Inputs : StartOrSteer(Voice, i)
  BY <1>7, StartOrSteerStep DEF Spawners
<1>8. QED
  BY <1>1, <1>2, <1>3, <1>4, <1>5, <1>6, <1>7 DEF Next, Internal

\* A step that changes nothing keeps the invariant.
LEMMA StutterKept == Inv /\ UNCHANGED vars => Inv'
<1> SUFFICES ASSUME Inv, UNCHANGED vars PROVE Inv'
  OBVIOUS
<1>1. UNCHANGED <<slotTs, slotTask, nextTurn, loc, pc, tsOf, goal, victim, kind, cancelled,
                  terminal, turns, states, stops, raced>>
  BY DEF vars
<1>2. TypeInv'
  BY <1>1 DEF Inv, TypeInv, TypeOK, Aimed, Seated
<1>3. (Goals' /\ Numbered' /\ Aborted' /\ Ended') \/ raced'
  BY <1>1 DEF Inv, Core, Goals, Numbered, Aborted, Ended, Unannounced, Victim
<1>4. (Owned' /\ Carried' /\ Limbo' /\ Heard') \/ raced'
  BY <1>1 DEF Inv, Core, Owned, OwnedTask, OwnedHeld, OneHolder, HolderShape, SpawnAborts, Free,
       Carried, Limbo, Heard, HasTriggerMail, MailIn, At
<1>5. QED
  BY <1>2, <1>3, <1>4 DEF Inv, Core

\* The types, Aimed and Seated hold of every run of a session; until a race,
\* the slot has one owner, every turn is announced exactly once, and whatever
\* is pending or waiting has somebody who will look at it.
THEOREM Inductive == Spec => []Inv
<1>1. Init => Inv
  BY InitType, InitCore, TypeParts DEF Inv
<1>2. Inv /\ [Next]_vars => Inv'
  <2> SUFFICES ASSUME Inv, [Next]_vars PROVE Inv'
    OBVIOUS
  <2>1. CASE UNCHANGED vars
    BY <2>1, StutterKept
  <2>2. CASE Next
    <3>1. Types /\ (raced \/ Core)
      BY TypeParts DEF Inv
    <3>2. Types' /\ (Core /\ ~raced' => Core')
      BY <2>2, <3>1, StepKept
    <3>3. TypeInv' <=> Types'
      BY TypeParts, PTL
    <3>4. raced => raced'
      BY <2>2, RacedStays
    <3>5. QED
      BY <3>1, <3>2, <3>3, <3>4 DEF Inv
  <2>3. QED
    BY <2>1, <2>2
<1>3. QED
  BY <1>1, <1>2, PTL DEF Spec

\* Every variable keeps its type: in particular the bounds on turns, turn
\* states and interrupts are never passed, also after a race.
THEOREM TypeCorrect == Spec => []TypeOK
<1>1. Inv => TypeOK
  BY DEF Inv, TypeInv
<1>2. QED
  BY <1>1, Inductive, PTL

\* on_task_finished and handle_task_abort never both announce the end of a
\* turn, and a turn that was announced is not in the slot: until a race.
THEOREM AnnouncedOnce == Spec => []TerminalOnce
<1>1. Inv => TerminalOnce
  <2> SUFFICES ASSUME Core, NEW t \in Turns
              PROVE  terminal[t] <= 1 /\ (terminal[t] = 1 => slotTask # t)
    BY DEF Inv, TerminalOnce
  <2>1. terminal[t] \in {0, 1} /\ (slotTask = t => terminal[t] = 0)
    BY DEF Core, Ended, Unannounced
  <2>2. QED
    BY <2>1
<1>2. QED
  BY <1>1, Inductive, PTL

\* A slot without a task has somebody who will fill or empty it, and a task in
\* the slot is alive: until a race, the session cannot hang on its slot.
THEOREM SlotNeverStuck == Spec => []SlotLive
<1>1. Inv => SlotLive
  <2> SUFFICES ASSUME Core PROVE SlotLive
    BY DEF Inv, SlotLive
  <2>1. slotTs # 0 /\ slotTask = NoTurn => Holders # {}
    BY DEF Core, Owned, OwnedHeld, Free, HoldPhases, Holders
  <2>2. slotTask # NoTurn => pc[slotTask] \in Running \cup {"exit", "f1"}
    BY DEF Core, Owned, OwnedTask, Alive
  <2>3. QED
    BY <2>1, <2>2 DEF SlotLive
<1>2. QED
  BY <1>1, Inductive, PTL

\* Accepted input and mail is pending only in the turn state of the slot, or in
\* one that somebody still has to record or clear: until a race.
THEOREM NothingInLimbo == Spec => []NoLimbo
<1>1. Inv => NoLimbo
  BY DEF Inv, Core, Limbo, NoLimbo, Accepted
<1>2. QED
  BY <1>1, Inductive, PTL

\* When every actor is done, the slot is empty, every turn that began was
\* announced, no mail that asks for a turn waits and no accepted item is left
\* in a turn state: until a race, no wake-up is lost.
THEOREM RestsClean == Spec => []RestIsClean
<1>1. Inv => RestIsClean
  <2> SUFFICES ASSUME Types, Core, Quiet
              PROVE  /\ slotTs = 0
                     /\ \A t \in Turns : pc[t] # "none" => terminal[t] = 1
                     /\ ~HasTriggerMail
                     /\ \A i \in Inputs \cup Mails : loc[i].at \notin {"pending", "carried"}
    BY TypeParts DEF Inv, RestIsClean
  <2>1. Goals /\ Numbered /\ Aborted /\ Owned /\ Ended /\ Carried /\ Limbo /\ Heard
    BY DEF Core
  <2>2. \A a \in Actors : pc[a] \in {"none", "idle", "over"}
    BY DEF Quiet
  <2>3. slotTask = NoTurn /\ slotTs = 0
    BY <2>1, <2>2, Names DEF Owned, OwnedTask, OwnedHeld, Free, HoldPhases, Alive, Running, Types,
          SlotT
  <2>4. \A t \in Turns : pc[t] # "none" => terminal[t] = 1
    <3>1. \A t \in Turns : ~Unannounced(t)
      BY <2>2, <2>3, Names DEF Unannounced, Victim
    <3>2. QED
      BY <2>1, <3>1 DEF Ended
  <2>5. ~HasTriggerMail
    BY <2>1, <2>2, <2>3 DEF Heard, LookPhases
  <2>6. \A i \in Inputs \cup Mails : loc[i].at \notin {"pending", "carried"}
    BY <2>1, <2>2, <2>3 DEF Limbo, Carried, Numbered, Accepted, Items
  <2>7. QED
    BY <2>3, <2>4, <2>5, <2>6
<1>2. QED
  BY <1>1, Inductive, PTL

\* start_task's debug_assert, "no task is in the slot", holds until a race: what
\* MCTurnTasks_overwrite finds is behind one.
THEOREM InstallsIntoFreeSlot == Spec => [](raced \/ SlotFree)
<1>1. Inv => raced \/ SlotFree
  BY DEF Inv, Core, Owned, OwnedTask, Free, HoldPhases, SlotFree
<1>2. QED
  BY <1>1, Inductive, PTL

=============================================================================
