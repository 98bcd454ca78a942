---------------------------- MODULE JobContract ----------------------------
(***************************************************************************)
(* What a durable job promises its caller, without leases, attempts or     *)
(* workers: it is pending until it either takes effect, once and for ever, *)
(* or is given up; a job that was given up may be reopened.                *)
(***************************************************************************)
EXTENDS Naturals

CONSTANT Jobs

VARIABLES phase, effects

vars == <<phase, effects>>

Init ==
    /\ phase = [j \in Jobs |-> "none"]
    /\ effects = [j \in Jobs |-> 0]

Accept(j) ==
    /\ phase[j] = "none"
    /\ phase' = [phase EXCEPT ![j] = "pending"]
    /\ UNCHANGED effects

TakeEffect(j) ==
    /\ phase[j] = "pending"
    /\ phase' = [phase EXCEPT ![j] = "done"]
    /\ effects' = [effects EXCEPT ![j] = @ + 1]

\* Several jobs may be given up at once: one statement retires them all.
GiveUp(S) ==
    /\ \A j \in S : phase[j] = "pending"
    /\ phase' = [j \in Jobs |-> IF j \in S THEN "failed" ELSE phase[j]]
    /\ UNCHANGED effects

Reopen(j) ==
    /\ phase[j] = "failed"
    /\ phase' = [phase EXCEPT ![j] = "pending"]
    /\ UNCHANGED effects

Next ==
    \/ \E j \in Jobs : Accept(j) \/ TakeEffect(j) \/ Reopen(j)
    \/ \E S \in SUBSET Jobs : GiveUp(S)

Spec == Init /\ [][Next]_vars

=============================================================================
