---------------------------- MODULE SerialAccess ----------------------------
(***************************************************************************)
(* What the app-server promises about requests that touch one resource: a  *)
(* request starts only when every conflicting request that arrived before  *)
(* it is over.  Two requests conflict when they name the same resource and *)
(* at least one of them is exclusive.  How many queues or tasks are used,  *)
(* and how shared reads are batched, is left open.                         *)
(***************************************************************************)
CONSTANTS Requests, Keys, NoKey

VARIABLES
    ph,      \* new, waiting, running or over
    key,     \* the resource the request names, or NoKey
    access,  \* Exclusive or SharedRead
    behind   \* the conflicting requests that arrived before it

saVars == <<ph, key, access, behind>>

\* r, naming resource k with access a, may not overtake s.
MustFollow(s, k, a) ==
    /\ k # NoKey
    /\ ph[s] # "new" /\ key[s] = k
    /\ a = "Exclusive" \/ access[s] = "Exclusive"

AInit ==
    /\ ph = [r \in Requests |-> "new"]
    /\ key = [r \in Requests |-> NoKey]
    /\ access = [r \in Requests |-> "Exclusive"]
    /\ behind = [r \in Requests |-> {}]

Arrive(r, k, a) ==
    /\ ph[r] = "new"
    /\ ph' = [ph EXCEPT ![r] = "waiting"]
    /\ key' = [key EXCEPT ![r] = k]
    /\ access' = [access EXCEPT ![r] = a]
    /\ behind' = [behind EXCEPT ![r] = {s \in Requests : MustFollow(s, k, a)}]

Start(r) ==
    /\ ph[r] = "waiting"
    /\ \A s \in behind[r] : ph[s] = "over"
    /\ ph' = [ph EXCEPT ![r] = "running"]
    /\ UNCHANGED <<key, access, behind>>

\* Requests end, or are given up before they started; one failure may end
\* several of them.
End(R) ==
    /\ R # {} /\ \A r \in R : ph[r] \in {"waiting", "running"}
    /\ ph' = [r \in Requests |-> IF r \in R THEN "over" ELSE ph[r]]
    /\ UNCHANGED <<key, access, behind>>

ANext ==
    \/ \E r \in Requests, k \in Keys \cup {NoKey}, a \in {"Exclusive", "SharedRead"} :
           Arrive(r, k, a)
    \/ \E r \in Requests : Start(r)
    \/ \E R \in SUBSET Requests : End(R)

ASpec == AInit /\ [][ANext]_saVars

=============================================================================
