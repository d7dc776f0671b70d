---------------------------- MODULE ChatContract ----------------------------
(***************************************************************************)
(* What POST /chat promises of a request, whatever workflow, database and  *)
(* stream are behind it: the exchange is stored at most once; a client     *)
(* that is told "success" finds it stored; one that is told "failed" finds *)
(* nothing and may ask again; only one that was cut off does not know: its *)
(* exchange may be stored, or be stored yet.                               *)
(***************************************************************************)
CONSTANT Requests

VARIABLES
    stored,  \* requests whose exchange is stored
    told     \* what the client of a request knows

vars == <<stored, told>>

Told == {"nothing", "success", "failed", "cut_off"}

Init == stored = {} /\ told = [r \in Requests |-> "nothing"]

Store(r) ==
    /\ told[r] \in {"nothing", "cut_off"} /\ r \notin stored
    /\ stored' = stored \union {r}
    /\ UNCHANGED told

Succeed(r) ==
    /\ told[r] = "nothing" /\ r \in stored
    /\ told' = [told EXCEPT ![r] = "success"]
    /\ UNCHANGED stored

Fail(r) ==
    /\ told[r] = "nothing" /\ r \notin stored
    /\ told' = [told EXCEPT ![r] = "failed"]
    /\ UNCHANGED stored

\* One client leaves, or the server goes down under several.
CutOff(S) ==
    /\ \A r \in S : told[r] = "nothing"
    /\ told' = [r \in Requests |-> IF r \in S THEN "cut_off" ELSE told[r]]
    /\ UNCHANGED stored

Next ==
    \/ \E S \in SUBSET Requests : CutOff(S)
    \/ \E r \in Requests : Store(r) \/ Succeed(r) \/ Fail(r)

Spec == Init /\ [][Next]_vars
=============================================================================
