------------------------------- MODULE MCDoor -------------------------------
(***************************************************************************)
(* What a request passes before its handler runs, for TLC: the rate        *)
(* limiter, the middleware stack, the lookup of its API key and the        *)
(* workflow it waits for.  The four share no state, so one behaviour shows *)
(* one of them; the subject says which.                                    *)
(***************************************************************************)
EXTENDS RateLimiter, HttpStack, AccessControl, WorkflowRuntime, TLC

VARIABLE subject

Symmetry == Permutations(Users) \union Permutations(ApiKeys) \union Permutations(Calls)

doorVars == <<rateVars, httpVars, accessVars, runtimeVars, subject>>

\* What is not the subject stands as it does before the first request.
DoorInit ==
    /\ subject \in {"limiter", "stack", "key", "workflow"}
    /\ RateInit /\ HttpInit /\ AccessInit /\ RuntimeInit
    /\ subject # "stack" => length = "none"
    /\ subject # "workflow" => ~persistent /\ waits

DoorNext ==
    /\ \/ subject = "limiter" /\ RateNext /\ UNCHANGED <<httpVars, accessVars, runtimeVars>>
       \/ subject = "stack" /\ HttpNext /\ UNCHANGED <<rateVars, accessVars, runtimeVars>>
       \/ subject = "key" /\ AccessNext /\ UNCHANGED <<rateVars, httpVars, runtimeVars>>
       \/ subject = "workflow" /\ RuntimeNext /\ UNCHANGED <<rateVars, httpVars, accessVars>>
    /\ UNCHANGED subject

DoorSpec == DoorInit /\ [][DoorNext]_doorVars
=============================================================================
