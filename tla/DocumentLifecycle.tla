-------------------------- MODULE DocumentLifecycle --------------------------
(***************************************************************************)
(* What the document store promises its readers, without the jobs that     *)
(* bring it about: the status column of each document and the set of its   *)
(* chunks whose embedding column is filled.  Two promises are stated.      *)
(*                                                                         *)
(*   SingleJobSpec  processing is left for "failed" or, with every chunk   *)
(*                  embedded, for "ready"; a task that trips over its own  *)
(*                  end may withdraw what it finished, and a document      *)
(*                  given up stays so.                                     *)
(*   Spec           what remains true when several jobs work on the same   *)
(*                  document: a document leaves "processing" for "ready"   *)
(*                  only with every chunk embedded, and never comes back   *)
(*                  to "processing"; but "ready" and "failed" may be       *)
(*                  written over each other.                               *)
(***************************************************************************)
EXTENDS Naturals

CONSTANTS Docs,      \* document ids
          Chunks     \* the chunk indexes of a document

VARIABLES status,    \* the documents.status column, "none" before the insert
          embedded   \* the chunks whose embedding column is not NULL

lifecycleVars == <<status, embedded>>

Init ==
    /\ status = [d \in Docs |-> "none"]
    /\ embedded = [d \in Docs |-> {}]

\* The upload commits the document together with its chunks.
Create(d) ==
    /\ status[d] = "none"
    /\ status' = [status EXCEPT ![d] = "processing"]
    /\ UNCHANGED embedded

\* A batch of embeddings is committed: embeddings are filled, never cleared.
Embed(d, batch) ==
    /\ status[d] # "none"
    /\ embedded' = [embedded EXCEPT ![d] = @ \union batch]
    /\ UNCHANGED status

\* The document is finished.
Complete(d) ==
    /\ status[d] = "processing"
    /\ embedded[d] = Chunks
    /\ status' = [status EXCEPT ![d] = "ready"]
    /\ UNCHANGED embedded

\* The document is given up.
GiveUp(d) ==
    /\ status[d] = "processing"
    /\ status' = [status EXCEPT ![d] = "failed"]
    /\ UNCHANGED embedded

\* A job fails on a document that is finished: another has finished it, or the job itself
\* and fails afterwards.
Withdraw(d) ==
    /\ status[d] = "ready"
    /\ status' = [status EXCEPT ![d] = "failed"]
    /\ UNCHANGED embedded

\* A job that was under way when another gave the document up overwrites "failed".
Revive(d) ==
    /\ status[d] = "failed"
    /\ status' = [status EXCEPT ![d] = "ready"]
    /\ UNCHANGED embedded

SingleJobNext ==
    \E d \in Docs :
        \/ Create(d)
        \/ \E batch \in SUBSET Chunks : Embed(d, batch)
        \/ Complete(d)
        \/ GiveUp(d)
        \/ Withdraw(d)

Next ==
    \/ SingleJobNext
    \/ \E d \in Docs : Revive(d)

SingleJobSpec == Init /\ [][SingleJobNext]_lifecycleVars
Spec == Init /\ [][Next]_lifecycleVars
=============================================================================
