--------------------------- MODULE WorkflowRuntime ---------------------------
(***************************************************************************)
(* ChatWorkflowRuntime: the one workflow of the process, built by the      *)
(* first request that needs it, with the checkpointer's connection it      *)
(* lives on, and its end in the shutdown of the application (lifespan).    *)
(*                                                                         *)
(* A request waits for the workflow in get_workflow and uses it until it   *)
(* is answered.  Between two awaits nothing else runs, so what a request   *)
(* does when it is resumed is one step.  A connection is named after the   *)
(* request that opened it.  The connection itself is external: it opens,   *)
(* sets up its tables and closes, or fails to.                             *)
(***************************************************************************)
EXTENDS Naturals, FiniteSets

CONSTANTS
    Getters,       \* bound: requests that need the workflow
    Nobody

ASSUME RuntimeAssumption == Nobody \notin Getters

VARIABLES
    persistent,    \* setting: whether langgraph_checkpoint_database_url is set
    waits,         \* setting: whether the server lets its requests end before it shuts down
    workflow,      \* _workflow: what it was built on, Nobody while there is none
    checkpointer,  \* _checkpointer_cm: who opened it
    lock,          \* who holds _lock
    connection,    \* of each connection: "unused", "open" or "closed"
    getter,        \* where each request stands
    given,         \* the workflow it was given
    app            \* where the application stands

runtimeVars == <<persistent, waits, workflow, checkpointer, lock, connection, getter, given, app>>

\* A workflow without a database lives in memory: no connection is opened for it.
Locked == {"entering", "setup", "exiting"}
GetterPc == {"new", "waiting", "using", "answered", "failed", "cancelled"} \union Locked

Steps(g, p) == getter' = [getter EXCEPT ![g] = p]

Unlock(g) == lock' = IF lock = g THEN Nobody ELSE lock

Gives(g, w) == given' = [given EXCEPT ![g] = w]

-----------------------------------------------------------------------------
\* get_workflow finds the workflow, or waits for the lock.
Get(g) ==
    /\ getter[g] = "new"
    /\ app = "serving"
    /\ IF workflow # Nobody
       THEN Steps(g, "using") /\ Gives(g, workflow)
       ELSE Steps(g, "waiting") /\ UNCHANGED given
    /\ UNCHANGED <<workflow, checkpointer, lock, connection, app>>

\* Mutant of FoundUnderLock: the workflow is looked for only before the lock is taken.
FoundNowhere == FALSE

\* The lock is held: another request may have built the workflow meanwhile.
FoundUnderLock == workflow # Nobody

\* Without a database the workflow is built without an await.
Acquire(g) ==
    /\ getter[g] = "waiting"
    /\ lock = Nobody
    /\ IF FoundUnderLock
       THEN Steps(g, "using") /\ Gives(g, workflow) /\ UNCHANGED <<workflow, lock>>
       ELSE IF persistent
       THEN Steps(g, "entering") /\ lock' = g /\ UNCHANGED <<workflow, given>>
       ELSE Steps(g, "using") /\ workflow' = g /\ Gives(g, g) /\ UNCHANGED lock
    /\ UNCHANGED <<checkpointer, connection, app>>

\* checkpointer_cm.__aenter__ has opened the connection.
Entered(g) ==
    /\ getter[g] = "entering"
    /\ connection' = [connection EXCEPT ![g] = "open"]
    /\ Steps(g, "setup")
    /\ UNCHANGED <<workflow, checkpointer, lock, given, app>>

\* setup() is done; nothing is awaited until the workflow is given out.
SetUp(g) ==
    /\ getter[g] = "setup"
    /\ checkpointer' = g
    /\ workflow' = g
    /\ Unlock(g)
    /\ Steps(g, "using")
    /\ Gives(g, g)
    /\ UNCHANGED <<connection, app>>

EnterFails(g) ==
    /\ getter[g] = "entering"
    /\ Unlock(g)
    /\ Steps(g, "failed")
    /\ UNCHANGED <<workflow, checkpointer, connection, given, app>>

\* An Exception of setup() closes the connection.
SetupFails(g) ==
    /\ getter[g] = "setup"
    /\ Steps(g, "exiting")
    /\ UNCHANGED <<workflow, checkpointer, lock, connection, given, app>>

Exited(g) ==
    /\ getter[g] = "exiting"
    /\ connection' = [connection EXCEPT ![g] = "closed"]
    /\ Unlock(g)
    /\ Steps(g, "failed")
    /\ UNCHANGED <<workflow, checkpointer, given, app>>

Answered(g) ==
    /\ getter[g] = "using"
    /\ Steps(g, "answered")
    /\ UNCHANGED <<workflow, checkpointer, lock, connection, given, app>>

\* A server that does not wait cancels its requests.  CancelledError is no Exception:
\* what setup() is cancelled in stays open.
Cancelled(g) ==
    /\ ~waits
    /\ getter[g] \in {"waiting", "using"} \union Locked
    /\ app # "serving"
    /\ Unlock(g)
    /\ Steps(g, "cancelled")
    /\ UNCHANGED <<workflow, checkpointer, connection, given, app>>

-----------------------------------------------------------------------------
Active == {g \in Getters : getter[g] \in {"waiting", "using"} \union Locked}

\* The server is told to stop; it takes no new request.
ShutdownBegins ==
    /\ app = "serving"
    /\ waits => Active = {}
    /\ app' = "closing"
    /\ UNCHANGED <<workflow, checkpointer, lock, connection, getter, given>>

\* The providers and the trace sink are closed; one that raises ends the shutdown there.
ProvidersFail ==
    /\ app = "closing"
    /\ app' = "broken"
    /\ UNCHANGED <<workflow, checkpointer, lock, connection, getter, given>>

\* close() forgets the workflow and awaits the checkpointer's exit, if there is one; the
\* engine is disposed of last.
Close ==
    /\ app = "closing"
    /\ workflow' = Nobody
    /\ app' = IF checkpointer = Nobody THEN "down" ELSE "exiting"
    /\ UNCHANGED <<checkpointer, lock, connection, getter, given>>

Closed ==
    /\ app = "exiting"
    /\ connection' = [connection EXCEPT ![checkpointer] = "closed"]
    /\ checkpointer' = Nobody
    /\ app' = "down"
    /\ UNCHANGED <<workflow, lock, getter, given>>

CloseFails ==
    /\ app = "exiting"
    /\ app' = "broken"
    /\ UNCHANGED <<workflow, checkpointer, lock, connection, getter, given>>

RuntimeInit ==
    /\ persistent \in BOOLEAN
    /\ waits \in BOOLEAN
    /\ workflow = Nobody
    /\ checkpointer = Nobody
    /\ lock = Nobody
    /\ connection = [g \in Getters |-> "unused"]
    /\ getter = [g \in Getters |-> "new"]
    /\ given = [g \in Getters |-> Nobody]
    /\ app = "serving"

RuntimeNext ==
    /\ \/ \E g \in Getters :
             \/ Get(g) \/ Acquire(g) \/ Entered(g) \/ SetUp(g) \/ EnterFails(g) \/ SetupFails(g)
             \/ Exited(g) \/ Answered(g) \/ Cancelled(g)
       \/ ShutdownBegins \/ ProvidersFail \/ Close \/ Closed \/ CloseFails
    /\ UNCHANGED <<persistent, waits>>

RuntimeSpec == RuntimeInit /\ [][RuntimeNext]_runtimeVars

-----------------------------------------------------------------------------
RuntimeTypeOK ==
    /\ persistent \in BOOLEAN
    /\ waits \in BOOLEAN
    /\ workflow \in Getters \union {Nobody}
    /\ checkpointer \in Getters \union {Nobody}
    /\ lock \in Getters \union {Nobody}
    /\ connection \in [Getters -> {"unused", "open", "closed"}]
    /\ getter \in [Getters -> GetterPc]
    /\ given \in [Getters -> Getters \union {Nobody}]
    /\ app \in {"serving", "closing", "exiting", "down", "broken"}

Open == {g \in Getters : connection[g] = "open"}

\* However many first requests come at once, and whatever fails: there is one workflow,
\* every request at work has been given it and finds its connection open, no other
\* connection is open but the one that is being set up, and a shutdown that comes to its
\* end leaves none.  All of this only if the server waits for its requests.
OneWorkflow ==
    waits =>
        /\ \A g \in Getters : getter[g] = "using" =>
              /\ given[g] = workflow /\ workflow # Nobody
              /\ persistent => workflow \in Open
        /\ Open \subseteq {checkpointer, lock}
        /\ app = "down" => Open = {}
=============================================================================
