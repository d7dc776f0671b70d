---------------------------- MODULE ChatEndpoint ----------------------------
(***************************************************************************)
(* POST /chat around the workflow: the handler that awaits the run or      *)
(* streams its events, and the client that may leave.                      *)
(*                                                                         *)
(* The graph runs in a task of its own and its events wait in a queue, so  *)
(* a stream may lag behind its run.  The handler answers with an HTTP      *)
(* error while nothing was streamed, and afterwards can only send an       *)
(* `error` event or break the stream off.                                  *)
(***************************************************************************)
EXTENDS ChatWorkflow

VARIABLES
    http,       \* where the HTTP exchange of a request stands
    delivered,  \* how many events of the run the generator has yielded
    gone,       \* whether the client has left
    recorded    \* the outcomes given to record_chat_request

endpoint == <<http, delivered, gone, recorded>>
allVars == <<owner, messages, toolRuns, registry, asked, pc, found, aborted, nodes, rounds, calls,
             result, answer, started, events, error,
             http, delivered, gone, recorded>>

Http == {"idle", "screened", "waiting", "streaming", "answered", "closed",
         "http_error", "error_event", "broken", "disconnected"}

Outcome == {"success", "error", "disconnected"}

\* completion is not None once message_complete went through the generator.
CompletionSeen(r) == delivered[r] > 0 /\ events[r][delivered[r]] = "message_complete"

Responds(r, h) == http' = [http EXCEPT ![r] = h]
Records(r, outcome) == recorded' = [recorded EXCEPT ![r] = Append(@, outcome)]

-----------------------------------------------------------------------------
\* Moderation or an input guardrail turns the message away.
Screen(r) ==
    /\ http[r] = "idle"
    /\ Responds(r, "screened")
    /\ UNCHANGED <<vars, delivered, gone, recorded>>

\* service.chat() or the first anext() of service.stream_chat().
Receive(r, a) ==
    /\ http[r] = "idle"
    /\ Start(r, a)
    /\ Responds(r, "waiting")
    /\ UNCHANGED <<delivered, gone, recorded>>

\* The run goes on, whatever the handler and the client do.
Run(r) ==
    /\ Proceeds(r) \/ IsFailed(r)
    /\ UNCHANGED endpoint

-----------------------------------------------------------------------------
(* The answer to a request that does not stream                            *)

SyncCompletes(r) ==
    /\ http[r] = "waiting" /\ ~ asked[r].stream
    /\ pc[r] = "completed"
    /\ Responds(r, "answered")
    /\ Records(r, "success")
    /\ UNCHANGED <<vars, delivered, gone>>

\* The except clause before anything was answered.
CaughtBeforeStart == {"provider", "ownership"}

\* The run failed and nothing was answered yet, with or without streaming.  An error
\* that is not caught becomes a plain 500 and is not recorded.
FailsBeforeStart(r) ==
    /\ http[r] = "waiting"
    /\ pc[r] = "failed"
    /\ asked[r].stream => events[r] = <<>>
    /\ Responds(r, "http_error")
    /\ IF error[r] \in CaughtBeforeStart THEN Records(r, "error") ELSE UNCHANGED recorded
    /\ UNCHANGED <<vars, delivered, gone>>

-----------------------------------------------------------------------------
(* event_generator                                                         *)

\* The response starts with the event already awaited.
FirstEvent(r) ==
    /\ http[r] = "waiting" /\ asked[r].stream
    /\ events[r] # <<>>
    /\ Responds(r, "streaming")
    /\ delivered' = [delivered EXCEPT ![r] = 1]
    /\ UNCHANGED <<vars, gone, recorded>>

\* Mutant of Drained: the generator waits for message_complete.
DrainedWhenComplete(r) ==
    http[r] = "streaming" /\ delivered[r] = Len(events[r]) /\ CompletionSeen(r)

Pending(r) == http[r] = "streaming" /\ delivered[r] < Len(events[r])
Drained(r) == http[r] = "streaming" /\ delivered[r] = Len(events[r])

Deliver(r) ==
    /\ Pending(r) /\ ~ gone[r]
    /\ delivered' = [delivered EXCEPT ![r] = @ + 1]
    /\ UNCHANGED <<vars, http, gone, recorded>>

\* Nobody looks whether the client of a request that does not stream is still there.
ClientLeaves(r) ==
    /\ http[r] \in {"waiting", "streaming"} /\ asked[r].stream
    /\ gone' = [gone EXCEPT ![r] = TRUE]
    /\ UNCHANGED <<vars, http, delivered, recorded>>

\* The next event finds the client gone: is_disconnected().  aclose() closes the outermost
\* generator; the run is not cancelled yet.
NoticeGone(r) ==
    /\ Pending(r) /\ gone[r]
    /\ Responds(r, "disconnected")
    /\ Records(r, "disconnected")
    /\ UNCHANGED <<vars, delivered, gone>>

\* Mutant of FinalizeAtEnd: the finally clause does not look at the completion.
FinalizeAlways(r) == Records(r, "success")

\* finalize_stream("success") of the finally clause.
FinalizeAtEnd(r) == IF CompletionSeen(r) THEN Records(r, "success") ELSE UNCHANGED recorded

\* The server notices first and cancels the generator where it waits.
ServerCancels(r) ==
    /\ http[r] = "streaming" /\ gone[r]
    /\ Responds(r, "disconnected")
    /\ FinalizeAtEnd(r)
    /\ UNCHANGED <<vars, delivered, gone>>

\* The generators inside are dropped with the outermost one, and the event loop closes them when
\* it comes to it.  Closing the last cancels the run, if it is still at work.
FinalizerCloses(r) ==
    /\ http[r] = "disconnected"
    /\ Cancel(r)
    /\ UNCHANGED endpoint

\* Mutant of StreamCompletes: the handler is done with the reply, not with the run.
StreamCompletesEarly(r) ==
    /\ Drained(r)
    /\ CompletionSeen(r)
    /\ Responds(r, "closed")
    /\ FinalizeAtEnd(r)
    /\ UNCHANGED <<vars, delivered, gone>>

StreamCompletes(r) ==
    /\ Drained(r)
    /\ pc[r] = "completed"
    /\ Responds(r, "closed")
    /\ FinalizeAtEnd(r)
    /\ UNCHANGED <<vars, delivered, gone>>

\* The except clause of the generator: OwnershipError is not in it.
CaughtInStream == {"provider"}

\* The run failed after something was streamed: an `error` event for what is caught,
\* a broken stream for the rest.
StreamFails(r) ==
    /\ Drained(r)
    /\ pc[r] = "failed"
    /\ IF error[r] \in CaughtInStream
       THEN Responds(r, "error_event") /\ Records(r, "error")
       ELSE Responds(r, "broken") /\ FinalizeAtEnd(r)
    /\ UNCHANGED <<vars, delivered, gone>>

\* The process dies: every open exchange is cut off.
ProcessDies ==
    /\ Crash
    /\ http' = [r \in Requests |->
                  IF http[r] \in {"waiting", "streaming"} THEN "broken" ELSE http[r]]
    /\ UNCHANGED <<delivered, gone, recorded>>

EndpointInit ==
    /\ Init
    /\ http = [r \in Requests |-> "idle"]
    /\ delivered = [r \in Requests |-> 0]
    /\ gone = [r \in Requests |-> FALSE]
    /\ recorded = [r \in Requests |-> <<>>]

\* What the handler does of itself.
Handles(r) ==
    \/ SyncCompletes(r)
    \/ FailsBeforeStart(r)
    \/ FirstEvent(r)
    \/ Deliver(r)
    \/ NoticeGone(r)
    \/ ServerCancels(r)
    \/ StreamCompletes(r)
    \/ StreamFails(r)

EndpointNext ==
    \/ \E r \in Requests, a \in Ask : Receive(r, a)
    \/ \E r \in Requests : Screen(r) \/ Run(r) \/ Handles(r) \/ ClientLeaves(r)
                          \/ FinalizerCloses(r)
    \/ ProcessDies

EndpointSpec == EndpointInit /\ [][EndpointNext]_allVars

\* The event loop runs the graph's task and the handler on.
EndpointFairness ==
    \A r \in Requests : WF_allVars(Run(r)) /\ WF_allVars(Handles(r))

FairEndpointSpec == EndpointSpec /\ EndpointFairness

-----------------------------------------------------------------------------
(* Properties                                                              *)

EndpointTypeOK ==
    /\ TypeOK
    /\ http \in [Requests -> Http]
    /\ delivered \in [Requests -> Nat]
    /\ gone \in [Requests -> BOOLEAN]
    /\ recorded \in [Requests -> Seq(Outcome)]

\* Where no error can follow the commit of an exchange: no answer to a commit is lost, the
\* checkpointer does not fail, and the recursion limit leaves room for every node.
Reliable ==
    /\ Faults \intersect {"ambiguous_commit", "checkpoint_error"} = {}
    /\ Registries \subseteq {TRUE}
    /\ RecursionLimit >= 2 * ToolMaxRounds + 6

\* A status the handler chose means failure; a plain 500 means it where the environment is
\* reliable, and elsewhere leaves the client as ignorant as a stream that breaks off.
ToldFailed(r) ==
    \/ http[r] \in {"screened", "error_event"}
    \/ http[r] = "http_error" /\ (error[r] \in CaughtBeforeStart \/ Reliable)

told == [r \in Requests |->
            CASE http[r] \in {"idle", "waiting", "streaming"} -> "nothing"
              [] http[r] \in {"answered", "closed"} -> "success"
              [] ToldFailed(r) -> "failed"
              [] OTHER -> "cut_off"]

\* The endpoint keeps its contract: a client that was told the request failed, by a
\* status or by an `error` event, may send it again without doubling the exchange, and
\* one that was told of success finds it stored.
Contract == INSTANCE ChatContract WITH stored <- {r \in Requests : Stored(r)}
KeepsContract == Contract!Spec

\* A request counts as a success only if its exchange is stored and its client was sent
\* all of it; it is counted at most once, however disconnects and failures race with the
\* end of the run.
RecordsTruthful ==
    \A r \in Requests :
        /\ Len(recorded[r]) <= 1
        /\ http[r] \in {"answered", "closed"} => recorded[r] = <<"success">>
        /\ recorded[r] = <<"success">> =>
              /\ Stored(r)
              /\ asked[r].stream => delivered[r] = Len(events[r])

\* Only a client that left may leave a run behind its handler: whoever was told how the request
\* ended, or that it broke, can rely on its run not writing any more.
NoOrphanRun ==
    \A r \in Requests :
        http[r] \notin {"waiting", "streaming"} /\ pc[r] \in WorkingPc =>
            http[r] = "disconnected" /\ gone[r]

\* "Streaming responses use `text/event-stream` and emit these events: ... `error`": an
\* error that the handler answers with a status before the stream starts is announced by
\* that event afterwards.
FailureAnnounced ==
    \A r \in Requests : http[r] = "broken" => error[r] \notin CaughtBeforeStart

\* Every request is answered to an end, and a client that stays gets the whole stream.
EventuallyAnswered ==
    \A r \in Requests :
        /\ http[r] = "waiting" ~> http[r] \notin {"idle", "waiting"}
        /\ http[r] = "streaming" ~> http[r] # "streaming"
=============================================================================
