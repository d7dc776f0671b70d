---------------------------- MODULE ChatWorkflow ----------------------------
(***************************************************************************)
(* The LangGraph workflow behind POST /chat and the rows it writes:        *)
(* conversations, messages and tool_runs.                                  *)
(*                                                                         *)
(*   load_context -> load_memory -> call_model <-> execute_tools           *)
(*                                  call_model  -> output_guardrail        *)
(*                               -> persist_response -> write_memory       *)
(*                                                                         *)
(* Requests run concurrently, each with a database session of its own      *)
(* (READ COMMITTED).  A step is what a node does between two awaits that   *)
(* reach the database, the model provider, a tool or the guard.  The       *)
(* memory store the two memory nodes use is ChatMemory's subject; here     *)
(* they only take their turn, since their errors are swallowed.  Of the    *)
(* checkpointer only what it does to a run is here: its writes fail it.    *)
(*                                                                         *)
(* Bounds: MaxCalls tool calls in one answer of the model.                 *)
(***************************************************************************)
EXTENDS Naturals, Sequences

CONSTANTS
    Requests,        \* chat requests
    Convs,           \* conversation ids
    Owners,          \* authenticated users; {NoOwner} when authentication is off
    NoOwner,         \* owner_user_id None
    NoRow,           \* the owner of a conversation that has no row
    ToolMaxRounds,   \* tool_max_rounds
    MaxCalls,
    ModelText,       \* what the model says: clean, or something the guard redacts or blocks
    Registries,      \* whether a tool_registry is configured: the cases considered
    GuardEnabled,    \* whether an output_guard is configured
    RecursionLimit,  \* LangGraph's limit on the nodes of one run
    Faults           \* which of "db_error", "ambiguous_commit", "checkpoint_error",
                     \* "crash" happen

ASSUME WorkflowAssumption ==
    /\ ToolMaxRounds \in Nat
    /\ MaxCalls \in Nat \ {0}
    /\ ModelText \subseteq {"clean", "sensitive"}
    /\ RecursionLimit \in Nat
    /\ Registries \subseteq BOOLEAN
    /\ GuardEnabled \in BOOLEAN
    /\ NoRow \notin Owners
    /\ Faults \subseteq {"db_error", "ambiguous_commit", "checkpoint_error", "crash"}

VARIABLES
    owner,      \* conversations.owner_user_id
    messages,   \* the messages of a conversation in the order of their ids
    toolRuns,   \* the tool_runs.status of the rows a request inserted, in order
    registry,   \* whether a tool_registry is configured
    asked,      \* what was asked: conversation, owner, stream or not
    pc,         \* the await a request stands at
    found,      \* whether the conversation was found by the SELECT before an INSERT
    aborted,    \* whether an error that was swallowed has left the transaction aborted
    nodes,      \* nodes run so far
    rounds,     \* tool_rounds
    calls,      \* pending_tool_calls still to be executed
    result,     \* what the tool just executed returned
    answer,     \* assistant_message, NoAnswer for None
    started,    \* message_started
    events,     \* what the stream writer was given
    error       \* why the run failed

database == <<owner, messages, toolRuns>>
session == <<found, aborted>>
state == <<nodes, rounds, calls, result, answer, started, events>>
vars == <<owner, messages, toolRuns, registry, asked, pc, found, aborted, nodes, rounds, calls,
          result, answer, started, events, error>>

NoAnswer == "none"
Answer == ModelText \union {"redacted", "refusal", "round_limit"}

Ask == [conv : Convs, owner : Owners, stream : BOOLEAN]
NoAsk == [conv |-> "none", owner |-> "none", stream |-> FALSE]

Message == [role : {"user", "assistant"}, by : Requests, text : Answer \union {"user"}]
Event == {"message_start", "tool_start", "tool_complete", "tool_error",
          "message_delta", "message_complete"}
RunStatus == {"running", "completed", "failed"}

\* Where a run is at work, waiting for the database, the provider, a tool or the guard.
DatabasePc == {"load_context", "tool_load", "tool_insert", "tool_finish",
               "persist_load", "persist_commit"}
WorkingPc == DatabasePc \union {"load_memory", "call_model", "execute_tools",
                                "tool_execute", "tool_report", "output_guardrail",
                                "persist_stream", "write_memory", "finishing"}
EndPc == {"completed", "failed", "interrupted"}
Pc == {"new"} \union WorkingPc \union EndPc

\* provider: ChatProviderError and the embedding errors; other: everything that the
\* endpoint does not name in its except clauses.
Error == {"none", "provider", "ownership", "other"}

-----------------------------------------------------------------------------
Conv(r) == asked[r].conv
Exists(r) == owner[Conv(r)] # NoRow

\* The check every repository method makes on the row it has loaded.
OwnedByOther(r) ==
    Exists(r) /\ asked[r].owner # NoOwner /\ owner[Conv(r)] # asked[r].owner

Emitted(r, new) == IF asked[r].stream THEN [events EXCEPT ![r] = @ \o new] ELSE events

Goto(r, p) == pc' = [pc EXCEPT ![r] = p]

Fails(r, e) ==
    /\ pc' = [pc EXCEPT ![r] = "failed"]
    /\ error' = [error EXCEPT ![r] = e]

\* LangGraph starts the next node only within its recursion limit.
Node(r, p) ==
    /\ pc[r] = p
    /\ nodes[r] < RecursionLimit
    /\ nodes' = [nodes EXCEPT ![r] = @ + 1]

NodePc == {"load_context", "load_memory", "call_model", "execute_tools",
           "output_guardrail", "persist_load", "write_memory"}

RecursionExceeded(r) ==
    /\ pc[r] \in NodePc
    /\ nodes[r] = RecursionLimit
    /\ Fails(r, "other")
    /\ UNCHANGED <<database, registry, asked, session, state>>

-----------------------------------------------------------------------------
\* The chat service is called: run() or stream().
Start(r, a) ==
    /\ pc[r] = "new"
    /\ asked' = [asked EXCEPT ![r] = a]
    /\ Goto(r, "load_context")
    /\ UNCHANGED <<database, registry, session, state, error>>

\* load_context_node: the stored history, unless the conversation is another's.
LoadContext(r) ==
    /\ Node(r, "load_context")
    /\ IF OwnedByOther(r)
       THEN Fails(r, "ownership")
       ELSE Goto(r, "load_memory") /\ UNCHANGED error
    /\ UNCHANGED <<database, registry, asked, session, rounds, calls, result, answer, started, events>>

\* A database error that is swallowed: nobody rolls the session back, and PostgreSQL
\* refuses what it is asked next.
AbortedBy(r, may) ==
    \E b \in IF may /\ "db_error" \in Faults THEN BOOLEAN ELSE {FALSE} :
        aborted' = [aborted EXCEPT ![r] = b]

\* load_memory_node: prepares the prompt, or is skipped on any error.
LoadMemory(r) ==
    /\ Node(r, "load_memory")
    /\ AbortedBy(r, TRUE)
    /\ Goto(r, "call_model")
    /\ UNCHANGED <<database, registry, asked, found, rounds, calls, result, answer, started,
                   events, error>>

-----------------------------------------------------------------------------
(* call_model_node                                                         *)

\* Mutant of MessageStart: message_started is never set.
MessageStartAgain(r) ==
    /\ events' = Emitted(r, <<"message_start">>)
    /\ UNCHANGED started

\* The first answer of the model opens the stream.
MessageStart(r) ==
    /\ events' = IF started[r] THEN events ELSE Emitted(r, <<"message_start">>)
    /\ started' = [started EXCEPT ![r] = @ \/ asked[r].stream]

\* route_after_call_model goes to the guardrail when no tool call is pending.
ModelAnswers(r, text) ==
    /\ Node(r, "call_model")
    /\ answer' = [answer EXCEPT ![r] = text]
    /\ MessageStart(r)
    /\ Goto(r, "output_guardrail")
    /\ UNCHANGED <<database, registry, asked, session, rounds, calls, result, error>>

ToolLimitExceeded(r) == rounds[r] >= ToolMaxRounds

ModelCallsTools(r, n) ==
    /\ Node(r, "call_model")
    /\ MessageStart(r)
    /\ IF ToolLimitExceeded(r)
       THEN /\ answer' = [answer EXCEPT ![r] = "round_limit"]
            /\ Goto(r, "output_guardrail")
            /\ UNCHANGED calls
       ELSE /\ answer' = [answer EXCEPT ![r] = NoAnswer]
            /\ calls' = [calls EXCEPT ![r] = n]
            /\ Goto(r, "execute_tools")
    /\ UNCHANGED <<database, registry, asked, session, rounds, result, error>>

ModelFails(r) ==
    /\ Node(r, "call_model")
    /\ \E e \in {"provider", "other"} : Fails(r, e)
    /\ UNCHANGED <<database, registry, asked, session, rounds, calls, result, answer, started, events>>

-----------------------------------------------------------------------------
(* execute_tools_node: the pending calls, one after the other              *)

\* Without a registry the calls are dropped and the model is asked again.
ExecuteTools(r) ==
    /\ Node(r, "execute_tools")
    /\ IF registry
       THEN /\ events' = Emitted(r, <<"tool_start">>)
            /\ Goto(r, "tool_load")
            /\ UNCHANGED calls
       ELSE /\ calls' = [calls EXCEPT ![r] = 0]
            /\ Goto(r, "call_model")
            /\ UNCHANGED events
    /\ UNCHANGED <<database, registry, asked, session, rounds, result, answer, started, error>>

\* create_tool_run: the SELECT of _get_or_create_conversation ...
LoadConversation(r, next) ==
    /\ ~ aborted[r]
    /\ found' = [found EXCEPT ![r] = Exists(r)]
    /\ IF OwnedByOther(r)
       THEN Fails(r, "ownership")
       ELSE Goto(r, next) /\ UNCHANGED error

ToolLoad(r) ==
    /\ pc[r] = "tool_load"
    /\ LoadConversation(r, "tool_insert")
    /\ UNCHANGED <<database, registry, asked, aborted, state>>

\* Mutant of InsertFails: INSERT ... ON CONFLICT DO UPDATE.
InsertOverwrites(r) == FALSE

\* ... and the commit: a conversation inserted meanwhile violates the primary key.
InsertFails(r) == ~ found[r] /\ Exists(r)

\* The row of a conversation that was not found is inserted with the request's owner.
WithConversation(r) ==
    owner' = IF found[r] THEN owner ELSE [owner EXCEPT ![Conv(r)] = asked[r].owner]

ToolInsert(r) ==
    /\ pc[r] = "tool_insert"
    /\ IF InsertFails(r)
       THEN Fails(r, "other") /\ UNCHANGED <<owner, toolRuns>>
       ELSE /\ WithConversation(r)
            /\ toolRuns' = [toolRuns EXCEPT ![r] = Append(@, "running")]
            /\ Goto(r, "tool_execute")
            /\ UNCHANGED error
    /\ UNCHANGED <<messages, registry, asked, session, state>>

\* registry.execute: what goes wrong in a tool is a result: rejected, timed_out and failed
\* are one here.  The search shares the session of the request; and a result that has no
\* JSON form, a number of too many digits, raises outside of the try.
ToolExecute(r) ==
    /\ pc[r] = "tool_execute"
    /\ \/ \E s \in {"completed", "failed"} :
             /\ result' = [result EXCEPT ![r] = s]
             /\ AbortedBy(r, s = "failed")
             /\ Goto(r, "tool_finish")
             /\ UNCHANGED error
       \/ Fails(r, "other") /\ UNCHANGED <<aborted, result>>
    /\ UNCHANGED <<database, registry, asked, found, nodes, rounds, calls, answer, started, events>>

\* Mutant of ToolFinish: the row is only updated after the last call.
ToolFinishLastOnly(r) ==
    /\ pc[r] = "tool_finish"
    /\ ~ aborted[r]
    /\ toolRuns' = IF calls[r] > 1 THEN toolRuns
                   ELSE [toolRuns EXCEPT ![r][Len(toolRuns[r])] = result[r]]
    /\ Goto(r, "tool_report")
    /\ UNCHANGED <<owner, messages, registry, asked, session, state, error>>

\* complete_tool_run or fail_tool_run commits the row ...
ToolFinish(r) ==
    /\ pc[r] = "tool_finish"
    /\ ~ aborted[r]
    /\ toolRuns' = [toolRuns EXCEPT ![r][Len(toolRuns[r])] = result[r]]
    /\ Goto(r, "tool_report")
    /\ UNCHANGED <<owner, messages, registry, asked, session, state, error>>

\* ... and, with the answer to the commit, the event is written; then the next call.
ToolReport(r) ==
    /\ pc[r] = "tool_report"
    /\ LET ended == IF result[r] = "completed" THEN "tool_complete" ELSE "tool_error"
       IN  IF calls[r] > 1
           THEN /\ events' = Emitted(r, <<ended, "tool_start">>)
                /\ Goto(r, "tool_load")
                /\ UNCHANGED rounds
           ELSE /\ events' = Emitted(r, <<ended>>)
                /\ rounds' = [rounds EXCEPT ![r] = @ + 1]
                /\ Goto(r, "call_model")
    /\ calls' = [calls EXCEPT ![r] = @ - 1]
    /\ UNCHANGED <<database, registry, asked, session, nodes, result, answer, started, error>>

-----------------------------------------------------------------------------
\* Mutant of Guarded: what is blocked is answered all the same.
GuardedIfRedacted(text) ==
    IF text = "sensitive" THEN {"redacted", text} ELSE {text, "refusal"}

\* What the guard makes of an answer: unchanged, redacted or replaced by the refusal.
Guarded(text) == IF text = "sensitive" THEN {"redacted", "refusal"} ELSE {text, "refusal"}

\* output_guardrail_node.  A guard that raises anything else fails the run.
OutputGuardrail(r) ==
    /\ Node(r, "output_guardrail")
    /\ IF GuardEnabled
       THEN \/ /\ \E t \in Guarded(answer[r]) : answer' = [answer EXCEPT ![r] = t]
               /\ Goto(r, "persist_load")
               /\ UNCHANGED error
            \/ Fails(r, "other") /\ UNCHANGED answer
       ELSE Goto(r, "persist_load") /\ UNCHANGED <<answer, error>>
    /\ UNCHANGED <<database, registry, asked, session, rounds, calls, result, started, events>>

\* Mutant of PersistLoad: the reply is streamed before the exchange is stored.
PersistStreamsFirst(r) ==
    /\ Node(r, "persist_load")
    /\ LoadConversation(r, "persist_commit")
    /\ events' = Emitted(r, <<"message_delta", "message_complete">>)
    /\ UNCHANGED <<database, registry, asked, aborted, rounds, calls, result, answer, started>>

\* persist_response_node: append_exchange's SELECT ...
PersistLoad(r) ==
    /\ Node(r, "persist_load")
    /\ LoadConversation(r, "persist_commit")
    /\ UNCHANGED <<database, registry, asked, aborted, rounds, calls, result, answer, started, events>>

Exchange(r) == <<[role |-> "user", by |-> r, text |-> "user"],
                 [role |-> "assistant", by |-> r, text |-> answer[r]]>>

StoreExchange(r) ==
    /\ WithConversation(r)
    /\ messages' = [messages EXCEPT ![Conv(r)] = @ \o Exchange(r)]

\* ... and its commit ...
PersistCommit(r) ==
    /\ pc[r] = "persist_commit"
    /\ IF InsertFails(r)
       THEN Fails(r, "other") /\ UNCHANGED <<owner, messages>>
       ELSE /\ StoreExchange(r)
            /\ Goto(r, "persist_stream")
            /\ UNCHANGED error
    /\ UNCHANGED <<toolRuns, registry, asked, session, state>>

\* ... and, with the answer to the commit, the reply is streamed.
PersistStream(r) ==
    /\ pc[r] = "persist_stream"
    /\ events' = Emitted(r, <<"message_delta", "message_complete">>)
    /\ Goto(r, "write_memory")
    /\ UNCHANGED <<database, registry, asked, session, nodes, rounds, calls, result, answer,
                   started, error>>

\* Mutant of WriteMemory: an error of the memory store sends the run back to persist.
WriteMemoryRetries(r) ==
    /\ Node(r, "write_memory")
    /\ Goto(r, "persist_load") \/ Goto(r, "finishing")
    /\ UNCHANGED <<database, registry, asked, session, rounds, calls, result, answer, started,
                   events, error>>

\* Mutant of WriteMemory: its errors are not swallowed.
WriteMemoryRaises(r) ==
    /\ Node(r, "write_memory")
    /\ (Goto(r, "finishing") /\ UNCHANGED error) \/ Fails(r, "provider")
    /\ UNCHANGED <<database, registry, asked, session, rounds, calls, result, answer, started, events>>

\* write_memory_node: its errors are swallowed.
WriteMemory(r) ==
    /\ Node(r, "write_memory")
    /\ Goto(r, "finishing")
    /\ UNCHANGED <<database, registry, asked, session, rounds, calls, result, answer, started,
                   events, error>>

\* After the last node LangGraph waits for the checkpoints still to be written; the run is
\* over.
Finish(r) ==
    /\ pc[r] = "finishing"
    /\ Goto(r, "completed")
    /\ UNCHANGED <<database, registry, asked, session, state, error>>

-----------------------------------------------------------------------------
\* The database raises, as it must in an aborted transaction: the session is rolled back
\* and the run fails.
DatabaseFails(r) ==
    /\ "db_error" \in Faults
    /\ pc[r] \in DatabasePc
    /\ Fails(r, "other")
    /\ aborted' = [aborted EXCEPT ![r] = FALSE]
    /\ UNCHANGED <<database, registry, asked, found, state>>

\* A commit raises although the database took it.
AnswerLost(r) ==
    /\ "ambiguous_commit" \in Faults
    /\ pc[r] \in {"tool_execute", "tool_report", "persist_stream"}
    /\ Fails(r, "other")
    /\ UNCHANGED <<database, registry, asked, session, state>>

\* The checkpointer, which keeps the state of the graph in a database of its own, raises: when
\* a run begins, between two nodes, or after the last one.
CheckpointFails(r) ==
    /\ "checkpoint_error" \in Faults
    /\ pc[r] \in NodePc \union {"finishing"}
    /\ Fails(r, "other")
    /\ UNCHANGED <<database, registry, asked, session, state>>

\* The generator that streams the run is closed: the run is cancelled at its await.
Cancel(r) ==
    /\ pc[r] \in WorkingPc
    /\ Goto(r, "interrupted")
    /\ UNCHANGED <<database, registry, asked, session, state, error>>

\* The process dies with every run in it; what was committed stays.
Crash ==
    /\ "crash" \in Faults
    /\ \E r \in Requests : pc[r] \in WorkingPc
    /\ pc' = [r \in Requests |-> IF pc[r] \in WorkingPc THEN "interrupted" ELSE pc[r]]
    /\ UNCHANGED <<database, registry, asked, session, state, error>>

Init ==
    /\ owner = [c \in Convs |-> NoRow]
    /\ messages = [c \in Convs |-> <<>>]
    /\ toolRuns = [r \in Requests |-> <<>>]
    /\ registry \in Registries
    /\ asked = [r \in Requests |-> NoAsk]
    /\ pc = [r \in Requests |-> "new"]
    /\ found = [r \in Requests |-> FALSE]
    /\ aborted = [r \in Requests |-> FALSE]
    /\ nodes = [r \in Requests |-> 0]
    /\ rounds = [r \in Requests |-> 0]
    /\ calls = [r \in Requests |-> 0]
    /\ result = [r \in Requests |-> "running"]
    /\ answer = [r \in Requests |-> NoAnswer]
    /\ started = [r \in Requests |-> FALSE]
    /\ events = [r \in Requests |-> <<>>]
    /\ error = [r \in Requests |-> "none"]

CallModel(r) ==
    \/ \E text \in ModelText : ModelAnswers(r, text)
    \/ \E n \in 1 .. MaxCalls : ModelCallsTools(r, n)
    \/ ModelFails(r)

\* What a run does of itself.
Proceeds(r) ==
    \/ LoadContext(r)
    \/ LoadMemory(r)
    \/ CallModel(r)
    \/ ExecuteTools(r)
    \/ ToolLoad(r)
    \/ ToolInsert(r)
    \/ ToolExecute(r)
    \/ ToolFinish(r)
    \/ ToolReport(r)
    \/ OutputGuardrail(r)
    \/ PersistLoad(r)
    \/ PersistCommit(r)
    \/ PersistStream(r)
    \/ WriteMemory(r)
    \/ Finish(r)
    \/ RecursionExceeded(r)

\* What the database and the checkpointer do to a run.
IsFailed(r) == DatabaseFails(r) \/ AnswerLost(r) \/ CheckpointFails(r)

Next ==
    \/ \E r \in Requests, a \in Ask : Start(r, a)
    \/ \E r \in Requests : Proceeds(r) \/ IsFailed(r) \/ Cancel(r)
    \/ Crash

Spec == Init /\ [][Next]_vars

-----------------------------------------------------------------------------
(* Properties                                                              *)

TypeOK ==
    /\ owner \in [Convs -> Owners \union {NoRow}]
    /\ messages \in [Convs -> Seq(Message)]
    /\ toolRuns \in [Requests -> Seq(RunStatus)]
    /\ registry \in BOOLEAN
    /\ asked \in [Requests -> Ask \union {NoAsk}]
    /\ pc \in [Requests -> Pc]
    /\ found \in [Requests -> BOOLEAN]
    /\ aborted \in [Requests -> BOOLEAN]
    /\ nodes \in [Requests -> 0 .. RecursionLimit]
    /\ rounds \in [Requests -> 0 .. ToolMaxRounds]
    /\ calls \in [Requests -> 0 .. MaxCalls]
    /\ result \in [Requests -> RunStatus]
    /\ answer \in [Requests -> Answer \union {NoAnswer}]
    /\ started \in [Requests -> BOOLEAN]
    /\ events \in [Requests -> Seq(Event)]
    /\ error \in [Requests -> Error]

Stored(r) == \E c \in Convs : \E i \in 1 .. Len(messages[c]) : messages[c][i].by = r

\* Every conversation is a sequence of whole exchanges, at most one of a request, and
\* what is stored as the answer is the answer the run ended with, however many requests
\* write to the conversation at once.
ExchangesWhole ==
    \A c \in Convs :
        LET log == messages[c]
            asks == {i \in 1 .. Len(log) : i % 2 = 1}
        IN  /\ Len(log) % 2 = 0
            /\ \A i \in asks :
                  /\ asked[log[i].by].conv = c
                  /\ log[i].role = "user"
                  /\ log[i + 1] = [role |-> "assistant", by |-> log[i].by,
                                   text |-> answer[log[i].by]]
            /\ \A i, j \in asks : log[i].by = log[j].by => i = j

\* With authentication on, whatever a request has written, messages or tool runs, is in a
\* conversation of its owner: also when two users race to create the same id.
OwnedConversations ==
    \A r \in Requests :
        (Stored(r) \/ toolRuns[r] # <<>>) /\ asked[r].owner # NoOwner =>
            owner[Conv(r)] = asked[r].owner

\* The events a client may be sent next, after each one.
After == [begin |-> {"message_start"},
          message_start |-> {"tool_start", "message_delta"},
          tool_start |-> {"tool_complete", "tool_error"},
          tool_complete |-> {"tool_start", "message_delta"},
          tool_error |-> {"tool_start", "message_delta"},
          message_delta |-> {"message_complete"},
          message_complete |-> {}]

\* A stream opens once, brackets every tool call, and ends with the answer.
StreamWellFormed ==
    \A r \in Requests : \A i \in 1 .. Len(events[r]) :
        events[r][i] \in After[IF i = 1 THEN "begin" ELSE events[r][i - 1]]

Ended(e) == e \in {"tool_complete", "tool_error"}
Settled(s) == s # "running"

\* An event reports the status of a tool run.
Reports(e, s) == \/ e = "tool_complete" /\ s = "completed"
                 \/ e = "tool_error" /\ s = "failed"

\* A stream and the database never disagree: the k-th pair of events after message_start
\* ends with the status stored for the k-th tool call, and no event is ahead of its row.  Only
\* the last row may be settled without its event, where the run is about to write it or was
\* ended between the commit and the event.  A completed message is stored.
StreamTruthful ==
    \A r \in Requests :
        /\ asked[r].stream =>
              /\ \A k \in 1 .. Len(toolRuns[r]) : Settled(toolRuns[r][k]) =>
                    \/ /\ 2 * k + 1 <= Len(events[r])
                       /\ Reports(events[r][2 * k + 1], toolRuns[r][k])
                    \/ /\ k = Len(toolRuns[r])
                       /\ pc[r] \in {"tool_report", "failed", "interrupted"}
              /\ \A i \in 1 .. Len(events[r]) : Ended(events[r][i]) =>
                    \E k \in 1 .. Len(toolRuns[r]) :
                        i = 2 * k + 1 /\ Reports(events[r][i], toolRuns[r][k])
        /\ "message_complete" \in {events[r][i] : i \in 1 .. Len(events[r])} => Stored(r)

\* A run has at most one tool run open, its last, and none once it leaves the tools,
\* unless it failed or was interrupted in the middle of the call.
ToolRunsSettled ==
    \A r \in Requests : \A i \in 1 .. Len(toolRuns[r]) :
        toolRuns[r][i] = "running" =>
            /\ i = Len(toolRuns[r])
            /\ pc[r] \in {"tool_execute", "tool_finish", "failed", "interrupted"}

\* With an output guard, no answer of the model that the guard would redact or block is
\* stored.  PersistCommit streams and returns the same answer it stores.
GuardedAnswers ==
    GuardEnabled =>
        \A c \in Convs : \A i \in 1 .. Len(messages[c]) : messages[c][i].text # "sensitive"

\* With tools, the tool loop ends with the round-limit answer, and never with LangGraph's
\* recursion error, as long as that limit leaves room for two nodes a round and six more.
LoopWithinLimit ==
    registry /\ RecursionLimit >= 2 * ToolMaxRounds + 6 =>
        \A r \in Requests : pc[r] \in NodePc => nodes[r] < RecursionLimit
=============================================================================
