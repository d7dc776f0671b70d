----------------------------- MODULE ChatProofs -----------------------------
(***************************************************************************)
(* What holds of POST /chat for any number of requests, conversations and  *)
(* owners, any tool limit and whatever faults happen.                      *)
(*                                                                         *)
(* A step of one request leaves the run of every other as it is: they meet *)
(* only in the rows of the conversations.  So each part of the invariant   *)
(* is shown for the request that steps, and what it did to the rows is     *)
(* summed up once.                                                         *)
(***************************************************************************)
EXTENDS ChatEndpoint, SequenceTheorems, TLAPS

Step(r) ==
    \/ \E a \in Ask : Start(r, a)
    \/ Proceeds(r)
    \/ IsFailed(r)
    \/ Cancel(r)

\* What only the request itself writes.
Own(r) == <<asked[r], pc[r], found[r], nodes[r], rounds[r], calls[r], result[r],
            answer[r], started[r], events[r], error[r], toolRuns[r]>>

AtTools == {"execute_tools", "tool_load", "tool_insert", "tool_execute", "tool_finish",
            "tool_report"}

\* What a run holds at each of its awaits.
Progress(r) ==
    /\ pc[r] = "new" => toolRuns[r] = <<>> /\ events[r] = <<>>
    /\ pc[r] # "new" => asked[r] \in Ask
    /\ pc[r] \in AtTools => calls[r] > 0 /\ rounds[r] < ToolMaxRounds
    /\ pc[r] \in {"tool_execute", "tool_finish", "tool_report"} => toolRuns[r] # <<>>
    /\ pc[r] \in {"tool_finish", "tool_report"} => result[r] \in {"completed", "failed"}
    /\ pc[r] \in {"output_guardrail", "persist_load", "persist_commit"} =>
          answer[r] \in Answer

Inv == TypeOK /\ \A r \in Requests : Progress(r)

-----------------------------------------------------------------------------
\* Events are appended to the stream of a request that has one, and to no other.
LEMMA EmittedFacts ==
    ASSUME events \in [Requests -> Seq(Event)], asked \in [Requests -> Ask \union {NoAsk}],
           NEW r \in Requests, NEW new \in Seq(Event)
    PROVE  /\ Emitted(r, new) \in [Requests -> Seq(Event)]
           /\ \A q \in Requests : q # r => Emitted(r, new)[q] = events[q]
           /\ Emitted(r, new)[r] = IF asked[r].stream THEN events[r] \o new ELSE events[r]
<1>1. events[r] \o new \in Seq(Event)
  OBVIOUS
<1> QED
  BY <1>1 DEF Emitted

\* The events the nodes emit together.
LEMMA EventLists ==
    /\ <<"message_start">> \in Seq(Event)
    /\ <<"tool_start">> \in Seq(Event)
    /\ <<"message_delta", "message_complete">> \in Seq(Event)
    /\ \A e \in {"tool_complete", "tool_error"} :
          <<e>> \in Seq(Event) /\ <<e, "tool_start">> \in Seq(Event)
BY DEF Event

\* MessageStart in the words of the state.
LEMMA MessageStartFacts ==
    ASSUME TypeOK, NEW r \in Requests, MessageStart(r)
    PROVE  /\ events' \in [Requests -> Seq(Event)]
           /\ started' \in [Requests -> BOOLEAN]
           /\ \A q \in Requests : q # r => events'[q] = events[q] /\ started'[q] = started[q]
<1>1. PICK new \in Seq(Event) : events' = events \/ events' = Emitted(r, new)
  BY EventLists DEF MessageStart
<1>2. events' \in [Requests -> Seq(Event)] /\ \A q \in Requests : q # r => events'[q] = events[q]
  <2>1. CASE events' = events
    BY <2>1 DEF TypeOK
  <2>2. CASE events' = Emitted(r, new)
    BY <2>2, EmittedFacts DEF TypeOK
  <2> QED
    BY <1>1, <2>1, <2>2
<1>3. asked[r].stream \in BOOLEAN
  <2>1. CASE asked[r] \in Ask
    BY <2>1 DEF Ask
  <2>2. CASE asked[r] = NoAsk
    BY <2>2 DEF NoAsk
  <2> QED
    BY <2>1, <2>2 DEF TypeOK
<1>4. started \in [Requests -> BOOLEAN]
  BY DEF TypeOK
<1>5. started' = [started EXCEPT ![r] = started[r] \/ asked[r].stream]
  BY DEF MessageStart
<1>6. started[r] \/ asked[r].stream \in BOOLEAN
  BY <1>3, <1>4
<1>7. started' \in [Requests -> BOOLEAN] /\ \A q \in Requests : q # r => started'[q] = started[q]
  BY <1>3, <1>4, <1>5, <1>6, Zenon
<1> QED
  BY <1>2, <1>7

\* ToolFinish in the words of the state.
LEMMA ToolFinishFacts ==
    ASSUME Inv, NEW r \in Requests, ToolFinish(r)
    PROVE  /\ toolRuns' \in [Requests -> Seq(RunStatus)]
           /\ \A q \in Requests : q # r => toolRuns'[q] = toolRuns[q]
           /\ Len(toolRuns'[r]) = Len(toolRuns[r])
           /\ toolRuns[r] # <<>>
           /\ toolRuns'[r] = [toolRuns[r] EXCEPT ![Len(toolRuns[r])] = result[r]]
<1>4. toolRuns[r] \in Seq(RunStatus) /\ toolRuns[r] # <<>> /\ result[r] \in RunStatus
  BY DEF Inv, TypeOK, Progress, ToolFinish
<1>5. toolRuns' = [toolRuns EXCEPT ![r] = [toolRuns[r] EXCEPT ![Len(toolRuns[r])] = result[r]]]
  BY DEF ToolFinish
<1>6. [toolRuns[r] EXCEPT ![Len(toolRuns[r])] = result[r]] \in Seq(RunStatus)
  BY <1>4
<1>7. toolRuns \in [Requests -> Seq(RunStatus)]
  BY DEF Inv, TypeOK
<1>8. toolRuns'[r] = [toolRuns[r] EXCEPT ![Len(toolRuns[r])] = result[r]]
  BY <1>5, <1>7
<1>9. Len(toolRuns'[r]) = Len(toolRuns[r])
  BY <1>4, <1>8
<1>10. toolRuns' \in [Requests -> Seq(RunStatus)] /\ \A q \in Requests : q # r => toolRuns'[q] = toolRuns[q]
  BY <1>5, <1>6, <1>7
<1> QED
  BY <1>4, <1>8, <1>9, <1>10

\* ToolReport adds the event of the call that ended and, if there is one, of the next.
LEMMA ToolReportFacts ==
    ASSUME Inv, NEW r \in Requests, ToolReport(r)
    PROVE  /\ events' \in [Requests -> Seq(Event)]
           /\ \A q \in Requests : q # r => events'[q] = events[q]
<1> DEFINE ended == IF result[r] = "completed" THEN "tool_complete" ELSE "tool_error"
<1>1. PICK new \in Seq(Event) : events' = Emitted(r, new)
  <2>1. ended \in {"tool_complete", "tool_error"}
    OBVIOUS
  <2>2. events' = Emitted(r, <<ended>>) \/ events' = Emitted(r, <<ended, "tool_start">>)
    BY DEF ToolReport
  <2> HIDE DEF ended
  <2> QED
    BY <2>1, <2>2, EventLists, Zenon
<1> QED
  BY <1>1, EmittedFacts DEF Inv, TypeOK

\* An exchange is a question and an answer.
LEMMA ExchangeFacts ==
    ASSUME TypeOK, NEW r \in Requests, answer[r] \in Answer
    PROVE  /\ Exchange(r) \in Seq(Message)
           /\ Len(Exchange(r)) = 2
           /\ Exchange(r)[1] = [role |-> "user", by |-> r, text |-> "user"]
           /\ Exchange(r)[2] = [role |-> "assistant", by |-> r, text |-> answer[r]]
<1>1. [role |-> "user", by |-> r, text |-> "user"] \in Message
  BY DEF Message
<1>2. [role |-> "assistant", by |-> r, text |-> answer[r]] \in Message
  BY DEF Message
<1> QED
  BY <1>1, <1>2 DEF Exchange

-----------------------------------------------------------------------------
\* The run of another request is where it was.
LEMMA Frame ==
    ASSUME Inv, NEW r \in Requests, NEW q \in Requests, q # r, Step(r)
    PROVE  UNCHANGED <<registry, Own(q)>>
<1>e. ASSUME NEW new \in Seq(Event), events' = events \/ events' = Emitted(r, new)
      PROVE  events'[q] = events[q]
  <2>1. Emitted(r, new)[q] = events[q]
    BY EmittedFacts DEF Inv, TypeOK
  <2> QED
    BY <1>e, <2>1
<1>t. ToolFinish(r) => UNCHANGED toolRuns[q]
  BY ToolFinishFacts
<1>p. ToolReport(r) => UNCHANGED events[q]
  BY ToolReportFacts
<1>s. MessageStart(r) => UNCHANGED <<events[q], started[q]>>
  BY MessageStartFacts DEF Inv
<1> USE DEF Inv, TypeOK, Own, database, session, state, Goto, Fails, Node, AbortedBy
<1>1. CASE \E a \in Ask : Start(r, a)
  BY <1>1 DEF Start
<1>2. CASE LoadContext(r)
  BY <1>2 DEF LoadContext
<1>3. CASE LoadMemory(r)
  BY <1>3 DEF LoadMemory
<1>4. CASE CallModel(r)
  <2>1. ASSUME NEW text \in ModelText, ModelAnswers(r, text)
        PROVE  UNCHANGED <<registry, Own(q)>>
    <3>1. events'[q] = events[q] /\ started'[q] = started[q]
      BY <2>1, <1>s DEF ModelAnswers
    <3> QED
      BY <2>1, <3>1 DEF ModelAnswers
  <2>2. ASSUME NEW n \in 1 .. MaxCalls, ModelCallsTools(r, n)
        PROVE  UNCHANGED <<registry, Own(q)>>
    <3>1. events'[q] = events[q] /\ started'[q] = started[q]
      BY <2>2, <1>s DEF ModelCallsTools
    <3> QED
      BY <2>2, <3>1 DEF ModelCallsTools
  <2>3. CASE ModelFails(r)
    BY <2>3 DEF ModelFails
  <2> QED
    BY <1>4, <2>1, <2>2, <2>3 DEF CallModel
<1>5. CASE ExecuteTools(r)
  <2>1. \E new \in Seq(Event) : events' = events \/ events' = Emitted(r, new)
    BY <1>5, EventLists DEF ExecuteTools
  <2> QED
    BY <1>e, <1>5, <2>1 DEF ExecuteTools
<1>6. CASE ToolLoad(r)
  BY <1>6 DEF ToolLoad, LoadConversation
<1>7. CASE ToolInsert(r)
  BY <1>7 DEF ToolInsert
<1>8. CASE ToolExecute(r)
  BY <1>8 DEF ToolExecute
<1>9. CASE ToolFinish(r)
  BY <1>9, <1>t DEF ToolFinish
<1>10. CASE OutputGuardrail(r)
  BY <1>10 DEF OutputGuardrail
<1>11. CASE PersistLoad(r)
  BY <1>11 DEF PersistLoad, LoadConversation
<1>12. CASE PersistCommit(r)
  BY <1>12 DEF PersistCommit
<1>13. CASE WriteMemory(r)
  BY <1>13 DEF WriteMemory
<1>14. CASE RecursionExceeded(r)
  BY <1>14 DEF RecursionExceeded
<1>15. CASE AnswerLost(r)
  BY <1>15 DEF AnswerLost
<1>16. CASE DatabaseFails(r)
  BY <1>16 DEF DatabaseFails
<1>17. CASE Cancel(r)
  BY <1>17 DEF Cancel
<1>18. CASE CheckpointFails(r)
  BY <1>18 DEF CheckpointFails, NodePc
<1>19. CASE ToolReport(r)
  BY <1>19, <1>p DEF ToolReport
<1>20. CASE PersistStream(r)
  <2>1. \E new \in Seq(Event) : events' = events \/ events' = Emitted(r, new)
    BY <1>20, EventLists DEF PersistStream
  <2> QED
    BY <1>e, <1>20, <2>1 DEF PersistStream
<1>21. CASE Finish(r)
  BY <1>21 DEF Finish
<1> QED
  BY <1>1, <1>2, <1>3, <1>4, <1>5, <1>6, <1>7, <1>8, <1>9, <1>10, <1>11, <1>12, <1>13,
     <1>14, <1>15, <1>16, <1>17, <1>18, <1>19, <1>20, <1>21 DEF Step, Proceeds, IsFailed

\* Types are kept, one step per action.
LEMMA StepTypes ==
    ASSUME Inv, NEW r \in Requests, Step(r)
    PROVE  TypeOK'
<1>0. ASSUME NEW new \in Seq(Event), events' = events \/ events' = Emitted(r, new)
      PROVE  events' \in [Requests -> Seq(Event)]
  <2>1. Emitted(r, new) \in [Requests -> Seq(Event)]
    BY EmittedFacts DEF Inv, TypeOK
  <2>2. events \in [Requests -> Seq(Event)]
    BY DEF Inv, TypeOK
  <2> QED
    BY <1>0, <2>1, <2>2
<1>00. /\ ToolFinish(r) => toolRuns' \in [Requests -> Seq(RunStatus)]
       /\ ToolReport(r) => events' \in [Requests -> Seq(Event)]
  BY ToolFinishFacts, ToolReportFacts
<1>a. /\ answer[r] \in Answer /\ StoreExchange(r) => messages' \in [Convs -> Seq(Message)]
      /\ pc[r] # "new" /\ WithConversation(r) => owner' \in [Convs -> Owners \union {NoRow}]
  <2>1. ASSUME answer[r] \in Answer, StoreExchange(r)
        PROVE  messages' \in [Convs -> Seq(Message)]
    <3>1. Exchange(r) \in Seq(Message)
      BY <2>1, ExchangeFacts DEF Inv
    <3>2. messages \in [Convs -> Seq(Message)]
      BY DEF Inv, TypeOK
    <3>3. messages' = [messages EXCEPT ![Conv(r)] = messages[Conv(r)] \o Exchange(r)]
      BY <2>1 DEF StoreExchange
    <3>4. Conv(r) \in Convs => messages[Conv(r)] \o Exchange(r) \in Seq(Message)
      BY <3>1, <3>2
    <3> QED
      BY <3>2, <3>3, <3>4
  <2>2. ASSUME pc[r] # "new", WithConversation(r)
        PROVE  owner' \in [Convs -> Owners \union {NoRow}]
    <3>1. asked[r].owner \in Owners
      BY <2>2 DEF Inv, Progress, Ask
    <3> QED
      BY <2>2, <3>1 DEF WithConversation, Inv, TypeOK
  <2> QED
    BY <2>1, <2>2
<1>b. /\ ToolMaxRounds \in Nat /\ RecursionLimit \in Nat /\ MaxCalls \in Nat
      /\ ModelText \subseteq {"clean", "sensitive"}
  BY WorkflowAssumption
<1>n. \A p : Node(r, p) => nodes' \in [Requests -> 0 .. RecursionLimit]
  BY <1>b DEF Node, Inv, TypeOK
<1>c. DatabasePc \subseteq Pc /\ WorkingPc \subseteq Pc /\ {"failed", "completed", "interrupted"} \subseteq Pc
  BY DEF DatabasePc, WorkingPc, Pc, EndPc
<1>d. \A p \in {"load_memory", "call_model", "execute_tools", "tool_execute", "output_guardrail",
                "write_memory", "load_context", "tool_load", "tool_insert", "tool_finish",
                "tool_report", "persist_load", "persist_commit", "persist_stream", "finishing",
                "completed", "interrupted"} : p \in Pc
  BY DEF DatabasePc, WorkingPc, Pc, EndPc
<1>e. Progress(r)
  BY DEF Inv
<1>m. \A may \in BOOLEAN : AbortedBy(r, may) => aborted' \in [Requests -> BOOLEAN]
  BY DEF AbortedBy, Inv, TypeOK
<1>p. \A p : Goto(r, p) /\ p \in Pc => pc' \in [Requests -> Pc]
  BY DEF Goto, Inv, TypeOK
<1>f. \A e \in Error : Fails(r, e) => pc' \in [Requests -> Pc] /\ error' \in [Requests -> Error]
  BY <1>c DEF Fails, Inv, TypeOK
<1>h. /\ calls \in [Requests -> 0 .. MaxCalls] /\ rounds \in [Requests -> 0 .. ToolMaxRounds]
      /\ answer \in [Requests -> Answer \union {NoAnswer}]
      /\ result \in [Requests -> RunStatus]
  BY DEF Inv, TypeOK
<1>g. {"provider", "ownership", "other"} \subseteq Error
  BY DEF Error
<1> USE <1>b, <1>d, <1>n, <1>m, <1>p, <1>f, <1>g, <1>h
<1> USE DEF Inv, TypeOK, database, session, state
<1>1. CASE \E a \in Ask : Start(r, a)
  BY <1>1 DEF Start
<1>2. CASE LoadContext(r)
  BY <1>2 DEF LoadContext
<1>3. CASE LoadMemory(r)
  BY <1>3 DEF LoadMemory
<1>4. CASE CallModel(r)
  <2>1. ASSUME NEW text \in ModelText, ModelAnswers(r, text)
        PROVE  TypeOK'
    BY <2>1, MessageStartFacts DEF ModelAnswers, Answer
  <2>2. ASSUME NEW n \in 1 .. MaxCalls, ModelCallsTools(r, n)
        PROVE  TypeOK'
    <3>1. answer' \in [Requests -> Answer \union {NoAnswer}]
      BY ONLY <1>h, <2>2 DEF ModelCallsTools, Answer
    <3>4. calls' \in [Requests -> 0 .. MaxCalls]
      BY ONLY <1>b, <1>h, <2>2 DEF ModelCallsTools
    <3>2. events' \in [Requests -> Seq(Event)] /\ started' \in [Requests -> BOOLEAN]
      BY <2>2, MessageStartFacts DEF ModelCallsTools
    <3>3. pc' \in [Requests -> Pc]
      BY <2>2 DEF ModelCallsTools
    <3> QED
      BY <2>2, <3>1, <3>2, <3>3, <3>4 DEF ModelCallsTools
  <2>3. CASE ModelFails(r)
    BY <2>3 DEF ModelFails
  <2> QED
    BY <1>4, <2>1, <2>2, <2>3 DEF CallModel
<1>5. CASE ExecuteTools(r)
  <2>1. \E new \in Seq(Event) : events' = events \/ events' = Emitted(r, new)
    BY <1>5, EventLists DEF ExecuteTools
  <2>2. events' \in [Requests -> Seq(Event)]
    BY <1>0, <2>1
  <2>3. calls' \in [Requests -> 0 .. MaxCalls]
    BY ONLY <1>b, <1>h, <1>5 DEF ExecuteTools
  <2>4. pc' \in [Requests -> Pc]
    BY <1>5 DEF ExecuteTools
  <2> QED
    BY <1>5, <2>2, <2>3, <2>4 DEF ExecuteTools
<1>6. CASE ToolLoad(r)
  BY <1>6 DEF ToolLoad, LoadConversation, Exists
<1>7. CASE ToolInsert(r)
  <2>1. Append(toolRuns[r], "running") \in Seq(RunStatus)
    BY DEF RunStatus
  <2>2. owner' \in [Convs -> Owners \union {NoRow}]
    BY <1>7, <1>a DEF ToolInsert
  <2>3. toolRuns' \in [Requests -> Seq(RunStatus)]
    BY <1>7, <2>1 DEF ToolInsert
  <2>4. pc' \in [Requests -> Pc] /\ error' \in [Requests -> Error]
    BY <1>7 DEF ToolInsert
  <2> QED
    BY <1>7, <2>2, <2>3, <2>4 DEF ToolInsert
<1>8. CASE ToolExecute(r)
  <2>1. result' \in [Requests -> RunStatus]
    BY ONLY <1>h, <1>8 DEF ToolExecute, RunStatus
  <2>3. aborted' \in [Requests -> BOOLEAN]
    BY <1>8, <1>m DEF ToolExecute
  <2>2. pc' \in [Requests -> Pc] /\ error' \in [Requests -> Error]
    BY <1>8 DEF ToolExecute
  <2> QED
    BY <1>8, <2>1, <2>2, <2>3 DEF ToolExecute
<1>9. CASE ToolFinish(r)
  BY <1>9, <1>00 DEF ToolFinish
<1>10. CASE OutputGuardrail(r)
  BY <1>10 DEF OutputGuardrail, Guarded, Answer
<1>11. CASE PersistLoad(r)
  BY <1>11 DEF PersistLoad, LoadConversation, Exists
<1>12. CASE PersistCommit(r)
  <2>1. answer[r] \in Answer /\ pc[r] # "new"
    BY <1>12, <1>e DEF PersistCommit, Progress
  <2>2. owner' \in [Convs -> Owners \union {NoRow}] /\ messages' \in [Convs -> Seq(Message)]
    BY <1>12, <1>a, <2>1 DEF PersistCommit, StoreExchange
  <2> QED
    BY <1>12, <2>2 DEF PersistCommit
<1>13. CASE WriteMemory(r)
  BY <1>13 DEF WriteMemory
<1>14. CASE RecursionExceeded(r)
  BY <1>14 DEF RecursionExceeded
<1>15. CASE AnswerLost(r)
  BY <1>15 DEF AnswerLost
<1>16. CASE DatabaseFails(r)
  BY <1>16 DEF DatabaseFails
<1>17. CASE Cancel(r)
  BY <1>17 DEF Cancel
<1>18. CASE CheckpointFails(r)
  BY <1>18 DEF CheckpointFails, NodePc
<1>19. CASE ToolReport(r)
  <2>0. calls[r] > 0 /\ rounds[r] < ToolMaxRounds
    BY <1>19, <1>e DEF ToolReport, Progress, AtTools
  <2>5. calls[r] - 1 \in 0 .. MaxCalls /\ rounds[r] + 1 \in 0 .. ToolMaxRounds
    BY ONLY <1>b, <1>h, <2>0, r \in Requests
  <2>1. calls' \in [Requests -> 0 .. MaxCalls]
    BY ONLY <1>h, <1>19, <2>5 DEF ToolReport
  <2>4. rounds' \in [Requests -> 0 .. ToolMaxRounds]
    BY ONLY <1>h, <1>19, <2>5 DEF ToolReport
  <2>3. pc' \in [Requests -> Pc]
    BY <1>19 DEF ToolReport
  <2>2. events' \in [Requests -> Seq(Event)]
    BY <1>19, <1>00
  <2> QED
    BY <1>19, <2>1, <2>2, <2>3, <2>4 DEF ToolReport
<1>20. CASE PersistStream(r)
  <2>1. \E new \in Seq(Event) : events' = events \/ events' = Emitted(r, new)
    BY <1>20, EventLists DEF PersistStream
  <2>2. events' \in [Requests -> Seq(Event)]
    BY <1>0, <2>1
  <2> QED
    BY <1>20, <2>2 DEF PersistStream
<1>21. CASE Finish(r)
  BY <1>21 DEF Finish
<1> QED
  BY <1>1, <1>2, <1>3, <1>4, <1>5, <1>6, <1>7, <1>8, <1>9, <1>10, <1>11, <1>12, <1>13,
     <1>14, <1>15, <1>16, <1>17, <1>18, <1>19, <1>20, <1>21 DEF Step, Proceeds, IsFailed

\* Where a run goes, in the words of the state.
LEMMA Moves ==
    ASSUME Inv, NEW r \in Requests
    PROVE  /\ \A p : Goto(r, p) => pc'[r] = p
           /\ \A e : Fails(r, e) => pc'[r] = "failed" /\ error'[r] = e
           /\ \A p : Node(r, p) => pc[r] = p /\ nodes'[r] = nodes[r] + 1
BY DEF Inv, TypeOK, Goto, Fails, Node

\* The request that steps holds what it needs at the await it comes to.
LEMMA StepProgress ==
    ASSUME Inv, NEW r \in Requests, Step(r)
    PROVE  Progress(r)'
<1>a. Progress(r)
  BY DEF Inv
<1>b. /\ calls[r] \in 0 .. MaxCalls /\ rounds[r] \in 0 .. ToolMaxRounds
      /\ ToolMaxRounds \in Nat /\ MaxCalls \in Nat
      /\ \A t \in ModelText : t \in Answer
      /\ "round_limit" \in Answer /\ "redacted" \in Answer /\ "refusal" \in Answer
      /\ answer \in [Requests -> Answer \union {NoAnswer}]
      /\ asked \in [Requests -> Ask \union {NoAsk}]
      /\ calls \in [Requests -> 0 .. MaxCalls] /\ rounds \in [Requests -> 0 .. ToolMaxRounds]
      /\ toolRuns \in [Requests -> Seq(RunStatus)]
      /\ result \in [Requests -> RunStatus]
  BY WorkflowAssumption DEF Inv, TypeOK, Answer
<1>c. TypeOK
  BY DEF Inv
<1>1. CASE \E a \in Ask : Start(r, a)
  BY <1>1, <1>a, <1>b, Moves DEF Start, Progress, AtTools, database, session, state
<1>2. CASE LoadContext(r)
  BY <1>2, <1>a, <1>b, Moves DEF LoadContext, Progress, AtTools, database, session, state
<1>3. CASE LoadMemory(r)
  BY <1>3, <1>a, <1>b, Moves DEF LoadMemory, Progress, AtTools, database, session, state
<1>4. CASE CallModel(r)
  <2>1. ASSUME NEW text \in ModelText, ModelAnswers(r, text)
        PROVE  Progress(r)'
    BY <2>1, <1>a, <1>b, Moves DEF ModelAnswers, Progress, AtTools, database, session, state
  <2>2. ASSUME NEW n \in 1 .. MaxCalls, ModelCallsTools(r, n)
        PROVE  Progress(r)'
    BY <2>2, <1>a, <1>b, Moves DEF ModelCallsTools, ToolLimitExceeded, Progress, AtTools, database, session, state
  <2>3. CASE ModelFails(r)
    BY <2>3, <1>a, <1>b, Moves DEF ModelFails, Progress, AtTools, database, session, state
  <2> QED
    BY <1>4, <2>1, <2>2, <2>3 DEF CallModel
<1>5. CASE ExecuteTools(r)
  BY <1>5, <1>a, <1>b, Moves DEF ExecuteTools, Progress, AtTools, database, session, state
<1>6. CASE ToolLoad(r)
  BY <1>6, <1>a, <1>b, Moves DEF ToolLoad, LoadConversation, Progress, AtTools, database, session, state
<1>7. CASE ToolInsert(r)
  <2>1. CASE InsertFails(r)
    BY <1>a, <1>7, <2>1, Moves DEF ToolInsert, Progress, AtTools
  <2>2. CASE ~ InsertFails(r)
    <3>1. toolRuns'[r] = Append(toolRuns[r], "running")
      BY <1>b, <1>7, <2>2 DEF ToolInsert
    <3>2. toolRuns'[r] # <<>>
      <4>1. toolRuns[r] \in Seq(RunStatus) /\ "running" \in RunStatus
        BY <1>b DEF RunStatus
      <4>2. Len(Append(toolRuns[r], "running")) = Len(toolRuns[r]) + 1
        BY <4>1
      <4> QED
        BY <3>1, <4>1, <4>2
    <3> QED
      BY <1>a, <1>7, <2>2, <3>2, Moves DEF ToolInsert, Progress, AtTools, session, state
  <2> QED
    BY <2>1, <2>2
<1>8. CASE ToolExecute(r)
  BY <1>8, <1>a, <1>b, Moves DEF ToolExecute, Progress, AtTools, database, session, state
<1>9. CASE ToolFinish(r)
  <2>1. toolRuns'[r] # <<>>
    <3>1. toolRuns[r] \in Seq(RunStatus) /\ toolRuns[r] # <<>>
      BY <1>b, <1>9, ToolFinishFacts
    <3>2. Len(toolRuns'[r]) = Len(toolRuns[r])
      BY <1>9, ToolFinishFacts
    <3> QED
      BY <3>1, <3>2
  <2>2. pc'[r] = "tool_report" /\ pc[r] = "tool_finish"
    BY <1>9, Moves DEF ToolFinish
  <2> QED
    BY <1>a, <1>9, <2>1, <2>2 DEF ToolFinish, Progress, AtTools, session, state
<1>10. CASE OutputGuardrail(r)
  <2>1. pc[r] = "output_guardrail" /\ pc'[r] \in {"persist_load", "failed"}
    BY <1>10, Moves DEF OutputGuardrail
  <2>2. answer[r] \in Answer
    BY <1>a, <2>1 DEF Progress
  <2>3. \A t \in Guarded(answer[r]) : t \in Answer
    BY <1>b, <2>2 DEF Guarded
  <2>4. answer'[r] \in Answer
    BY <1>b, <1>10, <2>2, <2>3 DEF OutputGuardrail
  <2> QED
    BY <1>a, <1>10, <2>1, <2>4 DEF OutputGuardrail, Progress, AtTools, database
<1>11. CASE PersistLoad(r)
  BY <1>11, <1>a, <1>b, Moves DEF PersistLoad, LoadConversation, Progress, AtTools, database, session, state
<1>12. CASE PersistCommit(r)
  BY <1>12, <1>a, <1>b, Moves DEF PersistCommit, Progress, AtTools, database, session, state
<1>13. CASE WriteMemory(r)
  BY <1>13, <1>a, <1>b, Moves DEF WriteMemory, Progress, AtTools, database, session, state
<1>14. CASE RecursionExceeded(r)
  BY <1>14, <1>a, Moves DEF RecursionExceeded, NodePc, Progress, AtTools, database, session, state
<1>15. CASE AnswerLost(r)
  BY <1>15, <1>a, <1>b, Moves DEF AnswerLost, Progress, AtTools, database, session, state
<1>16. CASE DatabaseFails(r)
  BY <1>16, <1>a, Moves DEF DatabaseFails, DatabasePc, Progress, AtTools, database, session, state
<1>17. CASE Cancel(r)
  BY <1>17, <1>a, Moves DEF Cancel, WorkingPc, DatabasePc, Progress, AtTools, database, session, state
<1>18. CASE CheckpointFails(r)
  BY <1>18, <1>a, <1>b, Moves DEF CheckpointFails, Progress, AtTools, database, session, state, NodePc
<1>19. CASE ToolReport(r)
  <2>2. pc'[r] \in {"tool_load", "call_model"} /\ pc[r] = "tool_report"
    BY <1>19, Moves DEF ToolReport
  <2>3. pc'[r] = "tool_load" => calls'[r] > 0 /\ rounds'[r] < ToolMaxRounds
    <3>1. pc'[r] = "tool_load" => calls[r] > 1 /\ rounds' = rounds
      BY <1>19, Moves DEF ToolReport
    <3>2. calls'[r] = calls[r] - 1
      BY <1>b, <1>19 DEF ToolReport
    <3> QED
      BY <1>a, <1>b, <2>2, <3>1, <3>2 DEF Progress, AtTools
  <2> QED
    BY <1>a, <1>19, <2>2, <2>3 DEF ToolReport, Progress, AtTools, database
<1>20. CASE PersistStream(r)
  BY <1>20, <1>a, <1>b, Moves DEF PersistStream, Progress, AtTools, database, session, state
<1>21. CASE Finish(r)
  BY <1>21, <1>a, <1>b, Moves DEF Finish, Progress, AtTools, database, session, state
<1> QED
  BY <1>1, <1>2, <1>3, <1>4, <1>5, <1>6, <1>7, <1>8, <1>9, <1>10, <1>11, <1>12, <1>13,
     <1>14, <1>15, <1>16, <1>17, <1>18, <1>19, <1>20, <1>21 DEF Step, Proceeds, IsFailed

\* A crash interrupts what was at work and changes nothing else.
LEMMA CrashKeeps ==
    ASSUME Inv, Crash
    PROVE  /\ Inv'
           /\ UNCHANGED <<database, registry, asked, session, state, error>>
           /\ \A q \in Requests :
                 pc'[q] = IF pc[q] \in WorkingPc THEN "interrupted" ELSE pc[q]
<1>1. UNCHANGED <<database, registry, asked, session, state, error>>
  BY DEF Crash
<1>2. \A q \in Requests : pc'[q] = IF pc[q] \in WorkingPc THEN "interrupted" ELSE pc[q]
  BY DEF Crash
<1>3. pc' \in [Requests -> Pc]
  BY DEF Crash, Inv, TypeOK, Pc, EndPc
<1>4. TypeOK'
  BY <1>1, <1>3 DEF Inv, TypeOK, database, session, state
<1>5. ASSUME NEW q \in Requests
      PROVE  Progress(q)'
  BY <1>1, <1>2 DEF Inv, Progress, AtTools, WorkingPc, DatabasePc, database, session, state
<1> QED
  BY <1>1, <1>2, <1>4, <1>5 DEF Inv

\* Nobody has begun.
LEMMA InitKeeps == Init => Inv
<1> SUFFICES ASSUME Init PROVE Inv
  OBVIOUS
<1>1. TypeOK
  BY WorkflowAssumption DEF Init, TypeOK, Pc, RunStatus, Error
<1>2. \A r \in Requests : Progress(r)
  BY DEF Init, Progress, AtTools
<1> QED
  BY <1>1, <1>2 DEF Inv

\* A step is a crash or the step of one request.
LEMMA NextCases ==
    ASSUME Next
    PROVE  Crash \/ \E r \in Requests : Step(r)
BY DEF Next, Step

\* The request that steps and the others together.
LEMMA StepKeeps ==
    ASSUME Inv, NEW r \in Requests, Step(r)
    PROVE  Inv'
<1>1. ASSUME NEW q \in Requests, q # r
      PROVE  Progress(q)'
  <2>1. UNCHANGED <<registry, Own(q)>>
    BY <1>1, Frame
  <2>2. Progress(q)
    BY DEF Inv
  <2> QED
    BY <2>1, <2>2 DEF Own, Progress
<1> QED
  BY <1>1, StepTypes, StepProgress DEF Inv

\* The steps together.
LEMMA NextKeeps == Inv /\ [Next]_vars => Inv'
<1>1. ASSUME Inv, UNCHANGED vars
      PROVE  Inv'
  BY <1>1 DEF Inv, TypeOK, Progress, vars
<1>2. ASSUME Inv, Next
      PROVE  Inv'
  BY <1>2, NextCases, StepKeeps, CrashKeeps
<1> QED
  BY <1>1, <1>2

\* Whatever the endpoint does, the workflow takes one of its own steps or none.
LEMMA EndpointSteps == [EndpointNext]_allVars => [Next]_vars
<1>1. ASSUME NEW r \in Requests, Handles(r)
      PROVE  [Next]_vars
  BY <1>1 DEF Handles, SyncCompletes, FailsBeforeStart, FirstEvent, Deliver, NoticeGone,
              ServerCancels, StreamCompletes, StreamFails
<1>2. ASSUME NEW r \in Requests, Screen(r) \/ Run(r) \/ ClientLeaves(r) \/ FinalizerCloses(r)
      PROVE  [Next]_vars
  BY <1>2 DEF Screen, Run, ClientLeaves, FinalizerCloses, Next
<1>3. ASSUME NEW r \in Requests, NEW a \in Ask, Receive(r, a)
      PROVE  [Next]_vars
  BY <1>3 DEF Receive, Next
<1>4. UNCHANGED allVars => UNCHANGED vars
  BY DEF allVars, vars
<1> QED
  BY <1>1, <1>2, <1>3, <1>4 DEF EndpointNext, ProcessDies, Next

\* What the requests of a running endpoint hold at each of their awaits.
THEOREM InvAlways == EndpointSpec => []Inv
<1>1. EndpointInit => Inv
  BY InitKeeps DEF EndpointInit
<1>2. Inv /\ [EndpointNext]_allVars => Inv'
  BY NextKeeps, EndpointSteps
<1> QED
  BY <1>1, <1>2, PTL DEF EndpointSpec


-----------------------------------------------------------------------------
(* Tool runs                                                               *)

Settles(r) ==
    \A i \in 1 .. Len(toolRuns[r]) :
        toolRuns[r][i] = "running" =>
            /\ i = Len(toolRuns[r])
            /\ pc[r] \in {"tool_execute", "tool_finish", "failed", "interrupted"}

\* A row of a tool run is inserted running by a request that goes on to settle it.
LEMMA StepSettles ==
    ASSUME Inv, NEW r \in Requests, Settles(r), Step(r)
    PROVE  Settles(r)'
<1>a. Progress(r) /\ Settles(r)
  BY DEF Inv
<1>1. CASE \E a \in Ask : Start(r, a)
  BY <1>1, <1>a, Moves DEF Start, Settles, NodePc, DatabasePc, WorkingPc, database, session, state
<1>2. CASE LoadContext(r)
  BY <1>2, <1>a, Moves DEF LoadContext, Settles, NodePc, DatabasePc, WorkingPc, database, session, state
<1>3. CASE LoadMemory(r)
  BY <1>3, <1>a, Moves DEF LoadMemory, Settles, NodePc, DatabasePc, WorkingPc, database, session, state
<1>4. CASE CallModel(r)
  <2>1. ASSUME NEW text \in ModelText, ModelAnswers(r, text)
        PROVE  Settles(r)'
    BY <2>1, <1>a, Moves DEF ModelAnswers, Settles, NodePc, DatabasePc, WorkingPc, database, session, state
  <2>2. ASSUME NEW n \in 1 .. MaxCalls, ModelCallsTools(r, n)
        PROVE  Settles(r)'
    BY <2>2, <1>a, Moves DEF ModelCallsTools, ToolLimitExceeded, Settles, NodePc, DatabasePc, WorkingPc, database, session, state
  <2>3. CASE ModelFails(r)
    BY <2>3, <1>a, Moves DEF ModelFails, Settles, NodePc, DatabasePc, WorkingPc, database, session, state
  <2> QED
    BY <1>4, <2>1, <2>2, <2>3 DEF CallModel
<1>5. CASE ExecuteTools(r)
  BY <1>5, <1>a, Moves DEF ExecuteTools, Settles, NodePc, DatabasePc, WorkingPc, database, session, state
<1>6. CASE ToolLoad(r)
  BY <1>6, <1>a, Moves DEF ToolLoad, LoadConversation, Settles, NodePc, DatabasePc, WorkingPc, database, session, state
<1>7. CASE ToolInsert(r)
  <2>1. CASE InsertFails(r)
    BY <1>7, <1>a, <2>1, Moves DEF ToolInsert, Settles
  <2>2. CASE ~ InsertFails(r)
    <3>1. pc'[r] = "tool_execute" /\ pc[r] = "tool_insert"
      BY <1>7, <2>2, Moves DEF ToolInsert
    <3>2. toolRuns[r] \in Seq(RunStatus) /\ "running" \in RunStatus
      BY DEF Inv, TypeOK, RunStatus
    <3>3. toolRuns'[r] = Append(toolRuns[r], "running")
      BY <1>7, <2>2 DEF ToolInsert, Inv, TypeOK
    <3>4. Len(toolRuns'[r]) = Len(toolRuns[r]) + 1
      BY <3>2, <3>3
    <3>5. ASSUME NEW i \in 1 .. Len(toolRuns[r])
          PROVE  toolRuns'[r][i] # "running"
      BY <1>a, <3>1, <3>2, <3>3 DEF Settles
    <3> QED
      BY <3>1, <3>2, <3>4, <3>5 DEF Settles
  <2> QED
    BY <2>1, <2>2
<1>8. CASE ToolExecute(r)
  BY <1>8, <1>a, Moves DEF ToolExecute, Settles, NodePc, DatabasePc, WorkingPc, database, session, state
<1>9. CASE ToolFinish(r)
  <2>1. pc'[r] = "tool_report" /\ pc[r] = "tool_finish"
    BY <1>9, Moves DEF ToolFinish
  <2>2. toolRuns[r] \in Seq(RunStatus) /\ toolRuns[r] # <<>> /\ result[r] \in {"completed", "failed"}
    BY <1>9, <1>a, <2>1 DEF Inv, TypeOK, Progress
  <2>3. /\ Len(toolRuns'[r]) = Len(toolRuns[r])
        /\ toolRuns'[r] = [toolRuns[r] EXCEPT ![Len(toolRuns[r])] = result[r]]
    BY <1>9, ToolFinishFacts
  <2>4. ASSUME NEW i \in 1 .. Len(toolRuns'[r])
        PROVE  toolRuns'[r][i] # "running"
    BY <1>a, <2>1, <2>2, <2>3 DEF Settles
  <2> QED
    BY <2>4 DEF Settles
<1>10. CASE OutputGuardrail(r)
  BY <1>10, <1>a, Moves DEF OutputGuardrail, Settles, NodePc, DatabasePc, WorkingPc, database, session, state
<1>11. CASE PersistLoad(r)
  BY <1>11, <1>a, Moves DEF PersistLoad, LoadConversation, Settles, NodePc, DatabasePc, WorkingPc, database, session, state
<1>12. CASE PersistCommit(r)
  BY <1>12, <1>a, Moves DEF PersistCommit, Settles, NodePc, DatabasePc, WorkingPc, database, session, state
<1>13. CASE WriteMemory(r)
  BY <1>13, <1>a, Moves DEF WriteMemory, Settles, NodePc, DatabasePc, WorkingPc, database, session, state
<1>14. CASE RecursionExceeded(r)
  BY <1>14, <1>a, Moves DEF RecursionExceeded, Settles, NodePc, DatabasePc, WorkingPc, database, session, state
<1>15. CASE AnswerLost(r)
  BY <1>15, <1>a, Moves DEF AnswerLost, Settles, NodePc, DatabasePc, WorkingPc, database, session, state
<1>16. CASE DatabaseFails(r)
  BY <1>16, <1>a, Moves DEF DatabaseFails, Settles, NodePc, DatabasePc, WorkingPc, database, session, state
<1>17. CASE Cancel(r)
  BY <1>17, <1>a, Moves DEF Cancel, Settles, NodePc, DatabasePc, WorkingPc, database, session, state
<1>18. CASE CheckpointFails(r)
  BY <1>18, <1>a, Moves DEF CheckpointFails, Settles, NodePc, DatabasePc, WorkingPc, database, session, state
<1>19. CASE ToolReport(r)
  BY <1>19, <1>a, Moves DEF ToolReport, Settles, NodePc, DatabasePc, WorkingPc, database, session, state
<1>20. CASE PersistStream(r)
  BY <1>20, <1>a, Moves DEF PersistStream, Settles, NodePc, DatabasePc, WorkingPc, database, session, state
<1>21. CASE Finish(r)
  BY <1>21, <1>a, Moves DEF Finish, Settles, NodePc, DatabasePc, WorkingPc, database, session, state
<1> QED
  BY <1>1, <1>2, <1>3, <1>4, <1>5, <1>6, <1>7, <1>8, <1>9, <1>10, <1>11, <1>12, <1>13,
     <1>14, <1>15, <1>16, <1>17, <1>18, <1>19, <1>20, <1>21 DEF Step, Proceeds, IsFailed

\* The steps together.
LEMMA NextSettles ==
    Inv /\ (\A r \in Requests : Settles(r)) /\ [Next]_vars => \A r \in Requests : Settles(r)'
<1> SUFFICES ASSUME Inv, \A r \in Requests : Settles(r), [Next]_vars, NEW q \in Requests
             PROVE  Settles(q)'
  OBVIOUS
<1>1. CASE UNCHANGED vars
  BY <1>1 DEF vars, Settles
<1>2. CASE Crash
  BY <1>2, CrashKeeps DEF Settles, WorkingPc, DatabasePc, database
<1>3. ASSUME NEW r \in Requests, Step(r)
      PROVE  Settles(q)'
  <2>1. CASE q = r
    BY <1>3, <2>1, StepSettles
  <2>2. CASE q # r
    BY <1>3, <2>2, Frame DEF Own, Settles
  <2> QED
    BY <2>1, <2>2
<1> QED
  BY <1>1, <1>2, <1>3, NextCases

\* A run leaves at most its last tool run open, and only where it failed or was cut off in
\* the middle of the call: for any number of rounds and of calls in a round.
THEOREM ToolsSettled == EndpointSpec => []ToolRunsSettled
<1>1. EndpointInit => \A r \in Requests : Settles(r)
  BY DEF EndpointInit, Init, Settles
<1>2. Inv /\ (\A r \in Requests : Settles(r)) /\ [EndpointNext]_allVars =>
          (\A r \in Requests : Settles(r))'
  BY NextSettles, EndpointSteps
<1>3. (\A r \in Requests : Settles(r)) => ToolRunsSettled
  BY DEF Settles, ToolRunsSettled
<1> QED
  BY <1>1, <1>2, <1>3, InvAlways, PTL DEF EndpointSpec


-----------------------------------------------------------------------------
(* The recursion limit                                                     *)

\* How many nodes a run has behind it at each await: two a round.
Budget(r) ==
    registry =>
        /\ pc[r] \in {"new", "load_context"} => nodes[r] = 0
        /\ pc[r] = "load_memory" => nodes[r] <= 1
        /\ pc[r] = "call_model" => nodes[r] <= 2 * rounds[r] + 2
        /\ pc[r] \in {"execute_tools", "output_guardrail"} => nodes[r] <= 2 * rounds[r] + 3
        /\ pc[r] \in {"tool_load", "tool_insert", "tool_execute", "tool_finish", "tool_report",
                      "persist_load"} => nodes[r] <= 2 * rounds[r] + 4
        /\ pc[r] \in {"persist_commit", "persist_stream", "write_memory"} =>
              nodes[r] <= 2 * rounds[r] + 5

\* A round of tools takes two nodes, and the rest of a run five at most.
LEMMA StepBudget ==
    ASSUME Inv, NEW r \in Requests, Budget(r), Step(r)
    PROVE  Budget(r)'
<1>a. /\ Budget(r)
      /\ nodes[r] \in Nat /\ rounds[r] \in Nat
      /\ rounds \in [Requests -> 0 .. ToolMaxRounds]
      /\ pc[r] = "new" => nodes[r] = 0 \/ ~ registry
  BY WorkflowAssumption DEF Inv, TypeOK, Budget
<1>1. CASE \E a \in Ask : Start(r, a)
  BY <1>1, <1>a, Moves DEF Start, Budget, NodePc, DatabasePc, WorkingPc, database, session, state
<1>2. CASE LoadContext(r)
  BY <1>2, <1>a, Moves DEF LoadContext, Budget, NodePc, DatabasePc, WorkingPc, database, session, state
<1>3. CASE LoadMemory(r)
  BY <1>3, <1>a, Moves DEF LoadMemory, Budget, NodePc, DatabasePc, WorkingPc, database, session, state
<1>4. CASE CallModel(r)
  <2>1. ASSUME NEW text \in ModelText, ModelAnswers(r, text)
        PROVE  Budget(r)'
    BY <2>1, <1>a, Moves DEF ModelAnswers, Budget, NodePc, DatabasePc, WorkingPc, database, session, state
  <2>2. ASSUME NEW n \in 1 .. MaxCalls, ModelCallsTools(r, n)
        PROVE  Budget(r)'
    BY <2>2, <1>a, Moves DEF ModelCallsTools, ToolLimitExceeded, Budget, NodePc, DatabasePc, WorkingPc, database, session, state
  <2>3. CASE ModelFails(r)
    BY <2>3, <1>a, Moves DEF ModelFails, Budget, NodePc, DatabasePc, WorkingPc, database, session, state
  <2> QED
    BY <1>4, <2>1, <2>2, <2>3 DEF CallModel
<1>5. CASE ExecuteTools(r)
  BY <1>5, <1>a, Moves DEF ExecuteTools, Budget, NodePc, DatabasePc, WorkingPc, database, session, state
<1>6. CASE ToolLoad(r)
  BY <1>6, <1>a, Moves DEF ToolLoad, LoadConversation, Budget, NodePc, DatabasePc, WorkingPc, database, session, state
<1>7. CASE ToolInsert(r)
  BY <1>7, <1>a, Moves DEF ToolInsert, Budget, NodePc, DatabasePc, WorkingPc, database, session, state
<1>8. CASE ToolExecute(r)
  BY <1>8, <1>a, Moves DEF ToolExecute, Budget, NodePc, DatabasePc, WorkingPc, database, session, state
<1>9. CASE ToolFinish(r)
  BY <1>9, <1>a, Moves DEF ToolFinish, Budget, session, state
<1>10. CASE OutputGuardrail(r)
  BY <1>10, <1>a, Moves DEF OutputGuardrail, Budget, NodePc, DatabasePc, WorkingPc, database, session, state
<1>11. CASE PersistLoad(r)
  BY <1>11, <1>a, Moves DEF PersistLoad, LoadConversation, Budget, NodePc, DatabasePc, WorkingPc, database, session, state
<1>12. CASE PersistCommit(r)
  BY <1>12, <1>a, Moves DEF PersistCommit, Budget, NodePc, DatabasePc, WorkingPc, database, session, state
<1>13. CASE WriteMemory(r)
  BY <1>13, <1>a, Moves DEF WriteMemory, Budget, NodePc, DatabasePc, WorkingPc, database, session, state
<1>14. CASE RecursionExceeded(r)
  BY <1>14, <1>a, Moves DEF RecursionExceeded, Budget, NodePc, DatabasePc, WorkingPc, database, session, state
<1>15. CASE AnswerLost(r)
  BY <1>15, <1>a, Moves DEF AnswerLost, Budget, NodePc, DatabasePc, WorkingPc, database, session, state
<1>16. CASE DatabaseFails(r)
  BY <1>16, <1>a, Moves DEF DatabaseFails, Budget, NodePc, DatabasePc, WorkingPc, database, session, state
<1>17. CASE Cancel(r)
  BY <1>17, <1>a, Moves DEF Cancel, Budget, NodePc, DatabasePc, WorkingPc, database, session, state
<1>18. CASE CheckpointFails(r)
  BY <1>18, <1>a, Moves DEF CheckpointFails, Budget, NodePc, DatabasePc, WorkingPc, database, session, state
<1>19. CASE ToolReport(r)
  <2>1. pc'[r] \in {"tool_load", "call_model"} /\ pc[r] = "tool_report"
    BY <1>19, Moves DEF ToolReport
  <2>2. nodes' = nodes /\ registry' = registry
    BY <1>19 DEF ToolReport
  <2>3. pc'[r] = "tool_load" => rounds'[r] = rounds[r]
    BY <1>19, Moves DEF ToolReport
  <2>4. pc'[r] = "call_model" => rounds'[r] = rounds[r] + 1
    BY <1>19, <1>a, Moves DEF ToolReport
  <2> QED
    BY <1>a, <2>1, <2>2, <2>3, <2>4 DEF Budget
<1>20. CASE PersistStream(r)
  BY <1>20, <1>a, Moves DEF PersistStream, Budget, NodePc, DatabasePc, WorkingPc, database, session, state
<1>21. CASE Finish(r)
  BY <1>21, <1>a, Moves DEF Finish, Budget, NodePc, DatabasePc, WorkingPc, database, session, state
<1> QED
  BY <1>1, <1>2, <1>3, <1>4, <1>5, <1>6, <1>7, <1>8, <1>9, <1>10, <1>11, <1>12, <1>13,
     <1>14, <1>15, <1>16, <1>17, <1>18, <1>19, <1>20, <1>21 DEF Step, Proceeds, IsFailed

\* The steps together.
LEMMA NextBudget ==
    Inv /\ (\A r \in Requests : Budget(r)) /\ [Next]_vars => \A r \in Requests : Budget(r)'
<1> SUFFICES ASSUME Inv, \A r \in Requests : Budget(r), [Next]_vars, NEW q \in Requests
             PROVE  Budget(q)'
  OBVIOUS
<1>1. CASE UNCHANGED vars
  BY <1>1 DEF vars, Budget
<1>2. CASE Crash
  BY <1>2, CrashKeeps DEF Budget, WorkingPc, DatabasePc, state
<1>3. ASSUME NEW r \in Requests, Step(r)
      PROVE  Budget(q)'
  <2>1. CASE q = r
    BY <1>3, <2>1, StepBudget
  <2>2. CASE q # r
    <3>1. UNCHANGED <<registry, pc[q], nodes[q], rounds[q]>>
      BY <1>3, <2>2, Frame DEF Own
    <3> QED
      BY <3>1 DEF Budget
  <2> QED
    BY <2>1, <2>2
<1> QED
  BY <1>1, <1>2, <1>3, NextCases

\* Within the budget, the step limit strikes only a run that has used up its rounds.
LEMMA BudgetSuffices ==
    ASSUME Inv, \A r \in Requests : Budget(r)
    PROVE  LoopWithinLimit
<1> SUFFICES ASSUME registry, RecursionLimit >= 2 * ToolMaxRounds + 6,
                    NEW r \in Requests, pc[r] \in NodePc
             PROVE  nodes[r] < RecursionLimit
  BY DEF LoopWithinLimit
<1>1. nodes[r] \in Nat /\ rounds[r] \in Nat /\ rounds[r] <= ToolMaxRounds /\ ToolMaxRounds \in Nat
      /\ RecursionLimit \in Nat
  BY WorkflowAssumption DEF Inv, TypeOK
<1>2. pc[r] = "execute_tools" => rounds[r] < ToolMaxRounds
  BY DEF Inv, Progress, AtTools
<1> QED
  BY <1>1, <1>2 DEF Budget, NodePc

\* Whatever the tool limit, the loop ends with the round-limit answer before LangGraph's
\* recursion limit does, if that leaves room for two nodes a round and six more.
THEOREM WithinLimit == EndpointSpec => []LoopWithinLimit
<1>1. EndpointInit => \A r \in Requests : Budget(r)
  BY DEF EndpointInit, Init, Budget
<1>2. Inv /\ (\A r \in Requests : Budget(r)) /\ [EndpointNext]_allVars =>
          (\A r \in Requests : Budget(r))'
  BY NextBudget, EndpointSteps
<1> QED
  BY <1>1, <1>2, BudgetSuffices, InvAlways, PTL DEF EndpointSpec


-----------------------------------------------------------------------------
(* The rows of the conversations                                           *)

Replied == {"write_memory", "finishing", "completed"}
AfterStore == {"persist_stream", "failed", "interrupted"} \union Replied
Inserting == {"tool_insert", "persist_commit"}

\* What one step of a request does to the rows and to what the rows rest on.
Quiet(r) == messages' = messages /\ pc'[r] # "persist_stream"
Stores(r) ==
    /\ pc[r] = "persist_commit"
    /\ ~ InsertFails(r)
    /\ StoreExchange(r)
    /\ pc'[r] = "persist_stream"
    /\ UNCHANGED <<answer, asked, toolRuns, registry>>
Inserts(r) ==
    /\ pc[r] = "tool_insert"
    /\ ~ InsertFails(r)
    /\ WithConversation(r)
    /\ UNCHANGED <<messages, asked, registry>>
    /\ pc'[r] # "persist_stream"

RowStep(r) ==
    /\ \/ Quiet(r) /\ UNCHANGED owner /\ (toolRuns'[r] # <<>> => toolRuns[r] # <<>>)
       \/ Inserts(r)
       \/ Stores(r)
    /\ pc[r] \in AfterStore =>
          /\ pc'[r] \in AfterStore
          /\ UNCHANGED <<answer[r], asked[r]>>
          /\ pc[r] # "persist_stream" => UNCHANGED events[r]
    /\ pc'[r] \in Replied =>
          pc[r] \in Replied \/ (pc[r] = "persist_stream" /\ pc'[r] = "write_memory")
    /\ pc'[r] \in Inserting =>
          /\ found'[r] = Exists(r)
          /\ ~ OwnedByOther(r)
          /\ UNCHANGED <<owner, asked>>
    /\ registry' = registry
    /\ pc[r] = "new" \/ asked' = asked
    /\ pc[r] = "new" => pc'[r] = "load_context"

\* What a step does to the rows, in one place: it stores an exchange, inserts, or neither.
LEMMA StepRows ==
    ASSUME Inv, NEW r \in Requests, Step(r)
    PROVE  RowStep(r)
<1>b. toolRuns \in [Requests -> Seq(RunStatus)] /\ found \in [Requests -> BOOLEAN]
  BY DEF Inv, TypeOK
<1>c. TypeOK
  BY DEF Inv
<1>1. CASE \E a \in Ask : Start(r, a)
  BY <1>1, <1>b, <1>c, Moves DEF Start, RowStep, Quiet, AfterStore, Replied, Inserting, NodePc, DatabasePc, WorkingPc, database, session, state
<1>2. CASE LoadContext(r)
  BY <1>2, <1>b, <1>c, Moves DEF LoadContext, RowStep, Quiet, AfterStore, Replied, Inserting, NodePc, DatabasePc, WorkingPc, database, session, state
<1>3. CASE LoadMemory(r)
  BY <1>3, <1>b, <1>c, Moves DEF LoadMemory, RowStep, Quiet, AfterStore, Replied, Inserting, NodePc, DatabasePc, WorkingPc, database, session, state
<1>4. CASE CallModel(r)
  <2>1. ASSUME NEW text \in ModelText, ModelAnswers(r, text)
        PROVE  RowStep(r)
    BY <2>1, <1>b, <1>c, Moves DEF ModelAnswers, RowStep, Quiet, AfterStore, Replied, Inserting, NodePc, DatabasePc, WorkingPc, database, session, state
  <2>2. ASSUME NEW n \in 1 .. MaxCalls, ModelCallsTools(r, n)
        PROVE  RowStep(r)
    BY <2>2, <1>b, <1>c, Moves DEF ModelCallsTools, ToolLimitExceeded, RowStep, Quiet, AfterStore, Replied, Inserting, NodePc, DatabasePc, WorkingPc, database, session, state
  <2>3. CASE ModelFails(r)
    BY <2>3, <1>b, <1>c, Moves DEF ModelFails, RowStep, Quiet, AfterStore, Replied, Inserting, NodePc, DatabasePc, WorkingPc, database, session, state
  <2> QED
    BY <1>4, <2>1, <2>2, <2>3 DEF CallModel
<1>5. CASE ExecuteTools(r)
  BY <1>5, <1>b, <1>c, Moves DEF ExecuteTools, RowStep, Quiet, AfterStore, Replied, Inserting, NodePc, DatabasePc, WorkingPc, database, session, state
<1>6. CASE ToolLoad(r)
  BY <1>6, <1>b, <1>c, Moves DEF ToolLoad, LoadConversation, RowStep, Quiet, AfterStore, Replied, Inserting, NodePc, DatabasePc, WorkingPc, database, session, state
<1>7. CASE ToolInsert(r)
  <2>1. CASE InsertFails(r)
    BY <1>7, <2>1, Moves DEF ToolInsert, RowStep, Quiet, AfterStore, Replied, Inserting
  <2>2. CASE ~ InsertFails(r)
    <3>1. pc[r] = "tool_insert" /\ pc'[r] = "tool_execute"
      BY <1>7, <2>2, Moves DEF ToolInsert
    <3>2. WithConversation(r) /\ UNCHANGED <<messages, asked, answer, registry>>
      BY <1>7, <2>2 DEF ToolInsert, state
    <3>3. Inserts(r)
      BY <2>2, <3>1, <3>2 DEF Inserts
    <3> QED
      BY <3>1, <3>2, <3>3 DEF RowStep, AfterStore, Replied, Inserting
  <2> QED
    BY <2>1, <2>2
<1>8. CASE ToolExecute(r)
  BY <1>8, <1>b, <1>c, Moves DEF ToolExecute, RowStep, Quiet, AfterStore, Replied, Inserting, NodePc, DatabasePc, WorkingPc, database, session, state
<1>9. CASE ToolFinish(r)
  <2>1. pc[r] = "tool_finish" /\ pc'[r] = "tool_report"
    BY <1>9, Moves DEF ToolFinish
  <2>2. UNCHANGED <<owner, messages, asked, registry>> /\ toolRuns[r] # <<>>
    BY <1>9, ToolFinishFacts DEF ToolFinish
  <2> QED
    BY <2>1, <2>2 DEF RowStep, Quiet, AfterStore, Replied, Inserting
<1>10. CASE OutputGuardrail(r)
  BY <1>10, <1>b, <1>c, Moves DEF OutputGuardrail, RowStep, Quiet, AfterStore, Replied, Inserting, NodePc, DatabasePc, WorkingPc, database, session, state
<1>11. CASE PersistLoad(r)
  BY <1>11, <1>b, <1>c, Moves DEF PersistLoad, LoadConversation, RowStep, Quiet, AfterStore, Replied, Inserting, NodePc, DatabasePc, WorkingPc, database, session, state
<1>12. CASE PersistCommit(r)
  <2>1. CASE InsertFails(r)
    BY <1>12, <2>1, Moves DEF PersistCommit, RowStep, Quiet, AfterStore, Replied, Inserting
  <2>2. CASE ~ InsertFails(r)
    <3>1. pc[r] = "persist_commit" /\ pc'[r] = "persist_stream"
      BY <1>12, <2>2, Moves DEF PersistCommit
    <3>2. StoreExchange(r) /\ UNCHANGED <<answer, asked, toolRuns, registry>>
      BY <1>12, <2>2 DEF PersistCommit, state
    <3>3. Stores(r)
      BY <2>2, <3>1, <3>2 DEF Stores
    <3> QED
      BY <3>1, <3>2, <3>3 DEF RowStep, AfterStore, Replied, Inserting
  <2> QED
    BY <2>1, <2>2
<1>13. CASE WriteMemory(r)
  BY <1>13, <1>b, <1>c, Moves DEF WriteMemory, RowStep, Quiet, AfterStore, Replied, Inserting, NodePc, DatabasePc, WorkingPc, database, session, state
<1>14. CASE RecursionExceeded(r)
  BY <1>14, <1>b, <1>c, Moves DEF RecursionExceeded, RowStep, Quiet, AfterStore, Replied, Inserting, NodePc, DatabasePc, WorkingPc, database, session, state
<1>15. CASE AnswerLost(r)
  BY <1>15, <1>b, <1>c, Moves DEF AnswerLost, RowStep, Quiet, AfterStore, Replied, Inserting, NodePc, DatabasePc, WorkingPc, database, session, state
<1>16. CASE DatabaseFails(r)
  BY <1>16, <1>b, <1>c, Moves DEF DatabaseFails, RowStep, Quiet, AfterStore, Replied, Inserting, NodePc, DatabasePc, WorkingPc, database, session, state
<1>17. CASE Cancel(r)
  BY <1>17, <1>b, <1>c, Moves DEF Cancel, RowStep, Quiet, AfterStore, Replied, Inserting, NodePc, DatabasePc, WorkingPc, database, session, state
<1>18. CASE CheckpointFails(r)
  BY <1>18, <1>b, <1>c, Moves DEF CheckpointFails, RowStep, Quiet, AfterStore, Replied, Inserting, NodePc, DatabasePc, WorkingPc, database, session, state
<1>19. CASE ToolReport(r)
  BY <1>19, <1>b, <1>c, Moves DEF ToolReport, RowStep, Quiet, AfterStore, Replied, Inserting, NodePc, DatabasePc, WorkingPc, database, session, state
<1>20. CASE PersistStream(r)
  BY <1>20, <1>b, <1>c, Moves DEF PersistStream, RowStep, Quiet, AfterStore, Replied, Inserting, NodePc, DatabasePc, WorkingPc, database, session, state
<1>21. CASE Finish(r)
  BY <1>21, <1>b, <1>c, Moves DEF Finish, RowStep, Quiet, AfterStore, Replied, Inserting, NodePc, DatabasePc, WorkingPc, database, session, state
<1> QED
  BY <1>1, <1>2, <1>3, <1>4, <1>5, <1>6, <1>7, <1>8, <1>9, <1>10, <1>11, <1>12, <1>13,
     <1>14, <1>15, <1>16, <1>17, <1>18, <1>19, <1>20, <1>21 DEF Step, Proceeds, IsFailed

\* Appending two elements, index by index.
LEMMA ConcatTwo ==
    ASSUME NEW S, NEW s \in Seq(S), NEW t \in Seq(S), Len(t) = 2
    PROVE  /\ Len(s \o t) = Len(s) + 2
           /\ \A i \in 1 .. Len(s) : (s \o t)[i] = s[i]
           /\ (s \o t)[Len(s) + 1] = t[1]
           /\ (s \o t)[Len(s) + 2] = t[2]
<1>1. /\ Len(s \o t) = Len(s) + Len(t)
      /\ \A i \in 1 .. Len(s) + Len(t) :
            (s \o t)[i] = IF i <= Len(s) THEN s[i] ELSE t[i - Len(s)]
  BY ConcatProperties, Zenon
<1>2. Len(s) \in Nat
  OBVIOUS
<1>3. ASSUME NEW n \in Nat, n = Len(s)
      PROVE  /\ Len(s \o t) = n + 2
             /\ \A i \in 1 .. n : (s \o t)[i] = s[i]
             /\ (s \o t)[n + 1] = t[1]
             /\ (s \o t)[n + 2] = t[2]
  BY <1>1, <1>3
<1> QED
  BY <1>2, <1>3

\* The log of a conversation to which an exchange is added.
LEMMA StoreFacts ==
    ASSUME Inv, NEW r \in Requests, Stores(r)
    PROVE  /\ Conv(r) \in Convs
           /\ answer[r] \in Answer
           /\ \A c \in Convs : c # Conv(r) => messages'[c] = messages[c]
           /\ messages'[Conv(r)] = messages[Conv(r)] \o Exchange(r)
           /\ Len(messages'[Conv(r)]) = Len(messages[Conv(r)]) + 2
           /\ \A i \in 1 .. Len(messages[Conv(r)]) : messages'[Conv(r)][i] = messages[Conv(r)][i]
           /\ messages'[Conv(r)][Len(messages[Conv(r)]) + 1] =
                 [role |-> "user", by |-> r, text |-> "user"]
           /\ messages'[Conv(r)][Len(messages[Conv(r)]) + 2] =
                 [role |-> "assistant", by |-> r, text |-> answer[r]]
<1>1. asked[r] \in Ask /\ answer[r] \in Answer
  BY DEF Inv, Progress, Stores
<1>2. Conv(r) \in Convs
  BY <1>1 DEF Conv, Ask
<1>3. messages \in [Convs -> Seq(Message)] /\ TypeOK
  BY DEF Inv, TypeOK
<1>4. messages' = [messages EXCEPT ![Conv(r)] = messages[Conv(r)] \o Exchange(r)]
  BY DEF Stores, StoreExchange
<1>5. messages'[Conv(r)] = messages[Conv(r)] \o Exchange(r)
  BY <1>2, <1>3, <1>4
<1>6. /\ Exchange(r) \in Seq(Message) /\ Len(Exchange(r)) = 2
      /\ Exchange(r)[1] = [role |-> "user", by |-> r, text |-> "user"]
      /\ Exchange(r)[2] = [role |-> "assistant", by |-> r, text |-> answer[r]]
  BY <1>1, <1>3, ExchangeFacts
<1>7. messages[Conv(r)] \in Seq(Message)
  BY <1>2, <1>3
<1>8. LET s == messages[Conv(r)]
          t == Exchange(r)
      IN  /\ Len(s \o t) = Len(s) + 2
          /\ \A i \in 1 .. Len(s) : (s \o t)[i] = s[i]
          /\ (s \o t)[Len(s) + 1] = t[1]
          /\ (s \o t)[Len(s) + 2] = t[2]
  BY <1>6, <1>7, ConcatTwo
<1>12. \A c \in Convs : c # Conv(r) => messages'[c] = messages[c]
  BY <1>3, <1>4
<1> QED
  BY <1>1, <1>2, <1>5, <1>6, <1>8, <1>12

\* Only the request that stores an exchange becomes stored.
LEMMA StoredFacts ==
    ASSUME Inv, NEW r \in Requests, Step(r)
    PROVE  /\ \A q \in Requests : Stored(q) => Stored(q)'
           /\ \A q \in Requests : Stored(q)' => Stored(q) \/ (q = r /\ Stores(r))
           /\ Stores(r) => Stored(r)'
<1>a. ASSUME Stores(r)
      PROVE  /\ Conv(r) \in Convs
             /\ \A c \in Convs : c # Conv(r) => messages'[c] = messages[c]
             /\ Len(messages'[Conv(r)]) = Len(messages[Conv(r)]) + 2
             /\ \A i \in 1 .. Len(messages[Conv(r)]) :
                   messages'[Conv(r)][i] = messages[Conv(r)][i]
  BY <1>a, StoreFacts, Zenon
<1>b. ASSUME Stores(r)
      PROVE  /\ messages'[Conv(r)][Len(messages[Conv(r)]) + 1].by = r
             /\ messages'[Conv(r)][Len(messages[Conv(r)]) + 2].by = r
  <2>1. /\ messages'[Conv(r)][Len(messages[Conv(r)]) + 1] =
              [role |-> "user", by |-> r, text |-> "user"]
        /\ messages'[Conv(r)][Len(messages[Conv(r)]) + 2] =
              [role |-> "assistant", by |-> r, text |-> answer[r]]
    BY <1>b, StoreFacts, Zenon
  <2> QED
    BY <2>1
<1>1. ASSUME messages' = messages
      PROVE  \A q \in Requests : Stored(q)' <=> Stored(q)
  BY <1>1 DEF Stored
<1>2. ASSUME Stores(r), NEW q \in Requests, Stored(q)
      PROVE  Stored(q)'
  <2>1. PICK c \in Convs : \E i \in 1 .. Len(messages[c]) : messages[c][i].by = q
    BY <1>2 DEF Stored
  <2>2. PICK i \in 1 .. Len(messages[c]) : messages[c][i].by = q
    BY <2>1
  <2>3. messages[c] \in Seq(Message)
    BY DEF Inv, TypeOK
  <2>4. i \in 1 .. Len(messages'[c]) /\ messages'[c][i] = messages[c][i]
    BY <1>2, <1>a, <2>2, <2>3
  <2> QED
    BY <2>2, <2>4 DEF Stored
<1>3. ASSUME Stores(r), NEW q \in Requests, Stored(q)', q # r
      PROVE  Stored(q)
  <2>1. PICK c \in Convs : \E i \in 1 .. Len(messages'[c]) : messages'[c][i].by = q
    BY <1>3 DEF Stored
  <2>2. PICK i \in 1 .. Len(messages'[c]) : messages'[c][i].by = q
    BY <2>1
  <2>3. messages[c] \in Seq(Message)
    BY DEF Inv, TypeOK
  <2>4. i \in 1 .. Len(messages[c]) /\ messages'[c][i] = messages[c][i]
    BY <1>3, <1>a, <1>b, <2>2, <2>3
  <2> QED
    BY <2>2, <2>4 DEF Stored
<1>4. ASSUME Stores(r)
      PROVE  Stored(r)'
  <2>1. messages[Conv(r)] \in Seq(Message) /\ Conv(r) \in Convs
    BY <1>4, <1>a DEF Inv, TypeOK
  <2>2. Len(messages[Conv(r)]) + 1 \in 1 .. Len(messages'[Conv(r)])
    BY <1>4, <1>a, <2>1
  <2>3. messages'[Conv(r)][Len(messages[Conv(r)]) + 1].by = r
    BY <1>4, <1>b
  <2> QED
    BY <2>1, <2>2, <2>3 DEF Stored
<1> QED
  BY <1>1, <1>2, <1>3, <1>4, StepRows DEF RowStep, Quiet, Inserts


\* A request is stored exactly by the commit of its persist node.
Placed(r) ==
    /\ Stored(r) => pc[r] \in AfterStore
    /\ pc[r] \in {"persist_stream"} \union Replied => Stored(r)

\* A request is stored where it stands, and nowhere before its commit.
LEMMA StepPlaced ==
    ASSUME Inv, NEW r \in Requests, Step(r), \A q \in Requests : Placed(q), NEW q \in Requests
    PROVE  Placed(q)'
<1>1. CASE q # r
  <2>1. pc'[q] = pc[q]
    BY <1>1, Frame DEF Own
  <2>2. Stored(q)' <=> Stored(q)
    BY <1>1, StoredFacts
  <2> QED
    BY <2>1, <2>2 DEF Placed
<1>2. CASE q = r
  <2>1. RowStep(r)
    BY StepRows
  <2>2. ASSUME Stored(r)'
        PROVE  pc'[r] \in AfterStore
    BY <2>1, <2>2, StoredFacts DEF RowStep, Placed, Stores, AfterStore
  <2>3. ASSUME pc'[r] \in {"persist_stream"} \union Replied
        PROVE  Stored(r)'
    BY <2>1, <2>3, StoredFacts DEF RowStep, Placed, Quiet, Inserts, Replied
  <2> QED
    BY <1>2, <2>2, <2>3 DEF Placed
<1> QED
  BY <1>1, <1>2

Log(c) == messages[c]

\* ExchangesWhole of one conversation.
Whole(c) ==
    /\ Len(Log(c)) % 2 = 0
    /\ \A i \in 1 .. Len(Log(c)) : i % 2 = 1 =>
          /\ asked[Log(c)[i].by].conv = c
          /\ Log(c)[i].by \in Requests
          /\ Log(c)[i].role = "user"
          /\ i + 1 <= Len(Log(c))
          /\ Log(c)[i + 1] = [role |-> "assistant", by |-> Log(c)[i].by,
                              text |-> answer[Log(c)[i].by]]
    /\ \A i, j \in 1 .. Len(Log(c)) :
          i % 2 = 1 /\ j % 2 = 1 /\ Log(c)[i].by = Log(c)[j].by => i = j

Rows == (\A r \in Requests : Placed(r)) /\ \A c \in Convs : Whole(c)

\* A conversation stays a sequence of exchanges, each of one request, none twice.
LEMMA StepWhole ==
    ASSUME Inv, Rows, NEW r \in Requests, Step(r), NEW c \in Convs
    PROVE  Whole(c)'
<1>1. Log(c) \in Seq(Message) /\ Len(Log(c)) \in Nat
  BY DEF Inv, TypeOK, Log
\* What is stored stays answered as it was.
<1>2. ASSUME NEW q \in Requests, Stored(q)
      PROVE  asked'[q] = asked[q] /\ answer'[q] = answer[q]
  <2>1. CASE q = r
    BY <1>2, <2>1, StepRows DEF RowStep, Rows, Placed
  <2>2. CASE q # r
    BY <2>2, Frame DEF Own
  <2> QED
    BY <2>1, <2>2
<1>3. ASSUME NEW i \in 1 .. Len(Log(c))
      PROVE  Log(c)[i].by \in Requests /\ Stored(Log(c)[i].by)
  <2>1. Log(c)[i] \in Message
    BY <1>1
  <2>2. Log(c)[i].by \in Requests
    BY <2>1 DEF Message
  <2> QED
    BY <2>2 DEF Stored, Log
<1>4. ASSUME messages'[c] = messages[c]
      PROVE  Whole(c)'
  <2>1. Log(c)' = Log(c)
    BY <1>4 DEF Log
  <2>2. ASSUME NEW i \in 1 .. Len(Log(c))
        PROVE  /\ asked'[Log(c)[i].by] = asked[Log(c)[i].by]
               /\ answer'[Log(c)[i].by] = answer[Log(c)[i].by]
    BY <1>2, <1>3
  <2>3. Whole(c)
    BY DEF Rows
  <2> QED
    BY <2>1, <2>2, <2>3 DEF Whole
<1>5. ASSUME Stores(r), c = Conv(r)
      PROVE  Whole(c)'
  <2> DEFINE n == Len(Log(c))
             new == Log(c)'
  <2>1. /\ Len(new) = n + 2
        /\ \A i \in 1 .. n : new[i] = Log(c)[i]
        /\ new[n + 1] = [role |-> "user", by |-> r, text |-> "user"]
        /\ new[n + 2] = [role |-> "assistant", by |-> r, text |-> answer[r]]
    BY <1>5, StoreFacts, Zenon DEF Log
  <2>2. n \in Nat /\ n % 2 = 0 /\ (n + 2) % 2 = 0 /\ (n + 1) % 2 = 1
    <3>1. n \in Nat /\ n % 2 = 0
      BY <1>1 DEF Rows, Whole
    <3> HIDE DEF n
    <3> QED
      BY <3>1
  <2>3. asked' = asked /\ answer' = answer
    BY <1>5 DEF Stores
  <2>4. \A i \in 1 .. n : Log(c)[i].by # r
    <3>1. pc[r] \notin AfterStore
      BY <1>5 DEF Stores, AfterStore, Replied
    <3> QED
      BY <1>3, <3>1 DEF Rows, Placed
  <2>5. Whole(c)
    BY DEF Rows
  <2> HIDE DEF n, new
  <2>6. \A i \in 1 .. n + 2 : i % 2 = 1 => i \in 1 .. n - 1 \/ i = n + 1
    BY <2>2
  <2>7. ASSUME NEW i \in 1 .. n - 1, i % 2 = 1
        PROVE  /\ asked'[new[i].by].conv = c
               /\ new[i].by \in Requests
               /\ new[i].by # r
               /\ new[i].role = "user"
               /\ new[i + 1] = [role |-> "assistant", by |-> new[i].by,
                                text |-> answer'[new[i].by]]
               /\ new[i] = Log(c)[i]
    <3>1. i \in 1 .. n /\ i + 1 \in 1 .. n
      BY <2>2
    <3> QED
      BY <2>1, <2>3, <2>4, <2>5, <2>7, <3>1 DEF Whole, n
  <2>8. new[n + 1].by = r /\ new[n + 1].role = "user"
    BY <2>1
  <2>9. new[n + 2] = [role |-> "assistant", by |-> new[n + 1].by, text |-> answer'[new[n + 1].by]]
    BY <2>1, <2>3, <2>8
  <2>10. asked'[r].conv = c
    BY <1>5, <2>3 DEF Conv
  <2>11. ASSUME NEW i \in 1 .. n + 2, i % 2 = 1
         PROVE  /\ asked'[new[i].by].conv = c
                /\ new[i].by \in Requests
                /\ new[i].role = "user"
                /\ i + 1 <= n + 2
                /\ new[i + 1] = [role |-> "assistant", by |-> new[i].by,
                                 text |-> answer'[new[i].by]]
    <3>1. CASE i \in 1 .. n - 1
      BY <2>2, <2>7, <2>11, <3>1
    <3>2. CASE i = n + 1
      <4>1. i + 1 = n + 2 /\ i + 1 <= n + 2
        BY <2>2, <3>2
      <4> QED
        BY <2>8, <2>9, <2>10, <3>2, <4>1
    <3> QED
      BY <2>6, <2>11, <3>1, <3>2
  <2>12. ASSUME NEW i \in 1 .. n + 2, NEW j \in 1 .. n + 2, i % 2 = 1, j % 2 = 1,
                new[i].by = new[j].by
         PROVE  i = j
    <3>1. i \in 1 .. n - 1 \/ i = n + 1
      BY <2>6, <2>12
    <3>2. j \in 1 .. n - 1 \/ j = n + 1
      BY <2>6, <2>12
    <3>3. CASE i \in 1 .. n - 1 /\ j \in 1 .. n - 1
      <4>1. i \in 1 .. n /\ j \in 1 .. n
        BY <2>2, <3>3
      <4> QED
        BY <2>5, <2>7, <2>12, <3>3, <4>1 DEF Whole, n
    <3> QED
      BY <2>7, <2>8, <2>12, <3>1, <3>2, <3>3
  <2> QED
    BY <2>1, <2>2, <2>11, <2>12 DEF Whole, new
<1> QED
  BY <1>4, <1>5, StepRows, StoreFacts DEF RowStep, Quiet, Inserts

\* The steps together.
LEMMA NextRows == Inv /\ Rows /\ [Next]_vars => Rows'
<1> SUFFICES ASSUME Inv, Rows, [Next]_vars
             PROVE  Rows'
  OBVIOUS
<1>0. ASSUME UNCHANGED <<messages, asked, answer>>,
             \A q \in Requests : pc'[q] = pc[q] \/
                 (pc[q] \in WorkingPc /\ pc'[q] = "interrupted")
      PROVE  Rows'
  <2>1. ASSUME NEW c \in Convs
        PROVE  Whole(c)'
    <3>1. Whole(c)
      BY DEF Rows
    <3>2. Log(c)' = Log(c)
      BY <1>0 DEF Log
    <3>3. asked' = asked /\ answer' = answer
      BY <1>0
    <3> QED
      BY <3>1, <3>2, <3>3 DEF Whole
  <2>2. ASSUME NEW q \in Requests
        PROVE  Placed(q)'
    <3>1. Stored(q)' <=> Stored(q)
      BY <1>0 DEF Stored
    <3>2. Placed(q)
      BY DEF Rows
    <3> QED
      BY <1>0, <3>1, <3>2 DEF Placed, AfterStore, Replied
  <2> QED
    BY <2>1, <2>2 DEF Rows
<1>1. CASE UNCHANGED vars
  BY <1>0, <1>1 DEF vars
<1>2. CASE Crash
  BY <1>0, <1>2, CrashKeeps DEF database, state
<1>3. ASSUME NEW r \in Requests, Step(r)
      PROVE  Rows'
  BY <1>3, StepPlaced, StepWhole DEF Rows
<1> QED
  BY <1>1, <1>2, <1>3, NextCases

\* The tables are empty.
LEMMA InitRows == Init => Rows
<1> SUFFICES ASSUME Init PROVE Rows
  OBVIOUS
<1>1. \A c \in Convs : Len(messages[c]) = 0
  BY DEF Init
<1>2. ASSUME NEW r \in Requests
      PROVE  ~ Stored(r) /\ pc[r] = "new"
  <2>1. pc[r] = "new"
    BY DEF Init
  <2>2. ASSUME NEW c \in Convs, NEW i \in 1 .. Len(messages[c])
        PROVE  FALSE
    BY <1>1
  <2> QED
    BY <2>1, <2>2 DEF Stored
<1>3. ASSUME NEW c \in Convs
      PROVE  Whole(c)
  <2>1. Len(Log(c)) = 0 /\ 0 % 2 = 0
    BY <1>1 DEF Log
  <2>2. \A i \in 1 .. Len(Log(c)) : FALSE
    BY <2>1
  <2> QED
    BY <2>1, <2>2 DEF Whole
<1> QED
  BY <1>2, <1>3 DEF Rows, Placed, Replied

\* Pairs at odd places are what ExchangesWhole asks for.
LEMMA WholeSuffices == Rows => ExchangesWhole
BY DEF Rows, Whole, Log, ExchangesWhole

\* However many requests write to however many conversations at once, every conversation is
\* a sequence of whole exchanges, one at most of a request and with the answer it ended with.
THEOREM WholeExchanges == EndpointSpec => []ExchangesWhole
<1>1. EndpointInit => Rows
  BY InitRows DEF EndpointInit
<1>2. Inv /\ Rows /\ [EndpointNext]_allVars => Rows'
  BY NextRows, EndpointSteps
<1> QED
  BY <1>1, <1>2, WholeSuffices, InvAlways, PTL DEF EndpointSpec


-----------------------------------------------------------------------------
(* The guard                                                               *)

Checked(r) ==
    GuardEnabled /\ pc[r] \in {"persist_load", "persist_commit"} => answer[r] # "sensitive"

\* GuardedAnswers of one conversation.
Clean(c) == GuardEnabled => \A i \in 1 .. Len(messages[c]) : messages[c][i].text # "sensitive"

GuardInv == (\A r \in Requests : Checked(r)) /\ \A c \in Convs : Clean(c)

\* Behind the output guardrail an answer is not the sensitive one.
LEMMA StepChecked ==
    ASSUME Inv, NEW r \in Requests, Checked(r), Step(r)
    PROVE  Checked(r)'
<1>a. Checked(r)
  OBVIOUS
<1>1. CASE \E a \in Ask : Start(r, a)
  BY <1>1, <1>a, Moves DEF Start, Checked, NodePc, DatabasePc, WorkingPc, database, session, state
<1>2. CASE LoadContext(r)
  BY <1>2, <1>a, Moves DEF LoadContext, Checked, NodePc, DatabasePc, WorkingPc, database, session, state
<1>3. CASE LoadMemory(r)
  BY <1>3, <1>a, Moves DEF LoadMemory, Checked, NodePc, DatabasePc, WorkingPc, database, session, state
<1>4. CASE CallModel(r)
  <2>1. ASSUME NEW text \in ModelText, ModelAnswers(r, text)
        PROVE  Checked(r)'
    BY <2>1, <1>a, Moves DEF ModelAnswers, Checked, NodePc, DatabasePc, WorkingPc, database, session, state
  <2>2. ASSUME NEW n \in 1 .. MaxCalls, ModelCallsTools(r, n)
        PROVE  Checked(r)'
    BY <2>2, <1>a, Moves DEF ModelCallsTools, ToolLimitExceeded, Checked, NodePc, DatabasePc, WorkingPc, database, session, state
  <2>3. CASE ModelFails(r)
    BY <2>3, <1>a, Moves DEF ModelFails, Checked, NodePc, DatabasePc, WorkingPc, database, session, state
  <2> QED
    BY <1>4, <2>1, <2>2, <2>3 DEF CallModel
<1>5. CASE ExecuteTools(r)
  BY <1>5, <1>a, Moves DEF ExecuteTools, Checked, NodePc, DatabasePc, WorkingPc, database, session, state
<1>6. CASE ToolLoad(r)
  BY <1>6, <1>a, Moves DEF ToolLoad, LoadConversation, Checked, NodePc, DatabasePc, WorkingPc, database, session, state
<1>7. CASE ToolInsert(r)
  BY <1>7, <1>a, Moves DEF ToolInsert, Checked, NodePc, DatabasePc, WorkingPc, database, session, state
<1>8. CASE ToolExecute(r)
  BY <1>8, <1>a, Moves DEF ToolExecute, Checked, NodePc, DatabasePc, WorkingPc, database, session, state
<1>9. CASE ToolFinish(r)
  BY <1>9, <1>a, Moves DEF ToolFinish, Checked, NodePc, DatabasePc, WorkingPc, database, session, state
<1>10. CASE OutputGuardrail(r)
  <2>1. ASSUME GuardEnabled, pc'[r] # "failed"
        PROVE  answer'[r] # "sensitive"
    <3>1. PICK t \in Guarded(answer[r]) : answer' = [answer EXCEPT ![r] = t]
      BY <1>10, <2>1, Moves DEF OutputGuardrail
    <3>2. answer'[r] = t
      BY <3>1 DEF Inv, TypeOK
    <3> QED
      BY <3>1, <3>2 DEF Guarded
  <2> QED
    BY <2>1 DEF Checked
<1>11. CASE PersistLoad(r)
  BY <1>11, <1>a, Moves DEF PersistLoad, LoadConversation, Checked, NodePc, DatabasePc, WorkingPc, database, session, state
<1>12. CASE PersistCommit(r)
  BY <1>12, <1>a, Moves DEF PersistCommit, Checked, NodePc, DatabasePc, WorkingPc, database, session, state
<1>13. CASE WriteMemory(r)
  BY <1>13, <1>a, Moves DEF WriteMemory, Checked, NodePc, DatabasePc, WorkingPc, database, session, state
<1>14. CASE RecursionExceeded(r)
  BY <1>14, <1>a, Moves DEF RecursionExceeded, Checked, NodePc, DatabasePc, WorkingPc, database, session, state
<1>15. CASE AnswerLost(r)
  BY <1>15, <1>a, Moves DEF AnswerLost, Checked, NodePc, DatabasePc, WorkingPc, database, session, state
<1>16. CASE DatabaseFails(r)
  BY <1>16, <1>a, Moves DEF DatabaseFails, Checked, NodePc, DatabasePc, WorkingPc, database, session, state
<1>17. CASE Cancel(r)
  BY <1>17, <1>a, Moves DEF Cancel, Checked, NodePc, DatabasePc, WorkingPc, database, session, state
<1>18. CASE CheckpointFails(r)
  BY <1>18, <1>a, Moves DEF CheckpointFails, Checked, NodePc, DatabasePc, WorkingPc, database, session, state
<1>19. CASE ToolReport(r)
  BY <1>19, <1>a, Moves DEF ToolReport, Checked, NodePc, DatabasePc, WorkingPc, database, session, state
<1>20. CASE PersistStream(r)
  BY <1>20, <1>a, Moves DEF PersistStream, Checked, NodePc, DatabasePc, WorkingPc, database, session, state
<1>21. CASE Finish(r)
  BY <1>21, <1>a, Moves DEF Finish, Checked, NodePc, DatabasePc, WorkingPc, database, session, state
<1> QED
  BY <1>1, <1>2, <1>3, <1>4, <1>5, <1>6, <1>7, <1>8, <1>9, <1>10, <1>11, <1>12, <1>13,
     <1>14, <1>15, <1>16, <1>17, <1>18, <1>19, <1>20, <1>21 DEF Step, Proceeds, IsFailed

\* So no row is.
LEMMA StepClean ==
    ASSUME Inv, GuardInv, NEW r \in Requests, Step(r), NEW c \in Convs
    PROVE  Clean(c)'
<1>0. Clean(c)
  BY DEF GuardInv
<1>1. CASE messages'[c] = messages[c]
  BY <1>0, <1>1 DEF Clean
<1>2. CASE Stores(r) /\ c = Conv(r)
  <2> DEFINE n == Len(messages[c])
             new == messages'[c]
  <2>1. /\ Len(new) = n + 2
        /\ \A i \in 1 .. n : new[i] = messages[c][i]
        /\ new[n + 1] = [role |-> "user", by |-> r, text |-> "user"]
        /\ new[n + 2] = [role |-> "assistant", by |-> r, text |-> answer[r]]
    BY <1>2, StoreFacts, Zenon
  <2>2. n \in Nat
    BY DEF Inv, TypeOK
  <2>3. GuardEnabled => answer[r] # "sensitive"
    BY <1>2 DEF Stores, GuardInv, Checked
  <2>4. GuardEnabled => \A i \in 1 .. n : messages[c][i].text # "sensitive"
    BY <1>0 DEF Clean
  <2> HIDE DEF n, new
  <2>5. new[n + 1].text = "user" /\ new[n + 2].text = answer[r]
    BY <2>1
  <2>6. ASSUME GuardEnabled, NEW i \in 1 .. n + 2
        PROVE  new[i].text # "sensitive"
    <3>1. i \in 1 .. n \/ i = n + 1 \/ i = n + 2
      BY <2>2
    <3> QED
      BY <2>1, <2>3, <2>4, <2>5, <2>6, <3>1
  <2> QED
    BY <2>1, <2>6 DEF Clean, new
<1> QED
  BY <1>1, <1>2, StepRows, StoreFacts DEF RowStep, Quiet, Inserts

\* The steps together.
LEMMA NextGuard == Inv /\ GuardInv /\ [Next]_vars => GuardInv'
<1> SUFFICES ASSUME Inv, GuardInv, [Next]_vars
             PROVE  GuardInv'
  OBVIOUS
<1>0. ASSUME UNCHANGED <<messages, answer>>,
             \A q \in Requests : pc'[q] = pc[q] \/ pc'[q] = "interrupted"
      PROVE  GuardInv'
  <2>1. ASSUME NEW c \in Convs
        PROVE  Clean(c)'
    BY <1>0 DEF GuardInv, Clean
  <2>2. ASSUME NEW q \in Requests
        PROVE  Checked(q)'
    BY <1>0 DEF GuardInv, Checked
  <2> QED
    BY <2>1, <2>2 DEF GuardInv
<1>1. CASE UNCHANGED vars
  BY <1>0, <1>1 DEF vars
<1>2. CASE Crash
  BY <1>0, <1>2, CrashKeeps DEF database, state
<1>3. ASSUME NEW r \in Requests, Step(r)
      PROVE  GuardInv'
  <2>1. ASSUME NEW q \in Requests, q # r
        PROVE  Checked(q)'
    BY <1>3, <2>1, Frame DEF Own, GuardInv, Checked
  <2>2. Checked(r)'
    BY <1>3, StepChecked DEF GuardInv
  <2> QED
    BY <1>3, <2>1, <2>2, StepClean DEF GuardInv
<1> QED
  BY <1>1, <1>2, <1>3, NextCases

\* The tables are empty.
LEMMA InitGuard == Init => GuardInv
<1> SUFFICES ASSUME Init PROVE GuardInv
  OBVIOUS
<1>1. ASSUME NEW c \in Convs
      PROVE  Clean(c)
  <2>1. Len(messages[c]) = 0
    BY DEF Init
  <2>2. \A i \in 1 .. Len(messages[c]) : FALSE
    BY <2>1
  <2> QED
    BY <2>2 DEF Clean
<1> QED
  BY <1>1 DEF GuardInv, Init, Checked

\* With an output guard nothing that it would redact or block is ever stored, whatever the
\* tool rounds and the requests beside it.
THEOREM NothingUnguarded == EndpointSpec => []GuardedAnswers
<1>1. EndpointInit => GuardInv
  BY InitGuard DEF EndpointInit
<1>2. Inv /\ GuardInv /\ [EndpointNext]_allVars => GuardInv'
  BY NextGuard, EndpointSteps
<1>3. GuardInv => GuardedAnswers
  BY DEF GuardInv, Clean, GuardedAnswers
<1> QED
  BY <1>1, <1>2, <1>3, InvAlways, PTL DEF EndpointSpec

-----------------------------------------------------------------------------
(* The owner of a conversation                                             *)

OwnedBy(r) == asked[r].owner # NoOwner => owner[Conv(r)] = asked[r].owner

\* A conversation that was found stays its finder's until it is written to, and what was
\* written to stays its writer's.
Owns(r) ==
    /\ pc[r] \in Inserting /\ found[r] => Exists(r) /\ OwnedBy(r)
    /\ Stored(r) \/ toolRuns[r] # <<>> => OwnedBy(r)

\* The owner of a conversation never changes once it has a row.
LEMMA OwnerStands ==
    ASSUME Inv, NEW r \in Requests, Step(r), NEW c \in Convs, owner[c] # NoRow
    PROVE  owner'[c] = owner[c]
<1>1. owner \in [Convs -> Owners \union {NoRow}]
  BY DEF Inv, TypeOK
<1>2. CASE WithConversation(r) /\ ~ InsertFails(r)
  BY <1>1, <1>2 DEF WithConversation, InsertFails, Exists
<1> QED
  BY <1>2, StepRows DEF RowStep, Quiet, Inserts, Stores, StoreExchange

\* so what a request found out about it stands.
LEMMA OwnedStands ==
    ASSUME Inv, NEW r \in Requests, Step(r), NEW q \in Requests, pc[q] # "new", OwnedBy(q)
    PROVE  OwnedBy(q)' /\ (Exists(q) => Exists(q)')
<1>1. asked[q] \in Ask /\ NoRow \notin Owners
  BY WorkflowAssumption DEF Inv, Progress
<1>2. Conv(q) \in Convs /\ asked[q].owner \in Owners
  BY <1>1 DEF Ask, Conv
<1>3. asked'[q] = asked[q]
  BY StepRows, Frame DEF RowStep, Own
<1>4. owner[Conv(q)] # NoRow => owner'[Conv(q)] = owner[Conv(q)]
  BY <1>2, OwnerStands
<1> QED
  BY <1>1, <1>2, <1>3, <1>4 DEF OwnedBy, Exists, Conv

\* A request stores into a conversation it found its own, or inserted.
LEMMA StepOwns ==
    ASSUME Inv, NEW r \in Requests, Step(r), \A p \in Requests : Owns(p), Rows,
           NEW q \in Requests
    PROVE  Owns(q)'
<1>0. Owns(q) /\ Placed(q)
  BY DEF Rows
<1>1. Stored(q) \/ toolRuns[q] # <<>> \/ pc[q] \in Inserting => pc[q] # "new"
  BY <1>0 DEF Placed, AfterStore, Replied, Inserting, Inv, Progress
<1>2. CASE q # r
  <2>1. UNCHANGED <<pc[q], found[q], toolRuns[q]>>
    BY <1>2, Frame DEF Own
  <2>2. Stored(q)' <=> Stored(q)
    BY <1>2, StoredFacts
  <2> QED
    BY <1>0, <1>1, <2>1, <2>2, OwnedStands DEF Owns
<1>3. CASE q = r
  <2>1. RowStep(r)
    BY StepRows
  <2>2. ASSUME pc'[r] \in Inserting, found'[r]
        PROVE  Exists(r)' /\ OwnedBy(r)'
    BY <2>1, <2>2 DEF RowStep, Exists, OwnedByOther, OwnedBy, Conv
  \* A row that was not found is inserted with the owner of the request.
  <2>3. ASSUME WithConversation(r), asked' = asked, pc[r] \in Inserting
        PROVE  OwnedBy(r)'
    <3>1. CASE found[r]
      BY <1>0, <1>3, <2>3, <3>1 DEF WithConversation, Owns, OwnedBy, Conv
    <3>2. CASE ~ found[r]
      <4>1. Conv(r) \in Convs /\ owner \in [Convs -> Owners \union {NoRow}]
        BY <2>3 DEF Inv, TypeOK, Progress, Inserting, Ask, Conv
      <4> QED
        BY <2>3, <3>2, <4>1 DEF WithConversation, OwnedBy, Conv
    <3> QED
      BY <3>1, <3>2
  <2>4. ASSUME Stored(r) \/ toolRuns[r] # <<>>
        PROVE  OwnedBy(r)'
    BY <1>0, <1>1, <1>3, <2>4, OwnedStands DEF Owns
  <2>5. ASSUME Stored(r)' \/ toolRuns'[r] # <<>>
        PROVE  OwnedBy(r)'
    <3>1. \/ Stored(r) \/ toolRuns[r] # <<>>
          \/ Inserts(r) \/ Stores(r)
      BY <2>1, <2>5, StoredFacts DEF RowStep
    <3> QED
      BY <2>3, <2>4, <3>1 DEF Inserts, Stores, StoreExchange, Inserting
  <2> QED
    BY <1>3, <2>2, <2>5 DEF Owns
<1> QED
  BY <1>2, <1>3

\* The steps together.
LEMMA NextOwns ==
    Inv /\ Rows /\ (\A r \in Requests : Owns(r)) /\ [Next]_vars => \A r \in Requests : Owns(r)'
<1> SUFFICES ASSUME Inv, Rows, \A r \in Requests : Owns(r), [Next]_vars, NEW q \in Requests
             PROVE  Owns(q)'
  OBVIOUS
<1>0. ASSUME UNCHANGED <<messages, owner, asked, toolRuns, found>>,
             pc'[q] = pc[q] \/ pc'[q] = "interrupted"
      PROVE  Owns(q)'
  BY <1>0 DEF Owns, OwnedBy, Exists, Conv, Stored, Inserting
<1>1. CASE UNCHANGED vars
  BY <1>0, <1>1 DEF vars
<1>2. CASE Crash
  BY <1>0, <1>2, CrashKeeps DEF database, session
<1> QED
  BY <1>1, <1>2, NextCases, StepOwns

\* Nobody has begun.
LEMMA InitOwns == Init => \A r \in Requests : Owns(r)
<1> SUFFICES ASSUME Init, NEW r \in Requests PROVE Owns(r)
  OBVIOUS
<1>1. Placed(r) /\ pc[r] = "new" /\ toolRuns[r] = <<>>
  BY InitRows DEF Rows, Init
<1> QED
  BY <1>1 DEF Owns, Placed, AfterStore, Replied, Inserting

\* With authentication on, whatever a request writes is in a conversation of its owner, also
\* when any number of users race to create the same id.
THEOREM OwnConversations == EndpointSpec => []OwnedConversations
<1>1. EndpointInit => Rows /\ \A r \in Requests : Owns(r)
  BY InitRows, InitOwns DEF EndpointInit
<1>2. Inv /\ Rows /\ (\A r \in Requests : Owns(r)) /\ [EndpointNext]_allVars =>
          Rows' /\ (\A r \in Requests : Owns(r))'
  BY NextRows, NextOwns, EndpointSteps
<1>3. (\A r \in Requests : Owns(r)) => OwnedConversations
  BY DEF Owns, OwnedBy, OwnedConversations
<1> QED
  BY <1>1, <1>2, <1>3, InvAlways, PTL DEF EndpointSpec


-----------------------------------------------------------------------------
(* The endpoint                                                            *)

OpenHttp == {"waiting", "streaming"}

\* Where the exchange of a request stands, and what of its run is left.
Attended(r) ==
    /\ http[r] \in Http
    /\ http[r] \in {"idle", "screened"} => pc[r] = "new"
    /\ http[r] \in OpenHttp => pc[r] # "new"
    /\ http[r] = "disconnected" => gone[r] /\ pc[r] # "new"
    /\ http[r] \notin OpenHttp \union {"idle", "screened", "disconnected"} => pc[r] \in EndPc

Handler ==
    /\ http \in [Requests -> Http]
    /\ delivered \in [Requests -> Nat]
    /\ gone \in [Requests -> BOOLEAN]
    /\ recorded \in [Requests -> Seq(Outcome)]
    /\ \A r \in Requests : Attended(r)

\* Only a run at work takes a step of its own, and only to more work or to an end.
LEMMA RunWorks ==
    ASSUME Inv, NEW r \in Requests, Run(r)
    PROVE  pc[r] \in WorkingPc /\ pc'[r] # "new" /\ Step(r) /\ UNCHANGED endpoint
<1>0. UNCHANGED endpoint /\ Step(r)
  BY DEF Run, Step
<1> DEFINE Works == pc[r] \in WorkingPc /\ pc'[r] # "new"
<1> SUFFICES Works
  BY <1>0
<1>2. CASE LoadContext(r)
  BY <1>2, Moves DEF LoadContext, NodePc, DatabasePc, WorkingPc
<1>3. CASE LoadMemory(r)
  BY <1>3, Moves DEF LoadMemory, NodePc, DatabasePc, WorkingPc
<1>4. CASE CallModel(r)
  <2>1. ASSUME NEW text \in ModelText, ModelAnswers(r, text)
        PROVE  Works
    BY <2>1, Moves DEF ModelAnswers, NodePc, DatabasePc, WorkingPc
  <2>2. ASSUME NEW n \in 1 .. MaxCalls, ModelCallsTools(r, n)
        PROVE  Works
    BY <2>2, Moves DEF ModelCallsTools, ToolLimitExceeded, NodePc, DatabasePc, WorkingPc
  <2>3. CASE ModelFails(r)
    BY <2>3, Moves DEF ModelFails, NodePc, DatabasePc, WorkingPc
  <2> QED
    BY <1>4, <2>1, <2>2, <2>3 DEF CallModel
<1>5. CASE ExecuteTools(r)
  BY <1>5, Moves DEF ExecuteTools, NodePc, DatabasePc, WorkingPc
<1>6. CASE ToolLoad(r)
  BY <1>6, Moves DEF ToolLoad, LoadConversation, NodePc, DatabasePc, WorkingPc
<1>7. CASE ToolInsert(r)
  BY <1>7, Moves DEF ToolInsert, NodePc, DatabasePc, WorkingPc
<1>8. CASE ToolExecute(r)
  BY <1>8, Moves DEF ToolExecute, NodePc, DatabasePc, WorkingPc
<1>9. CASE ToolFinish(r)
  BY <1>9, Moves DEF ToolFinish, NodePc, DatabasePc, WorkingPc
<1>10. CASE OutputGuardrail(r)
  BY <1>10, Moves DEF OutputGuardrail, NodePc, DatabasePc, WorkingPc
<1>11. CASE PersistLoad(r)
  BY <1>11, Moves DEF PersistLoad, LoadConversation, NodePc, DatabasePc, WorkingPc
<1>12. CASE PersistCommit(r)
  BY <1>12, Moves DEF PersistCommit, NodePc, DatabasePc, WorkingPc
<1>13. CASE WriteMemory(r)
  BY <1>13, Moves DEF WriteMemory, NodePc, DatabasePc, WorkingPc
<1>14. CASE RecursionExceeded(r)
  BY <1>14, Moves DEF RecursionExceeded, NodePc, DatabasePc, WorkingPc
<1>15. CASE AnswerLost(r)
  BY <1>15, Moves DEF AnswerLost, NodePc, DatabasePc, WorkingPc
<1>16. CASE DatabaseFails(r)
  BY <1>16, Moves DEF DatabaseFails, NodePc, DatabasePc, WorkingPc
<1>18. CASE CheckpointFails(r)
  BY <1>18, Moves DEF CheckpointFails, NodePc, DatabasePc, WorkingPc
<1>19. CASE ToolReport(r)
  BY <1>19, Moves DEF ToolReport, NodePc, DatabasePc, WorkingPc
<1>20. CASE PersistStream(r)
  BY <1>20, Moves DEF PersistStream, NodePc, DatabasePc, WorkingPc
<1>21. CASE Finish(r)
  BY <1>21, Moves DEF Finish, NodePc, DatabasePc, WorkingPc
<1> QED
  BY <1>2, <1>3, <1>4, <1>5, <1>6, <1>7, <1>8, <1>9, <1>10, <1>11, <1>12, <1>13,
     <1>14, <1>15, <1>16, <1>18, <1>19, <1>20, <1>21 DEF Run, Proceeds, IsFailed

\* What one step of a handler does to the exchanges: it moves the one of its request and
\* leaves the runs alone.
LEMMA HandlesFacts ==
    ASSUME Handler, NEW r \in Requests, Handles(r)
    PROVE  /\ \A q \in Requests : q # r => http'[q] = http[q]
           /\ http[r] \in OpenHttp
           /\ UNCHANGED <<vars, gone>>
           /\ \/ http'[r] \in OpenHttp
              \/ http'[r] \in {"answered", "closed"} /\ pc[r] = "completed"
              \/ http'[r] = "error_event" /\ pc[r] = "failed" /\ error[r] \in CaughtInStream
              \/ http'[r] \in {"http_error", "broken"} /\ pc[r] = "failed"
              \/ http'[r] = "disconnected" /\ gone[r]
<1>t. /\ http \in [Requests -> Http]
      /\ \A h : Responds(r, h) => http'[r] = h /\ \A q \in Requests : q # r => http'[q] = http[q]
  BY DEF Handler, Responds
<1>1. CASE SyncCompletes(r)
  BY <1>1, <1>t DEF SyncCompletes, OpenHttp
<1>2. CASE FailsBeforeStart(r)
  BY <1>2, <1>t DEF FailsBeforeStart, OpenHttp
<1>3. CASE FirstEvent(r)
  BY <1>3, <1>t DEF FirstEvent, OpenHttp
<1>4. CASE Deliver(r)
  BY <1>4, <1>t DEF Deliver, Pending, OpenHttp
<1>5. CASE NoticeGone(r)
  BY <1>5, <1>t DEF NoticeGone, Pending, OpenHttp
<1>6. CASE ServerCancels(r)
  BY <1>6, <1>t DEF ServerCancels, OpenHttp
<1>7. CASE StreamCompletes(r)
  BY <1>7, <1>t DEF StreamCompletes, Drained, OpenHttp
<1>8. CASE StreamFails(r)
  BY <1>8, <1>t DEF StreamFails, Drained, OpenHttp
<1> QED
  BY <1>1, <1>2, <1>3, <1>4, <1>5, <1>6, <1>7, <1>8 DEF Handles

\* Its types.
LEMMA HandlesTypes ==
    ASSUME Handler, NEW r \in Requests, Handles(r)
    PROVE  /\ http' \in [Requests -> Http]
           /\ delivered' \in [Requests -> Nat]
           /\ gone' \in [Requests -> BOOLEAN]
           /\ recorded' \in [Requests -> Seq(Outcome)]
<1>1. ASSUME NEW h \in Http, Responds(r, h)
      PROVE  http' \in [Requests -> Http]
  BY <1>1 DEF Responds, Handler
<1>2. ASSUME NEW o \in Outcome, Records(r, o)
      PROVE  recorded' \in [Requests -> Seq(Outcome)]
  <2>1. Append(recorded[r], o) \in Seq(Outcome)
    BY DEF Handler
  <2> QED
    BY <1>2, <2>1 DEF Records, Handler
<1>3. {"success", "error", "disconnected"} = Outcome
  BY DEF Outcome
<1>4. FinalizeAtEnd(r) => recorded' \in [Requests -> Seq(Outcome)]
  BY <1>2, <1>3 DEF FinalizeAtEnd, Handler
<1>5. {"answered", "http_error", "streaming", "disconnected", "closed", "error_event", "broken"}
          \subseteq Http
  BY DEF Http
<1>6. /\ delivered \in [Requests -> Nat] /\ gone \in [Requests -> BOOLEAN]
      /\ recorded \in [Requests -> Seq(Outcome)] /\ http \in [Requests -> Http]
  BY DEF Handler
<1> QED
  BY <1>1, <1>2, <1>3, <1>4, <1>5, <1>6
     DEF Handles, SyncCompletes, FailsBeforeStart, FirstEvent, Deliver, NoticeGone,
         ServerCancels, StreamCompletes, StreamFails

\* A run that is at work is attended by its handler.
LEMMA NextHandler == Inv /\ Handler /\ [EndpointNext]_allVars => Handler'
<1> SUFFICES ASSUME Inv, Handler, [EndpointNext]_allVars
             PROVE  Handler'
  OBVIOUS
<1>t. /\ delivered \in [Requests -> Nat] /\ gone \in [Requests -> BOOLEAN]
      /\ recorded \in [Requests -> Seq(Outcome)] /\ http \in [Requests -> Http]
  BY DEF Handler
<1>1. CASE UNCHANGED allVars
  BY <1>1 DEF allVars, Handler, Attended
<1>2. ASSUME NEW r \in Requests, NEW a \in Ask, Receive(r, a)
      PROVE  Handler'
  <2>1. \A q \in Requests : q # r => pc'[q] = pc[q] /\ http'[q] = http[q]
    BY <1>2, <1>t DEF Receive, Start, Goto, Responds, Inv, TypeOK
  <2>2. http'[r] = "waiting" /\ http' \in [Requests -> Http] /\ pc'[r] = "load_context"
    BY <1>2, <1>t DEF Receive, Responds, Http, Start, Goto, Inv, TypeOK
  <2>3. UNCHANGED <<delivered, gone, recorded>>
    BY <1>2 DEF Receive
  <2>4. \A q \in Requests : Attended(q)'
    BY <2>1, <2>2, <2>3 DEF Handler, Attended, OpenHttp, Http
  <2> QED
    BY <1>t, <2>2, <2>3, <2>4 DEF Handler
<1>3. ASSUME NEW r \in Requests, Screen(r)
      PROVE  Handler'
  <2>1. UNCHANGED <<pc, delivered, gone, recorded>>
    BY <1>3 DEF Screen, vars
  <2>2. http[r] = "idle" /\ http' = [http EXCEPT ![r] = "screened"]
    BY <1>3 DEF Screen, Responds
  <2> QED
    BY <1>t, <2>1, <2>2 DEF Handler, Attended, OpenHttp, Http
<1>4. ASSUME NEW r \in Requests, Run(r)
      PROVE  Handler'
  <2>1. pc[r] \in WorkingPc /\ pc'[r] # "new" /\ UNCHANGED <<http, delivered, gone, recorded>>
    BY <1>4, RunWorks DEF endpoint
  <2>2. \A q \in Requests : q # r => pc'[q] = pc[q]
    BY <1>4, RunWorks, Frame DEF Own
  <2>3. http[r] \in OpenHttp \union {"disconnected"}
    BY <2>1 DEF Handler, Attended, WorkingPc, DatabasePc, EndPc
  <2>4. \A q \in Requests : Attended(q)'
    BY <2>1, <2>2, <2>3 DEF Handler, Attended, OpenHttp
  <2> QED
    BY <1>t, <2>1, <2>4 DEF Handler
<1>5. ASSUME NEW r \in Requests, Handles(r)
      PROVE  Handler'
  <2>1. UNCHANGED <<pc, gone>>
    BY <1>5, HandlesFacts DEF vars
  <2>2. \A q \in Requests : q # r => Attended(q)'
    BY <1>5, <2>1, HandlesFacts DEF Handler, Attended
  <2>3. pc[r] # "new"
    BY <1>5, HandlesFacts DEF Handler, Attended
  <2>4. http'[r] \in Http
    BY <1>5, HandlesTypes
  <2>5. Attended(r)'
    BY <1>5, <2>1, <2>3, <2>4, HandlesFacts DEF Attended, OpenHttp, EndPc
  <2> QED
    BY <1>5, <2>2, <2>5, HandlesTypes DEF Handler
<1>6. ASSUME NEW r \in Requests, ClientLeaves(r)
      PROVE  Handler'
  <2>1. /\ UNCHANGED <<pc, http, delivered, recorded>> /\ gone' \in [Requests -> BOOLEAN]
        /\ \A q \in Requests : gone[q] => gone'[q]
    BY <1>6, <1>t DEF ClientLeaves, vars
  <2> QED
    BY <1>t, <2>1 DEF Handler, Attended
<1>8. ASSUME NEW r \in Requests, FinalizerCloses(r)
      PROVE  Handler'
  <2>1. http[r] = "disconnected" /\ UNCHANGED <<http, delivered, gone, recorded>>
    BY <1>8 DEF FinalizerCloses, endpoint
  <2>2. pc'[r] = "interrupted" /\ \A q \in Requests : q # r => pc'[q] = pc[q]
    BY <1>8 DEF FinalizerCloses, Cancel, Goto, Inv, TypeOK
  <2>3. \A q \in Requests : Attended(q)'
    BY <2>1, <2>2 DEF Handler, Attended, OpenHttp
  <2> QED
    BY <1>t, <2>1, <2>3 DEF Handler
<1>7. CASE ProcessDies
  <2>1. http' = [r \in Requests |-> IF http[r] \in OpenHttp THEN "broken" ELSE http[r]]
    BY <1>7 DEF ProcessDies, OpenHttp
  <2>2. \A q \in Requests : pc'[q] = IF pc[q] \in WorkingPc THEN "interrupted" ELSE pc[q]
    BY <1>7, CrashKeeps DEF ProcessDies
  <2>3. UNCHANGED <<delivered, gone, recorded>>
    BY <1>7 DEF ProcessDies
  <2>4. ASSUME NEW q \in Requests
        PROVE  Attended(q)' /\ http'[q] \in Http
    <3>1. pc[q] \in Pc /\ Attended(q) /\ http[q] \in Http
      BY DEF Handler, Inv, TypeOK
    <3>2. http'[q] = IF http[q] \in OpenHttp THEN "broken" ELSE http[q]
      BY <2>1
    <3>3. CASE http[q] \in OpenHttp
      <4>1. http'[q] = "broken" /\ pc'[q] \in EndPc
        BY <2>2, <3>1, <3>2, <3>3 DEF Attended, Pc, EndPc
      <4> QED
        BY <4>1 DEF Attended, OpenHttp, Http
    <3>4. CASE http[q] \notin OpenHttp
      <4>1. http'[q] = http[q] /\ gone'[q] = gone[q]
        BY <2>3, <3>2, <3>4
      <4>2. pc'[q] = pc[q] \/ (http[q] = "disconnected" /\ pc'[q] = "interrupted")
        BY <2>2, <3>1, <3>4 DEF Attended, EndPc, WorkingPc, DatabasePc
      <4> QED
        BY <3>1, <4>1, <4>2 DEF Attended, OpenHttp
    <3> QED
      BY <3>3, <3>4
  <2>5. http' \in [Requests -> Http]
    BY <2>1, <2>4
  <2> QED
    BY <1>t, <2>3, <2>4, <2>5 DEF Handler
<1> QED
  BY <1>1, <1>2, <1>3, <1>4, <1>5, <1>6, <1>7, <1>8 DEF EndpointNext


\* No handler has begun.
LEMMA InitHandler == EndpointInit => Handler
BY DEF EndpointInit, Init, Handler, Attended, Http, OpenHttp

\* The types of the workflow and of the endpoint around it.
THEOREM EndpointTypes == EndpointSpec => []EndpointTypeOK
<1>1. EndpointInit => Handler
  BY InitHandler
<1>2. Inv /\ Handler /\ [EndpointNext]_allVars => Handler'
  BY NextHandler
<1>3. Inv /\ Handler => EndpointTypeOK
  BY DEF Inv, Handler, EndpointTypeOK
<1> QED
  BY <1>1, <1>2, <1>3, InvAlways, PTL DEF EndpointSpec

\* Nobody who was told how a request ended, or whose stream broke, has its run still at work:
\* whatever fails and dies, only a client that left may leave a run behind the handler, until
\* the finalizer of the generators has cancelled it.
THEOREM NoneOrphaned == EndpointSpec => []NoOrphanRun
<1>1. EndpointInit => Handler
  BY InitHandler
<1>2. Inv /\ Handler /\ [EndpointNext]_allVars => Handler'
  BY NextHandler
<1>3. Handler => NoOrphanRun
  BY DEF Handler, Attended, NoOrphanRun, OpenHttp, WorkingPc, DatabasePc, EndPc
<1> QED
  BY <1>1, <1>2, <1>3, InvAlways, PTL DEF EndpointSpec

-----------------------------------------------------------------------------
(* The contract                                                            *)

\* Where the environment is reliable, a run that stored its exchange does not fail any more.
Kept ==
    /\ registry
    /\ \A r \in Requests : Budget(r)
    /\ \A r \in Requests : Stored(r) => pc[r] # "failed"

\* Elsewhere it may, but not with an error that the handler answers with a status of its own.
Spared ==
    /\ \A r \in Requests : pc[r] # "failed" => error[r] = "none"
    /\ \A r \in Requests : error[r] \in CaughtBeforeStart => ~ Stored(r)
    /\ Reliable => Kept

\* Why a run fails, and what can still fail it behind the commit of its exchange.
Blames(r) ==
    /\ pc[r] \in {"new"} \union WorkingPc
    /\ pc'[r] # "failed" => error'[r] = error[r]
    /\ pc'[r] = "failed" /\ pc[r] \in AfterStore =>
          /\ error'[r] = "other"
          /\ \/ pc[r] = "write_memory" /\ nodes[r] = RecursionLimit
             \/ AnswerLost(r)
             \/ CheckpointFails(r)

\* Behind the commit only LangGraph, the checkpointer and a lost answer fail a run.
LEMMA StepBlames ==
    ASSUME Inv, NEW r \in Requests, Step(r)
    PROVE  Blames(r)
<1>1. CASE \E a \in Ask : Start(r, a)
  BY <1>1, Moves DEF Start, Blames, AfterStore, Replied, NodePc, DatabasePc, WorkingPc
<1>2. CASE LoadContext(r)
  BY <1>2, Moves DEF LoadContext, Blames, AfterStore, Replied, NodePc, DatabasePc, WorkingPc
<1>3. CASE LoadMemory(r)
  BY <1>3, Moves DEF LoadMemory, Blames, AfterStore, Replied, NodePc, DatabasePc, WorkingPc
<1>4. CASE CallModel(r)
  <2>1. ASSUME NEW text \in ModelText, ModelAnswers(r, text)
        PROVE  Blames(r)
    BY <2>1, Moves DEF ModelAnswers, Blames, AfterStore, Replied, NodePc, DatabasePc, WorkingPc
  <2>2. ASSUME NEW n \in 1 .. MaxCalls, ModelCallsTools(r, n)
        PROVE  Blames(r)
    BY <2>2, Moves DEF ModelCallsTools, ToolLimitExceeded, Blames, AfterStore, Replied, NodePc, DatabasePc, WorkingPc
  <2>3. CASE ModelFails(r)
    BY <2>3, Moves DEF ModelFails, Blames, AfterStore, Replied, NodePc, DatabasePc, WorkingPc
  <2> QED
    BY <1>4, <2>1, <2>2, <2>3 DEF CallModel
<1>5. CASE ExecuteTools(r)
  BY <1>5, Moves DEF ExecuteTools, Blames, AfterStore, Replied, NodePc, DatabasePc, WorkingPc
<1>6. CASE ToolLoad(r)
  BY <1>6, Moves DEF ToolLoad, LoadConversation, Blames, AfterStore, Replied, NodePc, DatabasePc, WorkingPc
<1>7. CASE ToolInsert(r)
  BY <1>7, Moves DEF ToolInsert, Blames, AfterStore, Replied, NodePc, DatabasePc, WorkingPc
<1>8. CASE ToolExecute(r)
  BY <1>8, Moves DEF ToolExecute, Blames, AfterStore, Replied, NodePc, DatabasePc, WorkingPc
<1>9. CASE ToolFinish(r)
  BY <1>9, Moves DEF ToolFinish, Blames, AfterStore, Replied, NodePc, DatabasePc, WorkingPc
<1>10. CASE OutputGuardrail(r)
  BY <1>10, Moves DEF OutputGuardrail, Blames, AfterStore, Replied, NodePc, DatabasePc, WorkingPc
<1>11. CASE PersistLoad(r)
  BY <1>11, Moves DEF PersistLoad, LoadConversation, Blames, AfterStore, Replied, NodePc, DatabasePc, WorkingPc
<1>12. CASE PersistCommit(r)
  BY <1>12, Moves DEF PersistCommit, Blames, AfterStore, Replied, NodePc, DatabasePc, WorkingPc
<1>13. CASE WriteMemory(r)
  BY <1>13, Moves DEF WriteMemory, Blames, AfterStore, Replied, NodePc, DatabasePc, WorkingPc
<1>14. CASE RecursionExceeded(r)
  BY <1>14, Moves DEF RecursionExceeded, Blames, AfterStore, Replied, NodePc, DatabasePc, WorkingPc
<1>15. CASE AnswerLost(r)
  BY <1>15, Moves DEF AnswerLost, Blames, AfterStore, Replied, NodePc, DatabasePc, WorkingPc
<1>16. CASE DatabaseFails(r)
  BY <1>16, Moves DEF DatabaseFails, Blames, AfterStore, Replied, NodePc, DatabasePc, WorkingPc
<1>17. CASE Cancel(r)
  BY <1>17, Moves DEF Cancel, Blames, AfterStore, Replied, NodePc, DatabasePc, WorkingPc
<1>18. CASE CheckpointFails(r)
  BY <1>18, Moves DEF CheckpointFails, Blames, AfterStore, Replied, NodePc, DatabasePc, WorkingPc
<1>19. CASE ToolReport(r)
  BY <1>19, Moves DEF ToolReport, Blames, AfterStore, Replied, NodePc, DatabasePc, WorkingPc
<1>20. CASE PersistStream(r)
  BY <1>20, Moves DEF PersistStream, Blames, AfterStore, Replied, NodePc, DatabasePc, WorkingPc
<1>21. CASE Finish(r)
  BY <1>21, Moves DEF Finish, Blames, AfterStore, Replied, NodePc, DatabasePc, WorkingPc
<1> QED
  BY <1>1, <1>2, <1>3, <1>4, <1>5, <1>6, <1>7, <1>8, <1>9, <1>10, <1>11, <1>12, <1>13,
     <1>14, <1>15, <1>16, <1>17, <1>18, <1>19, <1>20, <1>21 DEF Step, Proceeds, IsFailed

\* With a registry and room for the steps a stored request does not fail.
LEMMA NextKept ==
    Reliable /\ Inv /\ Rows /\ Kept /\ [Next]_vars => Kept'
<1> SUFFICES ASSUME Reliable, Inv, Rows, Kept, [Next]_vars
             PROVE  Kept'
  OBVIOUS
<1>0. \A r \in Requests : Budget(r)'
  BY NextBudget DEF Kept
<1>1. CASE UNCHANGED vars
  BY <1>0, <1>1 DEF vars, Kept, Stored
<1>2. CASE Crash
  <2>1. registry' = registry /\ messages' = messages
    BY <1>2, CrashKeeps DEF database
  <2>2. \A q \in Requests : pc'[q] = "failed" => pc[q] = "failed"
    BY <1>2, CrashKeeps
  <2> QED
    BY <1>0, <2>1, <2>2 DEF Kept, Stored
<1>3. ASSUME NEW r \in Requests, Step(r)
      PROVE  Kept'
  <2>1. registry' = registry
    BY <1>3, StepRows DEF RowStep, Kept
  <2>2. ASSUME NEW q \in Requests, Stored(q)'
        PROVE  pc'[q] # "failed"
    <3>1. CASE q # r
      BY <1>3, <2>2, <3>1, Frame, StoredFacts DEF Own, Kept
    <3>2. CASE q = r /\ Stores(r)
      BY <3>2 DEF Stores
    <3>3. CASE q = r /\ Stored(r)
      <4>1. pc[r] \in AfterStore /\ pc[r] # "failed"
        BY <3>3 DEF Rows, Placed, Kept
      <4>2. nodes[r] # RecursionLimit \/ pc[r] # "write_memory"
        <5>1. LoopWithinLimit
          BY BudgetSuffices DEF Kept
        <5>2. pc[r] \in NodePc => nodes[r] < RecursionLimit
          BY <5>1, <1>3 DEF LoopWithinLimit, Kept, Reliable
        <5>3. RecursionLimit \in Nat /\ nodes[r] \in Nat
          BY WorkflowAssumption DEF Inv, TypeOK
        <5> QED
          BY <5>2, <5>3 DEF NodePc
      <4> QED
        BY <1>3, <3>3, <4>1, <4>2, StepBlames DEF Blames, Reliable, AnswerLost, CheckpointFails
    <3> QED
      BY <1>3, <2>2, <3>1, <3>2, <3>3, StoredFacts
  <2> QED
    BY <1>0, <2>1, <2>2 DEF Kept
<1> QED
  BY <1>1, <1>2, <1>3, NextCases


\* Nobody has begun.
LEMMA InitKept == Reliable /\ Init => Kept
<1> SUFFICES ASSUME Reliable, Init PROVE Kept
  OBVIOUS
<1>1. registry
  BY DEF Reliable, Init
<1>2. \A r \in Requests : pc[r] = "new" /\ Budget(r)
  BY DEF Init, Budget
<1> QED
  BY <1>1, <1>2 DEF Kept

\* A run that fails is given its error once, and none of the handler's once it has stored.
LEMMA NextSpared ==
    Inv /\ Rows /\ Spared /\ [Next]_vars => Spared'
<1> SUFFICES ASSUME Inv, Rows, Spared, [Next]_vars
             PROVE  Spared'
  OBVIOUS
<1>k. (Reliable => Kept)'
  BY NextKept DEF Spared, Reliable
<1>1. CASE UNCHANGED vars
  BY <1>k, <1>1 DEF vars, Spared, Stored
<1>2. CASE Crash
  <2>1. messages' = messages /\ error' = error
    BY <1>2, CrashKeeps DEF database
  <2>2. \A q \in Requests : pc'[q] # "failed" => pc[q] # "failed"
    BY <1>2, CrashKeeps DEF WorkingPc, DatabasePc
  <2> QED
    BY <1>k, <2>1, <2>2 DEF Spared, Stored
<1>3. ASSUME NEW r \in Requests, Step(r)
      PROVE  Spared'
  <2>1. ASSUME NEW q \in Requests, q # r
        PROVE  /\ pc'[q] # "failed" => error'[q] = "none"
               /\ error'[q] \in CaughtBeforeStart => ~ Stored(q)'
    BY <1>3, <2>1, Frame, StoredFacts DEF Own, Spared
  <2>2. error[r] = "none" /\ Blames(r)
    BY <1>3, StepBlames DEF Blames, Spared, WorkingPc, DatabasePc
  <2>3. pc'[r] # "failed" => error'[r] = "none"
    BY <2>2 DEF Blames
  <2>4. ASSUME error'[r] \in CaughtBeforeStart
        PROVE  ~ Stored(r)'
    <3>1. pc'[r] = "failed" /\ pc[r] \notin AfterStore
      BY <2>2, <2>3, <2>4 DEF Blames, CaughtBeforeStart
    <3>2. ~ Stored(r) /\ ~ Stores(r)
      BY <3>1 DEF Rows, Placed, Stores
    <3> QED
      BY <1>3, <3>2, StoredFacts
  <2> QED
    BY <1>k, <2>1, <2>3, <2>4 DEF Spared
<1> QED
  BY <1>1, <1>2, <1>3, NextCases

\* Nobody has begun.
LEMMA InitSpared == Init => Spared
BY InitKept DEF Init, Spared, CaughtBeforeStart

ToldOf(r) ==
    CASE http[r] \in {"idle", "waiting", "streaming"} -> "nothing"
      [] http[r] \in {"answered", "closed"} -> "success"
      [] ToldFailed(r) -> "failed"
      [] OTHER -> "cut_off"

\* The mapping of told, as a function of each request.
LEMMA ToldShape ==
    /\ told = [q \in Requests |-> ToldOf(q)]
    /\ told' = [q \in Requests |-> ToldOf(q)']
<1>1. told = [q \in Requests |-> ToldOf(q)]
  BY Zenon DEF told, ToldOf
<1>2. told' = [q \in Requests |-> ToldOf(q)']
  BY Zenon DEF told, ToldOf
<1> QED
  BY <1>1, <1>2

\* told in the words of the exchange, before a step
LEMMA ToldFacts ==
    ASSUME NEW r \in Requests
    PROVE  /\ http[r] \in {"idle"} \union OpenHttp => told[r] = "nothing"
           /\ http[r] = "disconnected" => told[r] = "cut_off"
<1>1. told[r] = ToldOf(r)
  BY ToldShape, Zenon
<1> QED
  BY <1>1 DEF ToldOf, ToldFailed, OpenHttp

\* and after one.
LEMMA ToldNext ==
    ASSUME NEW r \in Requests
    PROVE  /\ http'[r] \in {"idle"} \union OpenHttp => told'[r] = "nothing"
           /\ http'[r] \in {"answered", "closed"} => told'[r] = "success"
           /\ ToldFailed(r)' => told'[r] = "failed"
           /\ http'[r] \in {"http_error", "broken", "disconnected"} /\ ~ ToldFailed(r)' =>
                 told'[r] = "cut_off"
           /\ http'[r] = http[r] /\ (http[r] = "http_error" => error'[r] = error[r]) =>
                 told'[r] = told[r]
<1>1. told'[r] = ToldOf(r)' /\ told[r] = ToldOf(r)
  BY ToldShape, Zenon
<1> QED
  BY <1>1 DEF ToldOf, ToldFailed, OpenHttp, Reliable

\* Nobody is told anything,
LEMMA ToldSame ==
    ASSUME \A q \in Requests : told'[q] = told[q]
    PROVE  told' = told
<1> DEFINE f == [q \in Requests |-> ToldOf(q)]
           g == [q \in Requests |-> ToldOf(q)']
<1>1. told = f /\ told' = g
  BY ToldShape
<1>2. \A q \in Requests : f[q] = g[q]
  BY <1>1
<1>3. f = g
  BY <1>2
<1> QED
  BY <1>1, <1>3

StoredSet == {r \in Requests : Stored(r)}

\* What the client is told changes for one request, or is cut off for several.
LEMMA ToldOne ==
    ASSUME NEW r \in Requests, NEW t, told'[r] = t,
           \A q \in Requests : q # r => told'[q] = told[q]
    PROVE  told' = [told EXCEPT ![r] = t]
<1> DEFINE f == [q \in Requests |-> ToldOf(q)]
           g == [q \in Requests |-> ToldOf(q)']
<1>1. told = f /\ told' = g
  BY ToldShape
<1>2. \A q \in Requests : g[q] = IF q = r THEN t ELSE f[q]
  BY <1>1
<1>3. g = [f EXCEPT ![r] = t]
  BY <1>2
<1> QED
  BY <1>1, <1>3

\* or all that are waiting are cut off.
LEMMA ToldMany ==
    ASSUME NEW S, \A q \in Requests : told'[q] = IF q \in S THEN "cut_off" ELSE told[q]
    PROVE  told' = [q \in Requests |-> IF q \in S THEN "cut_off" ELSE told[q]]
<1> DEFINE g == [q \in Requests |-> ToldOf(q)']
<1>1. told' = g
  BY ToldShape
<1>2. \A q \in Requests : g[q] = IF q \in S THEN "cut_off" ELSE told[q]
  BY <1>1
<1>3. g = [q \in Requests |-> IF q \in S THEN "cut_off" ELSE told[q]]
  BY <1>2
<1> QED
  BY <1>1, <1>3

\* Without a commit the same requests are stored.
LEMMA StoredSame ==
    ASSUME messages' = messages
    PROVE  StoredSet' = StoredSet
BY DEF StoredSet, Stored

\* Each step of the endpoint is a step of the contract, or a stutter.
LEMMA EndpointKeepsContract ==
    ASSUME Inv, Rows, Spared, Handler, [EndpointNext]_allVars
    PROVE  [Contract!Next]_(Contract!vars)
<1> USE DEF StoredSet
<1>q. ASSUME messages' = messages, \A q \in Requests : told'[q] = told[q]
      PROVE  UNCHANGED Contract!vars
  <2>1. StoredSet' = StoredSet
    BY <1>q, StoredSame
  <2>2. told' = told
    BY <1>q, ToldSame
  <2> QED
    BY <2>1, <2>2 DEF Contract!vars
<1>1. CASE UNCHANGED allVars
  <2>1. messages' = messages /\ http' = http /\ error' = error
    BY <1>1 DEF allVars
  <2> QED
    BY <1>q, <2>1, ToldNext
<1>2. ASSUME NEW r \in Requests, NEW a \in Ask, Receive(r, a)
      PROVE  UNCHANGED Contract!vars
  <2>1. messages' = messages
    BY <1>2 DEF Receive, Start, database
  <2>2. http[r] = "idle" /\ http' = [http EXCEPT ![r] = "waiting"] /\ http \in [Requests -> Http]
    BY <1>2 DEF Receive, Responds, Handler
  <2>3. \A q \in Requests : told'[q] = told[q]
    <3>1. error' = error /\ \A q \in Requests : q # r => http'[q] = http[q]
      BY <1>2, <2>2 DEF Receive, Start
    <3>2. told[r] = "nothing" /\ told'[r] = "nothing"
      BY <2>2, ToldFacts, ToldNext DEF OpenHttp
    <3> QED
      BY <3>1, <3>2, ToldNext
  <2> QED
    BY <1>q, <2>1, <2>3
<1>3. ASSUME NEW r \in Requests, Screen(r)
      PROVE  Contract!Next
  <2>1. http[r] = "idle" /\ http' = [http EXCEPT ![r] = "screened"] /\ http \in [Requests -> Http]
    BY <1>3 DEF Screen, Responds, Handler
  <2>2. StoredSet' = StoredSet /\ error' = error
    BY <1>3, StoredSame DEF Screen, vars
  <2>3. ~ Stored(r)
    BY <2>1 DEF Handler, Attended, Rows, Placed, AfterStore, Replied
  <2>4. told[r] = "nothing" /\ told' = [told EXCEPT ![r] = "failed"]
    <3>1. told'[r] = "failed" /\ \A q \in Requests : q # r => told'[q] = told[q]
      BY <2>1, <2>2, ToldNext DEF ToldFailed
    <3> QED
      BY <2>1, <3>1, ToldFacts, ToldOne
  <2> QED
    BY <2>2, <2>3, <2>4 DEF Contract!Next, Contract!Fail
<1>4. ASSUME NEW r \in Requests, Run(r)
      PROVE  [Contract!Next]_(Contract!vars)
  <2>1. Step(r) /\ http' = http /\ pc[r] \in WorkingPc
    BY <1>4, RunWorks DEF endpoint
  <2>0. http[r] \in OpenHttp \union {"disconnected"}
    BY <2>1 DEF Handler, Attended, WorkingPc, DatabasePc, EndPc
  <2>2. told' = told
    <3>1. \A q \in Requests : q # r => error'[q] = error[q]
      BY <2>1, Frame DEF Own
    <3>2. \A q \in Requests : told'[q] = told[q]
      BY <2>0, <2>1, <3>1, ToldNext DEF OpenHttp
    <3> QED
      BY <3>2, ToldSame
  <2>3. CASE messages' = messages
    BY <1>q, <2>2, <2>3
  <2>4. CASE Stores(r)
    <3>1. StoredSet' = StoredSet \union {r}
      BY <2>1, <2>4, StoredFacts
    <3>2. ~ Stored(r)
      BY <2>4 DEF Stores, Rows, Placed, AfterStore, Replied
    <3>3. told[r] \in {"nothing", "cut_off"}
      BY <2>0, ToldFacts
    <3> QED
      BY <2>2, <3>1, <3>2, <3>3 DEF Contract!Next, Contract!Store
  <2> QED
    BY <2>1, <2>3, <2>4, StepRows DEF RowStep, Quiet, Inserts
<1>5. ASSUME NEW r \in Requests, Handles(r)
      PROVE  [Contract!Next]_(Contract!vars)
  <2>1. StoredSet' = StoredSet /\ messages' = messages /\ error' = error
    BY <1>5, HandlesFacts, StoredSame DEF vars
  <2>2. told[r] = "nothing"
    BY <1>5, HandlesFacts, ToldFacts
  <2>3. \A q \in Requests : q # r => told'[q] = told[q]
    BY <1>5, <2>1, HandlesFacts, ToldNext
  <2>4. CASE http'[r] \in OpenHttp
    <3>1. told'[r] = told[r]
      BY <2>2, <2>4, ToldNext
    <3> QED
      BY <1>q, <2>1, <2>3, <3>1, Zenon
  <2>5. CASE http'[r] \in {"answered", "closed"} /\ pc[r] = "completed"
    <3>1. told' = [told EXCEPT ![r] = "success"]
      BY <2>3, <2>5, ToldNext, ToldOne
    <3>2. Stored(r)
      BY <2>5 DEF Rows, Placed, AfterStore, Replied
    <3> QED
      BY <2>1, <2>2, <3>1, <3>2 DEF Contract!Next, Contract!Succeed
  <2>6. CASE /\ ToldFailed(r)' /\ pc[r] = "failed"
             /\ \/ http'[r] = "error_event" /\ error[r] \in CaughtInStream
                \/ http'[r] = "http_error"
    <3>1. told' = [told EXCEPT ![r] = "failed"]
      BY <2>3, <2>6, ToldNext, ToldOne
    <3>2. error[r] \in CaughtBeforeStart \/ Reliable
      BY <2>1, <2>6 DEF ToldFailed, Reliable, CaughtInStream, CaughtBeforeStart
    <3>3. ~ Stored(r)
      BY <2>6, <3>2 DEF Spared, Kept
    <3> QED
      BY <2>1, <2>2, <3>1, <3>3 DEF Contract!Next, Contract!Fail
  <2>7. CASE http'[r] \in {"http_error", "broken", "disconnected"} /\ ~ ToldFailed(r)'
    <3>1. told'[r] = "cut_off"
      BY <2>7, ToldNext
    <3>0. \A q \in Requests : told'[q] = IF q \in {r} THEN "cut_off" ELSE told[q]
      BY <2>3, <3>1
    <3>2. told' = [q \in Requests |-> IF q \in {r} THEN "cut_off" ELSE told[q]]
      BY <3>0, ToldMany
    <3>3. Contract!CutOff({r})
      BY <2>1, <2>2, <3>2 DEF Contract!CutOff
    <3>4. {r} \in SUBSET Requests
      OBVIOUS
    <3> QED
      BY <3>3, <3>4 DEF Contract!Next
  <2>8. http'[r] = "error_event" => ToldFailed(r)'
    BY DEF ToldFailed
  <2>9. http'[r] \in {"broken", "disconnected"} => ~ ToldFailed(r)'
    BY DEF ToldFailed
  <2> QED
    BY <1>5, <2>4, <2>5, <2>6, <2>7, <2>8, <2>9, HandlesFacts
<1>6. ASSUME NEW r \in Requests, ClientLeaves(r)
      PROVE  UNCHANGED Contract!vars
  <2>1. messages' = messages /\ http' = http /\ error' = error
    BY <1>6 DEF ClientLeaves, vars
  <2> QED
    BY <1>q, <2>1, ToldNext
<1>8. ASSUME NEW r \in Requests, FinalizerCloses(r)
      PROVE  UNCHANGED Contract!vars
  <2>1. messages' = messages /\ http' = http /\ error' = error
    BY <1>8 DEF FinalizerCloses, endpoint, Cancel, database
  <2> QED
    BY <1>q, <2>1, ToldNext
<1>7. CASE ProcessDies
  <2> DEFINE S == {q \in Requests : http[q] \in OpenHttp}
  <2>1. StoredSet' = StoredSet /\ error' = error
    BY <1>7, CrashKeeps, StoredSame DEF ProcessDies, database
  <2>2. http' = [q \in Requests |-> IF http[q] \in OpenHttp THEN "broken" ELSE http[q]]
    BY <1>7 DEF ProcessDies, OpenHttp
  <2>3. \A q \in Requests : told'[q] = IF q \in S THEN "cut_off" ELSE told[q]
    BY <2>1, <2>2, ToldNext DEF ToldFailed
  <2>4. \A q \in S : told[q] = "nothing"
    BY ToldFacts
  <2>5. S \in SUBSET Requests
    OBVIOUS
  <2> HIDE DEF S
  <2>6. Contract!CutOff(S)
    BY <2>1, <2>3, <2>4, ToldMany DEF Contract!CutOff
  <2> QED
    BY <2>5, <2>6 DEF Contract!Next
<1> QED
  BY <1>1, <1>2, <1>3, <1>4, <1>5, <1>6, <1>7, <1>8 DEF EndpointNext

\* The endpoint and the workflow behind it keep their contract for any number of requests and
\* rounds and whatever faults happen: nobody who was told of success misses the exchange, and
\* nobody who was told of failure, by a status that the handler chose or by an `error` event,
\* has it stored, then or later.  A plain 500 tells as much only where the environment is
\* reliable.
THEOREM ContractKept == EndpointSpec => KeepsContract
<1>1. EndpointInit => Contract!Init
  <2> SUFFICES ASSUME EndpointInit PROVE Contract!Init
    OBVIOUS
  <2>1. ASSUME NEW r \in Requests
        PROVE  ~ Stored(r) /\ told[r] = "nothing"
    BY InitRows, ToldFacts DEF EndpointInit, Init, Rows, Placed, AfterStore, Replied
  <2>2. told = [r \in Requests |-> "nothing"]
    <3> DEFINE f == [q \in Requests |-> ToldOf(q)]
    <3>1. told = f
      BY ToldShape
    <3>2. \A q \in Requests : f[q] = "nothing"
      BY <2>1, <3>1
    <3> QED
      BY <3>1, <3>2
  <2> QED
    BY <2>1, <2>2 DEF Contract!Init
<1>2. EndpointInit => Rows /\ Spared /\ Handler
  BY InitRows, InitSpared, InitHandler DEF EndpointInit
<1>3. Inv /\ Rows /\ Spared /\ Handler /\ [EndpointNext]_allVars => Rows' /\ Spared' /\ Handler'
  BY NextRows, NextSpared, NextHandler, EndpointSteps
<1>4. Inv /\ Rows /\ Spared /\ Handler /\ [EndpointNext]_allVars =>
          [Contract!Next]_(Contract!vars)
  BY EndpointKeepsContract
<1> QED
  BY <1>1, <1>2, <1>3, <1>4, InvAlways, PTL DEF EndpointSpec, KeepsContract, Contract!Spec


-----------------------------------------------------------------------------
(* What is recorded                                                        *)

\* What a step adds to the events of its run.
EventStep(r) ==
    \/ UNCHANGED events[r] /\ pc'[r] # "write_memory"
    \/ /\ \E new \in Seq(Event) :
             /\ \A i \in 1 .. Len(new) : new[i] # "message_complete"
             /\ events'[r] = events[r] \o new
       /\ pc'[r] # "write_memory"
    \/ /\ pc[r] = "persist_stream" /\ pc'[r] = "write_memory"
       /\ events'[r] = IF asked[r].stream
                       THEN events[r] \o <<"message_delta", "message_complete">>
                       ELSE events[r]

\* The events that are not message_complete.
LEMMA EventPlain ==
    /\ \A e \in {"message_start", "tool_start"} :
          <<e>> \in Seq(Event) /\ \A i \in 1 .. Len(<<e>>) : <<e>>[i] # "message_complete"
    /\ \A e \in {"tool_complete", "tool_error"} :
          /\ <<e>> \in Seq(Event)
          /\ \A i \in 1 .. Len(<<e>>) : <<e>>[i] # "message_complete"
          /\ <<e, "tool_start">> \in Seq(Event)
          /\ \A i \in 1 .. Len(<<e, "tool_start">>) : <<e, "tool_start">>[i] # "message_complete"
BY DEF Event

\* What a step does to the events of its stream, in one place.
LEMMA StepEvents ==
    ASSUME Inv, NEW r \in Requests, Step(r)
    PROVE  EventStep(r)
<1>e. \A new \in Seq(Event) : events' = Emitted(r, new) =>
          \/ events'[r] = events[r]
          \/ events'[r] = events[r] \o new
  BY EmittedFacts DEF Inv, TypeOK
<1>1. CASE \E a \in Ask : Start(r, a)
  BY <1>1, Moves DEF Start, EventStep, database, session, state
<1>2. CASE LoadContext(r)
  BY <1>2, Moves DEF LoadContext, EventStep, database, session, state
<1>3. CASE LoadMemory(r)
  BY <1>3, Moves DEF LoadMemory, EventStep, database, session, state
<1>4. CASE CallModel(r)
  <2>1. ASSUME NEW text \in ModelText, ModelAnswers(r, text)
        PROVE  EventStep(r)
    <3>1. PICK new \in Seq(Event) :
            /\ \A i \in 1 .. Len(new) : new[i] # "message_complete"
            /\ events' = events \/ events' = Emitted(r, new)
      BY <2>1, EventPlain DEF ModelAnswers, MessageStart
    <3>2. pc'[r] # "write_memory"
      BY <2>1, Moves DEF ModelAnswers
    <3> QED
      BY <3>1, <3>2, <1>e DEF EventStep
  <2>2. ASSUME NEW n \in 1 .. MaxCalls, ModelCallsTools(r, n)
        PROVE  EventStep(r)
    <3>1. PICK new \in Seq(Event) :
            /\ \A i \in 1 .. Len(new) : new[i] # "message_complete"
            /\ events' = events \/ events' = Emitted(r, new)
      BY <2>2, EventPlain DEF ModelCallsTools, MessageStart
    <3>2. pc'[r] # "write_memory"
      BY <2>2, Moves DEF ModelCallsTools
    <3> QED
      BY <3>1, <3>2, <1>e DEF EventStep
  <2>3. CASE ModelFails(r)
    BY <2>3, Moves DEF ModelFails, EventStep
  <2> QED
    BY <1>4, <2>1, <2>2, <2>3 DEF CallModel
<1>5. CASE ExecuteTools(r)
  <2>1. PICK new \in Seq(Event) :
          /\ \A i \in 1 .. Len(new) : new[i] # "message_complete"
          /\ events' = events \/ events' = Emitted(r, new)
    BY <1>5, EventPlain DEF ExecuteTools
  <2>2. pc'[r] # "write_memory"
    BY <1>5, Moves DEF ExecuteTools
  <2> QED
    BY <2>1, <2>2, <1>e DEF EventStep
<1>6. CASE ToolLoad(r)
  BY <1>6, Moves DEF ToolLoad, LoadConversation, EventStep, database, session, state
<1>7. CASE ToolInsert(r)
  BY <1>7, Moves DEF ToolInsert, EventStep, database, session, state
<1>8. CASE ToolExecute(r)
  BY <1>8, Moves DEF ToolExecute, EventStep, database, session, state
<1>9. CASE ToolFinish(r)
  BY <1>9, Moves DEF ToolFinish, EventStep, database, session, state
<1>10. CASE OutputGuardrail(r)
  BY <1>10, Moves DEF OutputGuardrail, EventStep, database, session, state
<1>11. CASE PersistLoad(r)
  BY <1>11, Moves DEF PersistLoad, LoadConversation, EventStep, database, session, state
<1>12. CASE PersistCommit(r)
  BY <1>12, Moves DEF PersistCommit, EventStep, database, session, state
<1>13. CASE WriteMemory(r)
  BY <1>13, Moves DEF WriteMemory, EventStep, database, session, state
<1>14. CASE RecursionExceeded(r)
  BY <1>14, Moves DEF RecursionExceeded, EventStep, database, session, state
<1>15. CASE AnswerLost(r)
  BY <1>15, Moves DEF AnswerLost, EventStep, database, session, state
<1>16. CASE DatabaseFails(r)
  BY <1>16, Moves DEF DatabaseFails, EventStep, database, session, state
<1>17. CASE Cancel(r)
  BY <1>17, Moves DEF Cancel, EventStep, database, session, state
<1>18. CASE CheckpointFails(r)
  BY <1>18, Moves DEF CheckpointFails, EventStep, database, session, state, NodePc
<1>19. CASE ToolReport(r)
  <2>0. PICK e \in {"tool_complete", "tool_error"} :
          events' = Emitted(r, <<e>>) \/ events' = Emitted(r, <<e, "tool_start">>)
    <3> DEFINE ended == IF result[r] = "completed" THEN "tool_complete" ELSE "tool_error"
    <3>1. ended \in {"tool_complete", "tool_error"}
      OBVIOUS
    <3>2. events' = Emitted(r, <<ended>>) \/ events' = Emitted(r, <<ended, "tool_start">>)
      BY <1>19 DEF ToolReport
    <3> HIDE DEF ended
    <3> QED
      BY <3>1, <3>2, Zenon
  <2>1. PICK new \in Seq(Event) :
          /\ \A i \in 1 .. Len(new) : new[i] # "message_complete"
          /\ events' = Emitted(r, new)
    BY <2>0, EventPlain, Zenon
  <2>2. pc'[r] # "write_memory"
    BY <1>19, Moves DEF ToolReport
  <2> QED
    BY <2>1, <2>2, <1>e DEF EventStep
<1>20. CASE PersistStream(r)
  <2>1. events' = Emitted(r, <<"message_delta", "message_complete">>)
    BY <1>20 DEF PersistStream
  <2>2. events'[r] = IF asked[r].stream
                     THEN events[r] \o <<"message_delta", "message_complete">>
                     ELSE events[r]
    BY <2>1, EmittedFacts, EventLists DEF Inv, TypeOK
  <2>3. pc[r] = "persist_stream" /\ pc'[r] = "write_memory"
    BY <1>20, Moves DEF PersistStream
  <2> QED
    BY <2>2, <2>3 DEF EventStep
<1>21. CASE Finish(r)
  BY <1>21, Moves DEF Finish, EventStep, database, session, state
<1> QED
  BY <1>1, <1>2, <1>3, <1>4, <1>5, <1>6, <1>7, <1>8, <1>9, <1>10, <1>11, <1>12, <1>13,
     <1>14, <1>15, <1>16, <1>17, <1>18, <1>19, <1>20, <1>21 DEF Step, Proceeds, IsFailed

\* The answer is streamed last, and only when the exchange is stored.
Tells(r) ==
    /\ \A i \in 1 .. Len(events[r]) :
          events[r][i] = "message_complete" =>
              i = Len(events[r]) /\ Stored(r) /\ pc[r] # "persist_stream"
    /\ pc[r] \in Replied /\ asked[r].stream =>
          /\ Len(events[r]) > 0
          /\ events[r][Len(events[r])] = "message_complete"

\* message_complete is emitted once the exchange is stored; events are only added, and none
\* after it.
LEMMA StepTells ==
    ASSUME Inv, Rows, NEW r \in Requests, Tells(r), Step(r)
    PROVE  /\ Tells(r)'
           /\ Len(events'[r]) >= Len(events[r])
           /\ (\E i \in 1 .. Len(events[r]) : events[r][i] = "message_complete") =>
                 UNCHANGED events[r]
<1> DEFINE Over == \E i \in 1 .. Len(events[r]) : events[r][i] = "message_complete"
<1>1. /\ Inv' /\ Rows' /\ RowStep(r) /\ EventStep(r) /\ Placed(r) /\ Placed(r)'
  BY StepKeeps, StepPlaced, StepWhole, StepRows, StepEvents DEF Rows
<1>2. events[r] \in Seq(Event) /\ Len(events[r]) \in Nat /\ events'[r] \in Seq(Event)
  BY <1>1 DEF Inv, TypeOK
<1>3. CASE pc[r] \in AfterStore /\ pc[r] # "persist_stream"
  <2>1. events'[r] = events[r] /\ asked'[r] = asked[r]
    BY <1>1, <1>3 DEF RowStep
  <2>2. Stored(r) => Stored(r)'
    BY StoredFacts
  <2>3. pc'[r] \in Replied => pc[r] \in Replied
    BY <1>1, <1>3 DEF RowStep
  <2>4. pc'[r] # "persist_stream"
    BY <1>1, <1>3 DEF RowStep, Quiet, Inserts, Stores, AfterStore, Replied
  <2> QED
    BY <1>2, <2>1, <2>2, <2>3, <2>4 DEF Tells
<1>4. CASE pc[r] \notin AfterStore \/ pc[r] = "persist_stream"
  <2>1. ~ Over /\ \A i \in 1 .. Len(events[r]) : events[r][i] # "message_complete"
    BY <1>1, <1>4 DEF Placed, Tells
  <2>5. pc'[r] # "write_memory" => pc'[r] \notin Replied
    BY <1>1, <1>4 DEF RowStep, AfterStore, Replied
  <2>2. CASE UNCHANGED events[r] /\ pc'[r] # "write_memory"
    BY <1>2, <2>1, <2>2, <2>5 DEF Tells
  <2>3. ASSUME NEW new \in Seq(Event), \A i \in 1 .. Len(new) : new[i] # "message_complete",
               events'[r] = events[r] \o new, pc'[r] # "write_memory"
        PROVE  Tells(r)' /\ Len(events'[r]) >= Len(events[r])
    <3>2. /\ Len(events'[r]) = Len(events[r]) + Len(new)
          /\ \A i \in 1 .. Len(events[r]) + Len(new) : events'[r][i] =
                IF i <= Len(events[r]) THEN events[r][i] ELSE new[i - Len(events[r])]
      <4>1. /\ Len(events[r] \o new) = Len(events[r]) + Len(new)
            /\ \A i \in 1 .. Len(events[r]) + Len(new) : (events[r] \o new)[i] =
                  IF i <= Len(events[r]) THEN events[r][i] ELSE new[i - Len(events[r])]
        BY <1>2, ConcatProperties
      <4> QED
        BY <2>3, <4>1, Zenon
    <3>3. Len(new) \in Nat
      OBVIOUS
    <3>4. ASSUME NEW i \in 1 .. Len(events'[r])
          PROVE  events'[r][i] # "message_complete"
      <4>1. CASE i <= Len(events[r])
        <5>1. i \in 1 .. Len(events[r]) /\ i \in 1 .. Len(events[r]) + Len(new)
          BY <1>2, <3>2, <3>3, <4>1
        <5>2. events'[r][i] = events[r][i]
          BY <3>2, <4>1, <5>1
        <5> QED
          BY <2>1, <5>1, <5>2
      <4>2. CASE ~ (i <= Len(events[r]))
        <5>1. i - Len(events[r]) \in 1 .. Len(new)
          BY <1>2, <3>2, <3>3, <4>2
        <5> QED
          BY <1>2, <2>3, <3>2, <3>3, <4>2, <5>1
      <4> QED
        BY <4>1, <4>2
    <3> QED
      BY <1>2, <2>3, <2>5, <3>2, <3>3, <3>4 DEF Tells
  <2>4. ASSUME pc[r] = "persist_stream", pc'[r] = "write_memory",
               events'[r] = IF asked[r].stream
                            THEN events[r] \o <<"message_delta", "message_complete">>
                            ELSE events[r]
        PROVE  Tells(r)' /\ Len(events'[r]) >= Len(events[r])
    <3>1. Stored(r)' /\ asked' = asked
      BY <1>1, <2>4, StoredFacts DEF Placed, RowStep
    <3>2. CASE ~ asked[r].stream
      BY <1>2, <2>1, <2>4, <3>1, <3>2 DEF Tells
    <3>3. CASE asked[r].stream
      <4> DEFINE last == <<"message_delta", "message_complete">>
      <4>1. last \in Seq(Event) /\ Len(last) = 2 /\ last[1] = "message_delta"
              /\ last[2] = "message_complete"
        BY EventLists
      <4>2. events'[r] = events[r] \o last
        BY <2>4, <3>3
      <4> HIDE DEF last
      <4>3. /\ Len(events'[r]) = Len(events[r]) + 2
            /\ \A i \in 1 .. Len(events[r]) : events'[r][i] = events[r][i]
            /\ events'[r][Len(events[r]) + 1] = last[1]
            /\ events'[r][Len(events[r]) + 2] = last[2]
        BY <1>2, <4>1, <4>2, ConcatTwo
      <4>4. ASSUME NEW i \in 1 .. Len(events'[r]), events'[r][i] = "message_complete"
            PROVE  i = Len(events'[r])
        <5>1. i \in 1 .. Len(events[r]) \/ i = Len(events[r]) + 1 \/ i = Len(events[r]) + 2
          BY <1>2, <4>3
        <5> QED
          BY <2>1, <4>1, <4>3, <4>4, <5>1
      <4> QED
        <5>1. Len(events'[r]) > 0 /\ Len(events'[r]) \in Nat
          BY <1>2, <4>3
        <5>2. events'[r][Len(events'[r])] = "message_complete"
          BY <1>2, <4>1, <4>3
        <5>3. Len(events'[r]) >= Len(events[r])
          BY <1>2, <4>3
        <5> QED
          BY <2>4, <3>1, <4>4, <5>1, <5>2, <5>3 DEF Tells
    <3> QED
      BY <3>2, <3>3
  <2>6. Tells(r)' /\ Len(events'[r]) >= Len(events[r])
    <3>1. CASE UNCHANGED events[r] /\ pc'[r] # "write_memory"
      BY <1>2, <2>2, <3>1
    <3>2. CASE /\ \E new \in Seq(Event) :
                     /\ \A i \in 1 .. Len(new) : new[i] # "message_complete"
                     /\ events'[r] = events[r] \o new
               /\ pc'[r] # "write_memory"
      BY <2>3, <3>2
    <3> QED
      BY <1>1, <2>4, <3>1, <3>2 DEF EventStep
  <2> QED
    BY <2>1, <2>6
<1> QED
  BY <1>3, <1>4, Zenon

\* What the handler recorded of a request is what happened to it.
Accounted(r) ==
    /\ delivered[r] <= Len(events[r])
    /\ http[r] \in {"idle", "screened"} \union OpenHttp => recorded[r] = <<>>
    /\ http[r] = "streaming" => asked[r].stream
    /\ Len(recorded[r]) <= 1
    /\ http[r] \in {"answered", "closed"} => recorded[r] = <<"success">>
    /\ recorded[r] = <<"success">> =>
          /\ Stored(r)
          /\ asked[r].stream => delivered[r] = Len(events[r]) /\ CompletionSeen(r)

Account == \A r \in Requests : Tells(r) /\ Accounted(r)

\* A request that does not step keeps its account,
LEMMA OthersAccounted ==
    ASSUME NEW q \in Requests, Tells(q), Accounted(q), Stored(q)' <=> Stored(q),
           UNCHANGED <<asked[q], events[q], http[q], delivered[q], recorded[q]>>,
           pc'[q] = pc[q] \/ pc'[q] = "interrupted"
    PROVE  Tells(q)' /\ Accounted(q)'
BY DEF Tells, Accounted, CompletionSeen, Replied

\* one whose handler ends has recorded the outcome,
LEMMA EndAccounted ==
    ASSUME NEW r \in Requests, Accounted(r), Stored(r)' <=> Stored(r),
           UNCHANGED <<asked[r], events[r], delivered[r]>>,
           http'[r] \notin OpenHttp \union {"idle", "screened"},
           Len(recorded'[r]) <= 1,
           http'[r] \in {"answered", "closed"} => recorded'[r] = <<"success">>,
           recorded'[r] = <<"success">> =>
               Stored(r) /\ (asked[r].stream => delivered[r] = Len(events[r]) /\ CompletionSeen(r))
    PROVE  Accounted(r)'
BY DEF Accounted, CompletionSeen, OpenHttp

\* and each step of a handler records what was so.
LEMMA HandlesAccounted ==
    ASSUME Inv, Rows, Handler, NEW r \in Requests, Tells(r), Accounted(r), Handles(r)
    PROVE  /\ Accounted(r)'
           /\ \A q \in Requests : q # r => UNCHANGED <<delivered[q], recorded[q]>>
<1>t. /\ delivered \in [Requests -> Nat] /\ recorded \in [Requests -> Seq(Outcome)]
      /\ http \in [Requests -> Http] /\ events[r] \in Seq(Event) /\ Len(events[r]) \in Nat
  BY DEF Handler, Inv, TypeOK
<1>h. \A h : Responds(r, h) => http'[r] = h
  BY <1>t DEF Responds
<1>s. /\ UNCHANGED <<asked[r], events[r]>> /\ (Stored(r)' <=> Stored(r))
      /\ recorded[r] = <<>> /\ http[r] \in OpenHttp
  BY HandlesFacts DEF Accounted, Stored, vars
<1>o. ASSUME NEW o, Records(r, o)
      PROVE  /\ recorded'[r] = <<o>>
             /\ \A q \in Requests : q # r => recorded'[q] = recorded[q]
  BY <1>o, <1>t, <1>s DEF Records
<1>d. <<"error">> # <<"success">> /\ <<"disconnected">> # <<"success">> /\ <<>> # <<"success">>
  OBVIOUS
<1>l. \A x \in {<<>>, <<"success">>, <<"error">>, <<"disconnected">>} : Len(x) <= 1
  <2>1. Len(<<>>) <= 1 /\ Len(<<"success">>) <= 1
    OBVIOUS
  <2>2. Len(<<"error">>) <= 1 /\ Len(<<"disconnected">>) <= 1
    OBVIOUS
  <2> QED
    BY <2>1, <2>2, Zenon
<1>z. UNCHANGED delivered => \A q \in Requests : delivered'[q] = delivered[q]
  OBVIOUS
\* The handler is done: what is left to show of each way to end.
<1>e. ASSUME UNCHANGED delivered, http'[r] \notin OpenHttp \union {"idle", "screened"},
             \A q \in Requests : q # r => recorded'[q] = recorded[q],
             \/ recorded'[r] = <<"success">> /\ Stored(r)
                    /\ (asked[r].stream => delivered[r] = Len(events[r]) /\ CompletionSeen(r))
             \/ recorded'[r] \in {<<>>, <<"error">>, <<"disconnected">>}
                    /\ http'[r] \notin {"answered", "closed"}
      PROVE  /\ Accounted(r)'
             /\ \A q \in Requests : q # r => UNCHANGED <<delivered[q], recorded[q]>>
  <2>1. Len(recorded'[r]) <= 1
    BY <1>e, <1>l, Zenon
  <2>2. recorded'[r] = <<"success">> =>
            /\ Stored(r)
            /\ asked[r].stream => delivered[r] = Len(events[r]) /\ CompletionSeen(r)
    BY <1>e, <1>d
  <2> QED
    BY <1>e, <1>s, <1>z, <2>1, <2>2, EndAccounted
<1>c. CompletionSeen(r) => Stored(r) /\ delivered[r] = Len(events[r])
  BY <1>t DEF CompletionSeen, Tells, Accounted
<1>f. ASSUME FinalizeAtEnd(r)
      PROVE  /\ \/ CompletionSeen(r) /\ recorded'[r] = <<"success">>
                \/ recorded'[r] = <<>>
             /\ \A q \in Requests : q # r => recorded'[q] = recorded[q]
  BY <1>f, <1>s, <1>o DEF FinalizeAtEnd
<1>1. CASE SyncCompletes(r)
  <2>1. Stored(r) /\ ~ asked[r].stream
    BY <1>1 DEF SyncCompletes, Rows, Placed, AfterStore, Replied
  <2> QED
    BY <1>1, <1>h, <1>o, <1>e, <2>1 DEF SyncCompletes, OpenHttp
<1>2. CASE FailsBeforeStart(r)
  <2>1. recorded'[r] \in {<<>>, <<"error">>} /\ \A q \in Requests : q # r => recorded'[q] = recorded[q]
    BY <1>2, <1>s, <1>o DEF FailsBeforeStart
  <2> QED
    BY <1>2, <1>h, <1>e, <2>1 DEF FailsBeforeStart, OpenHttp
<1>3. CASE FirstEvent(r)
  <2>1. delivered'[r] = 1 /\ \A q \in Requests : q # r => delivered'[q] = delivered[q]
    BY <1>3, <1>t DEF FirstEvent
  <2>2. Len(events[r]) > 0
    BY <1>3, <1>t DEF FirstEvent
  <2> QED
    BY <1>3, <1>t, <1>h, <1>s, <1>l, <1>d, <2>1, <2>2 DEF FirstEvent, Accounted, OpenHttp
<1>4. CASE Deliver(r)
  <2>1. /\ delivered'[r] = delivered[r] + 1 /\ delivered[r] \in Nat
        /\ \A q \in Requests : q # r => delivered'[q] = delivered[q]
    BY <1>4, <1>t DEF Deliver
  <2>2. delivered[r] < Len(events[r]) /\ UNCHANGED <<http, recorded>>
    BY <1>4 DEF Deliver, Pending
  <2> QED
    BY <1>t, <1>s, <1>l, <1>d, <2>1, <2>2 DEF Accounted, OpenHttp
<1>5. CASE NoticeGone(r)
  BY <1>5, <1>h, <1>o, <1>e DEF NoticeGone, OpenHttp
<1>6. CASE ServerCancels(r)
  <2>1. UNCHANGED delivered /\ http'[r] = "disconnected" /\ FinalizeAtEnd(r)
    BY <1>6, <1>h DEF ServerCancels
  <2> QED
    BY <1>c, <1>e, <1>f, <2>1 DEF OpenHttp
<1>7. CASE StreamCompletes(r)
  <2>1. UNCHANGED delivered /\ http'[r] = "closed" /\ FinalizeAtEnd(r)
    BY <1>7, <1>h DEF StreamCompletes
  <2>2. CompletionSeen(r)
    <3>1. asked[r].stream /\ pc[r] = "completed" /\ delivered[r] = Len(events[r])
      BY <1>7 DEF StreamCompletes, Drained, Accounted
    <3> QED
      BY <3>1 DEF Tells, CompletionSeen, Replied
  <2>3. recorded'[r] = <<"success">> /\ \A q \in Requests : q # r => recorded'[q] = recorded[q]
    BY <1>o, <2>1, <2>2 DEF FinalizeAtEnd
  <2> QED
    BY <1>c, <1>e, <2>1, <2>2, <2>3 DEF OpenHttp
<1>8. CASE StreamFails(r)
  <2>0. UNCHANGED delivered
    BY <1>8 DEF StreamFails
  <2>1. CASE http'[r] = "error_event" /\ Records(r, "error")
    BY <1>e, <1>o, <2>0, <2>1 DEF OpenHttp
  <2>2. CASE http'[r] = "broken" /\ FinalizeAtEnd(r)
    BY <1>c, <1>e, <1>f, <2>0, <2>2 DEF OpenHttp
  <2> QED
    BY <1>8, <1>h, <2>1, <2>2 DEF StreamFails
<1> QED
  BY <1>1, <1>2, <1>3, <1>4, <1>5, <1>6, <1>7, <1>8 DEF Handles

\* The steps together.
LEMMA NextAccount ==
    Inv /\ Rows /\ Handler /\ Account /\ [EndpointNext]_allVars => Account'
<1> SUFFICES ASSUME Inv, Rows, Handler, Account, [EndpointNext]_allVars, NEW q \in Requests
             PROVE  Tells(q)' /\ Accounted(q)'
  BY DEF Account
<1>a. Tells(q) /\ Accounted(q) /\ Attended(q)
  BY DEF Account, Handler
<1>t. http \in [Requests -> Http]
  BY DEF Handler
<1>s. messages' = messages => (Stored(q)' <=> Stored(q))
  BY DEF Stored
<1>1. CASE UNCHANGED allVars
  BY <1>1, <1>a, <1>s, OthersAccounted DEF allVars
<1>2. ASSUME NEW r \in Requests, Step(r), UNCHANGED <<delivered, recorded>>,
             \A p \in Requests : p # r => http'[p] = http[p],
             http[r] \in OpenHttp \union {"idle", "disconnected"},
             \/ http[r] = "idle" /\ http'[r] = "waiting"
             \/ http[r] # "idle" /\ http'[r] = http[r] /\ asked'[r] = asked[r]
      PROVE  Tells(q)' /\ Accounted(q)'
  <2>1. CASE q # r
    <3>1. UNCHANGED <<asked[q], events[q], pc[q]>>
      BY <1>2, <2>1, Frame DEF Own
    <3>2. Stored(q)' <=> Stored(q)
      BY <1>2, <2>1, StoredFacts
    <3> QED
      BY <1>2, <1>a, <2>1, <3>1, <3>2, OthersAccounted
  <2>2. CASE q = r
    <3>1. /\ Tells(r)' /\ Len(events'[r]) >= Len(events[r])
          /\ (\E i \in 1 .. Len(events[r]) : events[r][i] = "message_complete") =>
                events'[r] = events[r]
      BY <1>2, <1>a, <2>2, StepTells
    <3>2. /\ http[r] # "disconnected" => recorded[r] = <<>>
          /\ <<>> # <<"success">> /\ delivered[r] <= Len(events[r]) /\ Len(recorded[r]) <= 1
      BY <1>2, <1>a, <2>2 DEF Accounted
    <3>3. Inv'
      BY <1>2, StepKeeps
    <3>4. Len(events'[r]) \in Nat /\ Len(events[r]) \in Nat /\ delivered[r] \in Nat
      <4>1. events' \in [Requests -> Seq(Event)] /\ events \in [Requests -> Seq(Event)]
        BY <3>3 DEF Inv, TypeOK
      <4>2. delivered \in [Requests -> Nat]
        BY DEF Handler
      <4> QED
        BY <1>2, <4>1, <4>2
    <3>5. http'[r] = "streaming" => asked'[r].stream
      BY <1>2, <1>a, <2>2 DEF Accounted
    <3>6. delivered'[r] = delivered[r] /\ recorded'[r] = recorded[r]
      BY <1>2
    <3>7. http'[r] \in OpenHttp \union {"disconnected"}
            /\ (http'[r] = "disconnected" <=> http[r] = "disconnected")
      BY <1>2 DEF OpenHttp
    \* The run of a client that left goes on, but its stream has said all.
    <3>8. ASSUME recorded[r] = <<"success">>
          PROVE  /\ Stored(r)'
                 /\ asked'[r].stream => delivered'[r] = Len(events'[r]) /\ CompletionSeen(r)'
      <4>1. asked'[r] = asked[r] /\ Stored(r)
        BY <1>2, <1>a, <2>2, <3>2, <3>8 DEF Accounted
      <4>2. Stored(r)'
        BY <1>2, <4>1, StoredFacts
      <4>3. CASE asked[r].stream
        <5>1. delivered[r] = Len(events[r]) /\ CompletionSeen(r)
          BY <1>a, <2>2, <3>8, <4>3 DEF Accounted
        <5>2. events'[r] = events[r]
          BY <3>1, <3>4, <5>1 DEF CompletionSeen
        <5> QED
          BY <3>6, <4>2, <5>1, <5>2 DEF CompletionSeen
      <4> QED
        BY <4>1, <4>2, <4>3
    <3> QED
      BY <2>2, <3>1, <3>2, <3>4, <3>5, <3>6, <3>7, <3>8 DEF Accounted, OpenHttp
  <2> QED
    BY <2>1, <2>2
<1>3. ASSUME NEW r \in Requests, NEW a \in Ask, Receive(r, a)
      PROVE  Tells(q)' /\ Accounted(q)'
  <2>1. Step(r) /\ UNCHANGED <<delivered, recorded>> /\ http[r] = "idle"
          /\ http' = [http EXCEPT ![r] = "waiting"]
    BY <1>3 DEF Receive, Step, Responds
  <2> QED
    BY <1>2, <1>t, <2>1 DEF OpenHttp
<1>4. ASSUME NEW r \in Requests, Run(r)
      PROVE  Tells(q)' /\ Accounted(q)'
  <2>1. Step(r) /\ UNCHANGED <<http, delivered, recorded>> /\ pc[r] \in WorkingPc
    BY <1>4, RunWorks DEF endpoint
  <2>2. http[r] \in OpenHttp \union {"disconnected"} /\ pc[r] # "new"
    BY <2>1 DEF Handler, Attended, WorkingPc, DatabasePc, EndPc
  <2>3. asked' = asked
    BY <2>1, <2>2, StepRows DEF RowStep
  <2> QED
    BY <1>2, <2>1, <2>2, <2>3 DEF OpenHttp
<1>5. ASSUME NEW r \in Requests, Screen(r)
      PROVE  Tells(q)' /\ Accounted(q)'
  <2>1. UNCHANGED <<messages, asked, events, pc, delivered, recorded>>
    BY <1>5 DEF Screen, vars
  <2>2. http[r] = "idle" /\ http' = [http EXCEPT ![r] = "screened"]
    BY <1>5 DEF Screen, Responds
  <2> QED
    BY <1>a, <1>s, <1>t, <2>1, <2>2 DEF Tells, Accounted, CompletionSeen, OpenHttp
<1>6. ASSUME NEW r \in Requests, Handles(r)
      PROVE  Tells(q)' /\ Accounted(q)'
  <2>1. /\ UNCHANGED <<messages, asked, events>>
        /\ \A p \in Requests : p # r => http'[p] = http[p]
        /\ pc'[q] = pc[q]
    BY <1>6, HandlesFacts DEF vars
  <2>2. Accounted(r)' /\ \A p \in Requests : p # r => UNCHANGED <<delivered[p], recorded[p]>>
    BY <1>6, HandlesAccounted DEF Account
  <2>3. Tells(q)'
    BY <1>a, <1>s, <2>1 DEF Tells, Replied
  <2>4. CASE q # r
    BY <1>a, <1>s, <2>1, <2>2, <2>4, OthersAccounted
  <2> QED
    BY <2>2, <2>3, <2>4
<1>7. ASSUME NEW r \in Requests, ClientLeaves(r)
      PROVE  Tells(q)' /\ Accounted(q)'
  <2>1. UNCHANGED <<messages, asked, events, pc, http, delivered, recorded>>
    BY <1>7 DEF ClientLeaves, vars
  <2> QED
    BY <1>a, <1>s, <2>1, OthersAccounted
<1>8. CASE ProcessDies
  <2>1. /\ UNCHANGED <<messages, asked, events, delivered, recorded>>
        /\ pc'[q] = pc[q] \/ pc'[q] = "interrupted"
    BY <1>8, CrashKeeps DEF ProcessDies, database, state
  <2>2. http' = [r \in Requests |-> IF http[r] \in OpenHttp THEN "broken" ELSE http[r]]
    BY <1>8 DEF ProcessDies, OpenHttp
  <2>3. Tells(q)'
    BY <1>a, <1>s, <2>1 DEF Tells, Replied
  <2>4. http'[q] = http[q] \/ http'[q] = "broken"
    BY <2>2
  <2>5. Accounted(q)'
    BY <1>a, <1>s, <2>1, <2>4 DEF Accounted, CompletionSeen, OpenHttp
  <2> QED
    BY <2>3, <2>5
<1>9. ASSUME NEW r \in Requests, FinalizerCloses(r)
      PROVE  Tells(q)' /\ Accounted(q)'
  <2>1. /\ UNCHANGED <<messages, asked, events, http, delivered, recorded>>
        /\ pc'[q] = pc[q] \/ pc'[q] = "interrupted"
    BY <1>9 DEF FinalizerCloses, Cancel, Goto, Inv, TypeOK, endpoint, database, state
  <2> QED
    BY <1>a, <1>s, <2>1, OthersAccounted
<1> QED
  BY <1>1, <1>3, <1>4, <1>5, <1>6, <1>7, <1>8, <1>9 DEF EndpointNext

\* Nothing is recorded.
LEMMA InitAccount == EndpointInit => Account
<1> SUFFICES ASSUME EndpointInit, NEW r \in Requests
             PROVE  Tells(r) /\ Accounted(r)
  BY DEF Account
<1>1. /\ events[r] = <<>> /\ delivered[r] = 0 /\ recorded[r] = <<>>
      /\ http[r] = "idle" /\ pc[r] = "new" /\ Len(<<>>) = 0 /\ <<>> # <<"success">>
  BY DEF EndpointInit, Init
<1>2. \A i \in 1 .. Len(events[r]) : FALSE
  BY <1>1
<1> QED
  BY <1>1, <1>2 DEF Tells, Accounted, Replied

\* A request counts as a success only if its exchange is stored and its client was sent all
\* of it, and it is counted at most once: for any number of requests, however disconnects,
\* failures and deaths of the process race with the end of a run.
THEOREM TruthfulRecords == EndpointSpec => []RecordsTruthful
<1>1. EndpointInit => Rows /\ Handler /\ Account
  BY InitRows, InitHandler, InitAccount DEF EndpointInit
<1>2. Inv /\ Rows /\ Handler /\ Account /\ [EndpointNext]_allVars => Rows' /\ Handler' /\ Account'
  BY NextRows, NextHandler, NextAccount, EndpointSteps
<1>3. Account => RecordsTruthful
  BY DEF Account, Accounted, RecordsTruthful
<1> QED
  BY <1>1, <1>2, <1>3, InvAlways, PTL DEF EndpointSpec


-----------------------------------------------------------------------------
(* What is streamed                                                        *)

\* A stream as StreamWellFormed has it, and its last event.
WellFormed(s) == \A i \in 1 .. Len(s) : s[i] \in After[IF i = 1 THEN "begin" ELSE s[i - 1]]
LastOf(s) == IF Len(s) = 0 THEN "begin" ELSE s[Len(s)]

\* The stream and the rows of the tool runs agree; the event of the last row may be late.
Agree(s, runs, late) ==
    /\ \A k \in 1 .. Len(runs) : Settled(runs[k]) =>
          \/ 2 * k + 1 <= Len(s) /\ Reports(s[2 * k + 1], runs[k])
          \/ late /\ k = Len(runs)
    /\ \A i \in 1 .. Len(s) : Ended(s[i]) =>
          \E k \in 1 .. Len(runs) : i = 2 * k + 1 /\ Reports(s[i], runs[k])

\* Between tool calls: two events for each call so far, after the first one.
Between(r) ==
    /\ LastOf(events[r]) \in {"message_start", "tool_complete", "tool_error"}
    /\ Len(events[r]) = 2 * Len(toolRuns[r]) + 1

Unopened(r) == events[r] = <<>> /\ toolRuns[r] = <<>>

\* A row is settled before its event is written, and the run may end between the two.
Late(r) == pc[r] \in {"tool_report", "failed", "interrupted"}

\* Where a stream stands at each await of its run.
Flows(r) ==
    /\ ~ asked[r].stream => events[r] = <<>>
    /\ WellFormed(events[r])
    /\ asked[r].stream => IF Late(r) THEN Agree(events[r], toolRuns[r], TRUE)
                                     ELSE Agree(events[r], toolRuns[r], FALSE)
    /\ pc[r] = "tool_report" => toolRuns[r] # <<>> /\ toolRuns[r][Len(toolRuns[r])] = result[r]
    /\ pc[r] \in {"new", "load_context", "load_memory"} => Unopened(r) /\ ~ started[r]
    /\ asked[r].stream =>
          /\ pc[r] = "call_model" => IF started[r] THEN Between(r) ELSE Unopened(r)
          /\ pc[r] \in {"execute_tools", "output_guardrail", "persist_load", "persist_commit",
                        "persist_stream"} =>
                Between(r)
          /\ pc[r] \in AtTools => started[r]
          /\ pc[r] \in {"tool_load", "tool_insert", "tool_execute", "tool_finish", "tool_report"} =>
                LastOf(events[r]) = "tool_start"
          /\ pc[r] \in {"tool_load", "tool_insert"} =>
                Len(events[r]) = 2 * Len(toolRuns[r]) + 2
          /\ pc[r] \in {"tool_execute", "tool_finish", "tool_report"} =>
                Len(events[r]) = 2 * Len(toolRuns[r])

\* A stream to which an event is added that may follow.
LEMMA AppendWellFormed ==
    ASSUME NEW s \in Seq(Event), WellFormed(s), NEW e \in Event, e \in After[LastOf(s)]
    PROVE  /\ WellFormed(Append(s, e))
           /\ LastOf(Append(s, e)) = e
           /\ Append(s, e) \in Seq(Event)
           /\ Len(Append(s, e)) = Len(s) + 1
<1> DEFINE t == Append(s, e)
<1>1. /\ Len(s) \in Nat /\ t \in Seq(Event) /\ Len(t) = Len(s) + 1
      /\ t[Len(s) + 1] = e
      /\ \A i \in 1 .. Len(s) : t[i] = s[i]
  OBVIOUS
<1> HIDE DEF t
<1>2. ASSUME NEW i \in 1 .. Len(t)
      PROVE  t[i] \in After[IF i = 1 THEN "begin" ELSE t[i - 1]]
  <2>1. CASE i \in 1 .. Len(s)
    <3>1. CASE i = 1
      BY <1>1, <2>1, <3>1 DEF WellFormed
    <3>2. CASE i # 1
      <4>1. i - 1 \in 1 .. Len(s)
        BY <1>1, <2>1, <3>2
      <4> QED
        BY <1>1, <2>1, <3>2, <4>1 DEF WellFormed
    <3> QED
      BY <3>1, <3>2
  <2>2. CASE i = Len(s) + 1
    <3>1. CASE Len(s) = 0
      BY <1>1, <2>2, <3>1 DEF LastOf
    <3>2. CASE Len(s) # 0
      <4>1. Len(s) \in 1 .. Len(s) /\ i # 1 /\ i - 1 = Len(s)
        BY <1>1, <2>2, <3>2
      <4> QED
        BY <1>1, <2>2, <3>2, <4>1 DEF LastOf
    <3> QED
      BY <3>1, <3>2
  <2> QED
    BY <1>1, <1>2, <2>1, <2>2
<1>3. LastOf(t) = e
  BY <1>1 DEF LastOf
<1> QED
  BY <1>1, <1>2, <1>3 DEF WellFormed, t

\* What may follow what.
LEMMA Following ==
    /\ "message_start" \in After["begin"]
    /\ \A e \in {"message_start", "tool_complete", "tool_error"} :
          "tool_start" \in After[e] /\ "message_delta" \in After[e]
    /\ \A e \in {"tool_complete", "tool_error"} : e \in After["tool_start"]
    /\ "message_complete" \in After["message_delta"]
BY DEF After

\* An event that ends no call leaves a stream and its rows in agreement.
LEMMA AppendAgrees ==
    ASSUME NEW s \in Seq(Event), NEW runs \in Seq(RunStatus), Agree(s, runs, FALSE),
           NEW e \in Event, ~ Ended(e)
    PROVE  Agree(Append(s, e), runs, FALSE)
<1> DEFINE t == Append(s, e)
<1>1. /\ Len(s) \in Nat /\ Len(runs) \in Nat /\ Len(t) = Len(s) + 1
      /\ t[Len(s) + 1] = e
      /\ \A i \in 1 .. Len(s) : t[i] = s[i]
  OBVIOUS
<1> HIDE DEF t
<1>2. ASSUME NEW k \in 1 .. Len(runs), Settled(runs[k])
      PROVE  2 * k + 1 <= Len(t) /\ Reports(t[2 * k + 1], runs[k])
  <2>1. 2 * k + 1 <= Len(s) /\ Reports(s[2 * k + 1], runs[k])
    BY <1>2 DEF Agree
  <2>2. 2 * k + 1 \in 1 .. Len(s)
    BY <1>1, <2>1
  <2> QED
    BY <1>1, <2>1, <2>2
<1>3. ASSUME NEW i \in 1 .. Len(t), Ended(t[i])
      PROVE  \E k \in 1 .. Len(runs) : i = 2 * k + 1 /\ Reports(t[i], runs[k])
  <2>1. i \in 1 .. Len(s) /\ t[i] = s[i]
    BY <1>1, <1>3
  <2> QED
    BY <1>3, <2>1 DEF Agree
<1> QED
  BY <1>2, <1>3 DEF Agree, t

\* A new row of a tool run is not settled yet.
LEMMA InsertAgrees ==
    ASSUME NEW s \in Seq(Event), NEW runs \in Seq(RunStatus), Agree(s, runs, FALSE)
    PROVE  Agree(s, Append(runs, "running"), FALSE)
<1> DEFINE t == Append(runs, "running")
<1>1. /\ Len(runs) \in Nat /\ Len(t) = Len(runs) + 1
      /\ t[Len(runs) + 1] = "running"
      /\ \A k \in 1 .. Len(runs) : t[k] = runs[k]
  OBVIOUS
<1> HIDE DEF t
<1>2. ASSUME NEW k \in 1 .. Len(t), Settled(t[k])
      PROVE  2 * k + 1 <= Len(s) /\ Reports(s[2 * k + 1], t[k])
  <2>1. k \in 1 .. Len(runs) /\ t[k] = runs[k]
    BY <1>1, <1>2 DEF Settled
  <2> QED
    BY <1>2, <2>1 DEF Agree
<1>3. ASSUME NEW i \in 1 .. Len(s), Ended(s[i])
      PROVE  \E k \in 1 .. Len(t) : i = 2 * k + 1 /\ Reports(s[i], t[k])
  <2>1. PICK k \in 1 .. Len(runs) : i = 2 * k + 1 /\ Reports(s[i], runs[k])
    BY <1>3 DEF Agree
  <2>2. k \in 1 .. Len(t) /\ t[k] = runs[k]
    BY <1>1
  <2> QED
    BY <2>1, <2>2
<1> QED
  BY <1>2, <1>3 DEF Agree, t

\* The last row is settled, and its event is late.
LEMMA SettleAgrees ==
    ASSUME NEW s \in Seq(Event), NEW runs \in Seq(RunStatus), Agree(s, runs, FALSE), runs # <<>>,
           Len(s) = 2 * Len(runs), NEW status \in {"completed", "failed"}
    PROVE  Agree(s, [runs EXCEPT ![Len(runs)] = status], TRUE)
<1> DEFINE n == Len(runs)
           new == [runs EXCEPT ![n] = status]
<1>1. /\ Len(s) \in Nat /\ n \in Nat /\ n > 0 /\ Len(s) = 2 * n /\ Len(new) = n
      /\ \A k \in 1 .. n : k # n => new[k] = runs[k]
  OBVIOUS
<1> HIDE DEF n, new
<1>2. ASSUME NEW k \in 1 .. n, Settled(new[k]), k # n
      PROVE  2 * k + 1 <= Len(s) /\ Reports(s[2 * k + 1], new[k])
  BY <1>1, <1>2 DEF Agree, n
<1>3. ASSUME NEW i \in 1 .. Len(s), Ended(s[i])
      PROVE  \E k \in 1 .. n : i = 2 * k + 1 /\ Reports(s[i], new[k])
  <2>1. PICK k \in 1 .. n : i = 2 * k + 1 /\ Reports(s[i], runs[k])
    BY <1>3 DEF Agree, n
  <2>2. k # n
    BY <1>1, <2>1
  <2> QED
    BY <1>1, <2>1, <2>2
<1>4. Agree(s, new, TRUE)
  BY <1>1, <1>2, <1>3 DEF Agree
<1> QED
  BY <1>4 DEF new, n

\* Then the event is written.
LEMMA ReportAgrees ==
    ASSUME NEW s \in Seq(Event), NEW runs \in Seq(RunStatus), Agree(s, runs, TRUE), runs # <<>>,
           Len(s) = 2 * Len(runs), NEW e \in Event, Reports(e, runs[Len(runs)])
    PROVE  Agree(Append(s, e), runs, FALSE)
<1> DEFINE t == Append(s, e)
           n == Len(runs)
<1>1. /\ Len(s) \in Nat /\ n \in Nat /\ n > 0 /\ Len(t) = Len(s) + 1
      /\ t[Len(s) + 1] = e /\ Reports(e, runs[n])
      /\ \A i \in 1 .. Len(s) : t[i] = s[i]
  OBVIOUS
<1>2. Len(s) = 2 * n
  OBVIOUS
<1> HIDE DEF t, n
<1>3. ASSUME NEW k \in 1 .. n, Settled(runs[k])
      PROVE  2 * k + 1 <= Len(t) /\ Reports(t[2 * k + 1], runs[k])
  <2>1. CASE k = n
    BY <1>1, <1>2, <2>1
  <2>2. CASE k # n
    <3>1. 2 * k + 1 <= Len(s) /\ Reports(s[2 * k + 1], runs[k])
      BY <1>3, <2>2 DEF Agree, n
    <3>2. 2 * k + 1 \in 1 .. Len(s)
      BY <1>1, <3>1
    <3> QED
      BY <1>1, <3>1, <3>2
  <2> QED
    BY <2>1, <2>2
<1>4. ASSUME NEW i \in 1 .. Len(t), Ended(t[i])
      PROVE  \E k \in 1 .. n : i = 2 * k + 1 /\ Reports(t[i], runs[k])
  <2>1. CASE i = Len(s) + 1
    <3>1. n \in 1 .. n /\ i = 2 * n + 1 /\ Reports(t[i], runs[n])
      BY <1>1, <1>2, <2>1
    <3> QED
      BY <3>1
  <2>2. CASE i # Len(s) + 1
    <3>0. Len(t) = Len(s) + 1 /\ Len(s) \in Nat
      BY <1>1
    <3>1. i \in 1 .. Len(s)
      BY <3>0, <1>4, <2>2
    <3>2. t[i] = s[i]
      BY <1>1, <3>1
    <3> QED
      BY <1>4, <3>1, <3>2 DEF Agree, n
  <2> QED
    BY <2>1, <2>2
<1>5. Agree(t, runs, FALSE)
  BY <1>3, <1>4 DEF Agree, n
<1> QED
  BY <1>5 DEF t

\* A step that streams nothing and settles nothing, by where it goes.
LEMMA QuietFlows ==
    ASSUME NEW r \in Requests, Flows(r),
           UNCHANGED <<asked[r], events[r], toolRuns[r], started[r]>>,
           \/ pc'[r] \in {"failed", "interrupted"}
           \/ pc'[r] = pc[r] /\ result'[r] = result[r]
           \/ <<pc[r], pc'[r]>> \in {<<"load_context", "load_memory">>, <<"load_memory", "call_model">>,
                                     <<"execute_tools", "call_model">>, <<"tool_load", "tool_insert">>,
                                     <<"tool_execute", "tool_finish">>,
                                     <<"output_guardrail", "persist_load">>,
                                     <<"persist_load", "persist_commit">>,
                                     <<"persist_commit", "persist_stream">>,
                                     <<"write_memory", "finishing">>,
                                     <<"finishing", "completed">>}
    PROVE  Flows(r)'
<1>1. Agree(events[r], toolRuns[r], FALSE) => Agree(events[r], toolRuns[r], TRUE)
  BY DEF Agree
<1>2. CASE pc'[r] \in {"failed", "interrupted"}
  BY <1>1, <1>2 DEF Flows, Late, Between, Unopened, AtTools
<1>3. CASE pc'[r] = pc[r] /\ result'[r] = result[r]
  BY <1>3 DEF Flows, Late, Between, Unopened, AtTools
<1>4. CASE pc'[r] \notin {"failed", "interrupted"} /\ pc'[r] # pc[r]
  BY <1>4 DEF Flows, Late, Between, Unopened, AtTools
<1> QED
  BY <1>2, <1>3, <1>4

\* The first answer of the model, or a later one.
LEMMA ModelFlows ==
    ASSUME Inv, NEW r \in Requests, Flows(r), pc[r] = "call_model", MessageStart(r),
           UNCHANGED <<asked[r], toolRuns[r]>>,
           pc'[r] \in {"output_guardrail", "execute_tools"}
    PROVE  Flows(r)'
<1>1. /\ events[r] \in Seq(Event) /\ toolRuns[r] \in Seq(RunStatus)
      /\ started'[r] = (started[r] \/ asked[r].stream)
  <2>1. started' = [started EXCEPT ![r] = @ \/ asked[r].stream]
    BY DEF MessageStart
  <2> QED
    BY <2>1 DEF Inv, TypeOK
<1>2. CASE ~ asked[r].stream
  <2>1. events'[r] = events[r]
    BY <1>2, EmittedFacts, EventLists DEF Inv, TypeOK, MessageStart
  <2> QED
    BY <1>2, <2>1 DEF Flows, Late
<1>3. CASE asked[r].stream /\ started[r]
  <2>1. events'[r] = events[r] /\ started'[r]
    BY <1>1, <1>3 DEF MessageStart
  <2> QED
    BY <1>3, <2>1 DEF Flows, Late, Between, AtTools
<1>4. CASE asked[r].stream /\ ~ started[r]
  <2>1. events'[r] = events[r] \o <<"message_start">> /\ started'[r]
    BY <1>1, <1>4, EmittedFacts, EventLists DEF Inv, TypeOK, MessageStart
  <2>2. events'[r] = Append(events[r], "message_start")
    BY <1>1, <2>1
  <2>3. events[r] = <<>> /\ toolRuns[r] = <<>> /\ LastOf(events[r]) = "begin"
        /\ Len(events[r]) = 0 /\ Len(toolRuns[r]) = 0
    BY <1>4 DEF Flows, Unopened, LastOf
  <2>4. WellFormed(events[r]) /\ Agree(events[r], toolRuns[r], FALSE) /\ "message_start" \in Event
        /\ ~ Ended("message_start")
    BY <1>4 DEF Flows, Late, Event, Ended
  <2>5. /\ WellFormed(events'[r]) /\ LastOf(events'[r]) = "message_start"
        /\ Len(events'[r]) = 1
    <3>1. "message_start" \in After[LastOf(events[r])]
      BY <2>3, Following
    <3>2. /\ WellFormed(Append(events[r], "message_start"))
          /\ LastOf(Append(events[r], "message_start")) = "message_start"
          /\ Len(Append(events[r], "message_start")) = Len(events[r]) + 1
      BY <1>1, <2>4, <3>1, AppendWellFormed, Zenon
    <3> QED
      BY <2>2, <2>3, <3>2
  <2>6. Agree(events'[r], toolRuns[r], FALSE)
    BY <1>1, <2>2, <2>4, AppendAgrees
  <2>7. Between(r)' /\ asked'[r].stream
    BY <1>4, <2>3, <2>5 DEF Between
  <2>8. Agree(events'[r], toolRuns'[r], FALSE)
    BY <2>6
  <2> QED
    BY <2>1, <2>5, <2>7, <2>8 DEF Flows, Late, AtTools
<1> QED
  BY <1>2, <1>3, <1>4

\* A call has ended and its row is settled.
LEMMA FinishFlows ==
    ASSUME Inv, NEW r \in Requests, Flows(r), ToolFinish(r)
    PROVE  Flows(r)'
<1> DEFINE n == Len(toolRuns[r])
           rows == [toolRuns[r] EXCEPT ![n] = result[r]]
<1>1. /\ events[r] \in Seq(Event) /\ toolRuns[r] \in Seq(RunStatus) /\ toolRuns[r] # <<>>
      /\ result[r] \in {"completed", "failed"} /\ pc[r] = "tool_finish"
      /\ UNCHANGED <<asked[r], started[r], events[r], result[r]>>
      /\ toolRuns'[r] = rows /\ pc'[r] = "tool_report"
  BY ToolFinishFacts, Moves DEF ToolFinish, Inv, TypeOK, Progress, state
<1>2. rows # <<>> /\ Len(rows) = n /\ rows[Len(rows)] = result[r]
  BY <1>1
<1>3. asked[r].stream => Agree(events[r], rows, TRUE)
  <2>1. ASSUME asked[r].stream
        PROVE  Agree(events[r], toolRuns[r], FALSE) /\ Len(events[r]) = 2 * Len(toolRuns[r])
    BY <1>1, <2>1 DEF Flows, Late
  <2> QED
    BY <1>1, <2>1, SettleAgrees
<1> HIDE DEF rows
<1> QED
  BY <1>1, <1>2, <1>3 DEF Flows, Late, AtTools

\* The event of an ended call and, if another one is pending, of its start.
LEMMA ReportFlows ==
    ASSUME Inv, NEW r \in Requests, Flows(r), ToolReport(r)
    PROVE  Flows(r)'
<1> DEFINE ended == IF result[r] = "completed" THEN "tool_complete" ELSE "tool_error"
           n == Len(toolRuns[r])
<1>1. /\ events[r] \in Seq(Event) /\ toolRuns[r] \in Seq(RunStatus) /\ toolRuns[r] # <<>>
      /\ result[r] \in {"completed", "failed"} /\ pc[r] = "tool_report"
      /\ UNCHANGED <<asked[r], started[r], toolRuns[r]>>
      /\ n \in Nat /\ toolRuns[r][n] = result[r]
  BY DEF ToolReport, Inv, TypeOK, Progress, Flows, database
<1>2. /\ ended \in {"tool_complete", "tool_error"} /\ ended \in Event
      /\ Reports(ended, result[r])
  BY <1>1 DEF Reports, Event
<1>3. \/ pc'[r] = "tool_load" /\ events' = Emitted(r, <<ended, "tool_start">>)
      \/ pc'[r] = "call_model" /\ events' = Emitted(r, <<ended>>)
  BY Moves DEF ToolReport
<1> HIDE DEF ended, n
<1>4. CASE ~ asked[r].stream
  <2>1. \A new \in Seq(Event) : Emitted(r, new)[r] = events[r]
    BY <1>4, EmittedFacts DEF Inv, TypeOK
  <2>2. <<ended>> \in Seq(Event) /\ <<ended, "tool_start">> \in Seq(Event)
    BY <1>2, EventLists
  <2>3. events'[r] = events[r]
    BY <1>3, <2>1, <2>2
  <2> QED
    BY <1>1, <1>3, <1>4, <2>3 DEF Flows
<1>5. CASE asked[r].stream
  <2> DEFINE mid == Append(events[r], ended)
  <2>1. /\ WellFormed(events[r]) /\ Agree(events[r], toolRuns[r], TRUE)
        /\ LastOf(events[r]) = "tool_start" /\ Len(events[r]) = 2 * n /\ started[r]
    BY <1>1, <1>5 DEF Flows, Late, n, AtTools
  <2>2. /\ WellFormed(mid) /\ LastOf(mid) = ended /\ mid \in Seq(Event)
        /\ Len(mid) = Len(events[r]) + 1
    BY <1>1, <1>2, <2>1, AppendWellFormed, Following
  <2>3. Agree(mid, toolRuns[r], FALSE)
    BY <1>1, <1>2, <2>1, ReportAgrees DEF n
  <2>4. \A new \in Seq(Event) : Emitted(r, new)[r] = events[r] \o new
    BY <1>5, EmittedFacts DEF Inv, TypeOK
  <2>5. <<ended>> \in Seq(Event) /\ <<ended, "tool_start">> \in Seq(Event)
    BY <1>2, EventLists
  <2> HIDE DEF mid
  <2>7. CASE pc'[r] = "call_model"
    <3>1. events'[r] = events[r] \o <<ended>>
      BY <1>3, <2>4, <2>5, <2>7
    <3>2. events'[r] = mid
      BY <1>1, <1>2, <3>1 DEF mid
    <3>3. started'[r] /\ asked'[r].stream
      BY <1>1, <1>5, <2>1
    <3>4. Len(mid) = 2 * Len(toolRuns[r]) + 1
      BY <2>1, <2>2 DEF n
    <3> QED
      BY <1>1, <1>2, <2>2, <2>3, <2>7, <3>2, <3>3, <3>4 DEF Flows, Late, Between, AtTools
  <2>8. CASE pc'[r] = "tool_load"
    <3> DEFINE all == Append(mid, "tool_start")
    <3>1. events'[r] = events[r] \o <<ended, "tool_start">>
      BY <1>3, <2>4, <2>5, <2>8
    <3>2. events'[r] = all
      BY <1>1, <1>2, <3>1 DEF mid
    <3>3. /\ WellFormed(all) /\ LastOf(all) = "tool_start" /\ Len(all) = Len(mid) + 1
      BY <1>2, <2>2, AppendWellFormed, Following DEF Event
    <3>4. Agree(all, toolRuns[r], FALSE)
      <4>1. "tool_start" \in Event /\ ~ Ended("tool_start")
        BY DEF Event, Ended
      <4> QED
        BY <1>1, <2>2, <2>3, <4>1, AppendAgrees
    <3> HIDE DEF all
    <3>5. Len(all) = 2 * Len(toolRuns[r]) + 2
      BY <1>1, <2>1, <2>2, <3>3 DEF n
    <3>6. started'[r] /\ asked'[r].stream
      BY <1>1, <1>5, <2>1
    <3> QED
      BY <1>1, <2>8, <3>2, <3>3, <3>4, <3>5, <3>6 DEF Flows, Late, AtTools
  <2> QED
    BY <1>3, <2>7, <2>8
<1> QED
  BY <1>4, <1>5

\* The two events of the answer.
LEMMA AnswerFlows ==
    ASSUME Inv, NEW r \in Requests, Flows(r), pc[r] = "persist_stream",
           pc'[r] = "write_memory", UNCHANGED <<asked[r], toolRuns[r], started[r]>>,
           events'[r] = IF asked[r].stream
                        THEN events[r] \o <<"message_delta", "message_complete">>
                        ELSE events[r]
    PROVE  Flows(r)'
<1>1. events[r] \in Seq(Event) /\ toolRuns[r] \in Seq(RunStatus)
  BY DEF Inv, TypeOK
<1>2. CASE ~ asked[r].stream
  BY <1>2 DEF Flows, Late
<1>3. CASE asked[r].stream
  <2> DEFINE mid == Append(events[r], "message_delta")
             all == Append(mid, "message_complete")
  <2>1. /\ "message_delta" \in Event /\ ~ Ended("message_delta")
        /\ "message_complete" \in Event /\ ~ Ended("message_complete")
    BY DEF Event, Ended
  <2>2. WellFormed(events[r]) /\ Agree(events[r], toolRuns[r], FALSE) /\ Between(r)
    BY <1>3 DEF Flows, Late
  <2>3. "message_delta" \in After[LastOf(events[r])]
    BY <2>2, Following DEF Between
  <2>4. WellFormed(mid) /\ LastOf(mid) = "message_delta" /\ mid \in Seq(Event)
    BY <1>1, <2>1, <2>2, <2>3, AppendWellFormed
  <2>5. Agree(mid, toolRuns[r], FALSE)
    BY <1>1, <2>1, <2>2, AppendAgrees
  <2>6. events'[r] = all
    <3>1. events'[r] = events[r] \o <<"message_delta", "message_complete">>
      BY <1>3
    <3> QED
      BY <1>1, <2>1, <3>1
  <2> HIDE DEF mid
  <2>7. WellFormed(all)
    BY <2>1, <2>4, AppendWellFormed, Following
  <2>8. Agree(all, toolRuns[r], FALSE)
    BY <1>1, <2>1, <2>4, <2>5, AppendAgrees
  <2> HIDE DEF all
  <2> QED
    BY <1>3, <2>6, <2>7, <2>8 DEF Flows, Late, AtTools
<1> QED
  BY <1>2, <1>3

\* The request that steps.
LEMMA StepFlows ==
    ASSUME Inv, NEW r \in Requests, Flows(r), Step(r)
    PROVE  Flows(r)'
<1>a. /\ Progress(r) /\ events[r] \in Seq(Event) /\ toolRuns[r] \in Seq(RunStatus)
  BY DEF Inv, TypeOK
<1>1. ASSUME NEW a \in Ask, Start(r, a) PROVE Flows(r)'
  <2>1. /\ pc[r] = "new" /\ pc'[r] = "load_context"
        /\ UNCHANGED <<events, toolRuns, started>>
    BY <1>1, Moves DEF Start, database, state
  <2>2. Unopened(r) /\ ~ started[r]
    BY <2>1 DEF Flows
  <2>3. Agree(events[r], toolRuns[r], FALSE) /\ WellFormed(events[r])
    BY <2>2 DEF Unopened, Agree, WellFormed
  <2> QED
    BY <2>1, <2>2, <2>3 DEF Flows, Late, Unopened, AtTools
<1>2. CASE LoadContext(r)
  <2>1. /\ UNCHANGED <<asked, events, toolRuns, started>>
        /\ pc[r] = "load_context" /\ pc'[r] \in {"failed", "load_memory"}
    BY <1>2, Moves DEF LoadContext, database
  <2> QED
    BY <2>1, QuietFlows
<1>3. CASE LoadMemory(r)
  <2>1. /\ UNCHANGED <<asked, events, toolRuns, started>>
        /\ pc[r] = "load_memory" /\ pc'[r] = "call_model"
    BY <1>3, Moves DEF LoadMemory, database
  <2> QED
    BY <2>1, QuietFlows
<1>4. CASE CallModel(r)
  <2>1. CASE ModelFails(r)
    <3>1. UNCHANGED <<asked, events, toolRuns, started>> /\ pc'[r] = "failed"
      BY <2>1, Moves DEF ModelFails, database
    <3> QED
      BY <3>1, QuietFlows
  <2>2. ASSUME NEW text \in ModelText, ModelAnswers(r, text) PROVE Flows(r)'
    <3>1. /\ pc[r] = "call_model" /\ MessageStart(r) /\ UNCHANGED <<asked, toolRuns>>
          /\ pc'[r] = "output_guardrail"
      BY <2>2, Moves DEF ModelAnswers, database
    <3> QED
      BY <3>1, ModelFlows
  <2>3. ASSUME NEW n \in 1 .. MaxCalls, ModelCallsTools(r, n) PROVE Flows(r)'
    <3>1. /\ pc[r] = "call_model" /\ MessageStart(r) /\ UNCHANGED <<asked, toolRuns>>
          /\ pc'[r] \in {"output_guardrail", "execute_tools"}
      BY <2>3, Moves DEF ModelCallsTools, database
    <3> QED
      BY <3>1, ModelFlows
  <2> QED
    BY <1>4, <2>1, <2>2, <2>3 DEF CallModel
<1>5. CASE ExecuteTools(r)
  <2>0. pc[r] = "execute_tools" /\ UNCHANGED <<asked, toolRuns, started>>
    BY <1>5, Moves DEF ExecuteTools, database
  <2>1. CASE pc'[r] = "call_model" /\ UNCHANGED events
    BY <2>0, <2>1, QuietFlows
  <2>2. CASE pc'[r] = "tool_load" /\ events' = Emitted(r, <<"tool_start">>)
    <3>1. CASE ~ asked[r].stream
      <4>1. events'[r] = events[r]
        BY <2>2, <3>1, EmittedFacts, EventLists DEF Inv, TypeOK
      <4> QED
        BY <2>0, <2>2, <3>1, <4>1 DEF Flows
    <3>2. CASE asked[r].stream
      <4> DEFINE t == Append(events[r], "tool_start")
      <4>1. events'[r] = events[r] \o <<"tool_start">>
        BY <2>2, <3>2, EmittedFacts, EventLists DEF Inv, TypeOK
      <4>2. events'[r] = t
        BY <1>a, <4>1
      <4>3. /\ WellFormed(events[r]) /\ Agree(events[r], toolRuns[r], FALSE)
            /\ Between(r) /\ started[r]
        BY <2>0, <3>2 DEF Flows, Late, AtTools
      <4>4. "tool_start" \in Event /\ ~ Ended("tool_start")
        BY DEF Event, Ended
      <4>5. "tool_start" \in After[LastOf(events[r])]
        BY <4>3, Following DEF Between
      <4>6. WellFormed(t) /\ LastOf(t) = "tool_start" /\ Len(t) = Len(events[r]) + 1
        BY <1>a, <4>3, <4>4, <4>5, AppendWellFormed
      <4>7. Agree(t, toolRuns[r], FALSE)
        BY <1>a, <4>3, <4>4, AppendAgrees
      <4> HIDE DEF t
      <4>8. Len(t) = 2 * Len(toolRuns[r]) + 2
        BY <1>a, <4>3, <4>6 DEF Between
      <4> QED
        BY <2>0, <2>2, <3>2, <4>2, <4>3, <4>6, <4>7, <4>8 DEF Flows, Late, AtTools
    <3> QED
      BY <3>1, <3>2
  <2> QED
    BY <1>5, <2>1, <2>2, Moves DEF ExecuteTools
<1>6. CASE ToolLoad(r)
  <2>1. /\ UNCHANGED <<asked, events, toolRuns, started>>
        /\ pc[r] = "tool_load" /\ pc'[r] \in {"failed", "tool_insert"}
    BY <1>6, Moves DEF ToolLoad, LoadConversation, database, state
  <2> QED
    BY <2>1, QuietFlows
<1>7. CASE ToolInsert(r)
  <2>0. pc[r] = "tool_insert" /\ UNCHANGED <<asked, events, started>>
    BY <1>7 DEF ToolInsert, state
  <2>1. CASE InsertFails(r)
    <3>1. pc'[r] = "failed" /\ UNCHANGED toolRuns
      BY <1>7, <2>1, Moves DEF ToolInsert
    <3> QED
      BY <2>0, <3>1, QuietFlows
  <2>2. CASE ~ InsertFails(r)
    <3> DEFINE t == Append(toolRuns[r], "running")
    <3>1. pc'[r] = "tool_execute" /\ toolRuns'[r] = t
      BY <1>7, <2>2, Moves DEF ToolInsert, Inv, TypeOK
    <3>2. Len(t) = Len(toolRuns[r]) + 1 /\ Len(toolRuns[r]) \in Nat
      BY <1>a
    <3>3. asked[r].stream => Agree(events[r], t, FALSE)
      BY <1>a, <2>0, InsertAgrees DEF Flows, Late
    <3> HIDE DEF t
    <3>4. asked[r].stream => Len(events[r]) = 2 * Len(t)
      BY <2>0, <3>2 DEF Flows
    <3> QED
      BY <2>0, <3>1, <3>3, <3>4 DEF Flows, Late, AtTools
  <2> QED
    BY <2>1, <2>2
<1>8. CASE ToolExecute(r)
  <2>1. /\ UNCHANGED <<asked, events, toolRuns, started>>
        /\ pc[r] = "tool_execute" /\ pc'[r] \in {"failed", "tool_finish"}
    BY <1>8, Moves DEF ToolExecute, database
  <2> QED
    BY <2>1, QuietFlows
<1>9. CASE ToolFinish(r)
  BY <1>9, FinishFlows
<1>10. CASE OutputGuardrail(r)
  <2>1. /\ UNCHANGED <<asked, events, toolRuns, started>>
        /\ pc[r] = "output_guardrail" /\ pc'[r] \in {"failed", "persist_load"}
    BY <1>10, Moves DEF OutputGuardrail, database
  <2> QED
    BY <2>1, QuietFlows
<1>11. CASE PersistLoad(r)
  <2>1. /\ UNCHANGED <<asked, events, toolRuns, started>>
        /\ pc[r] = "persist_load" /\ pc'[r] \in {"failed", "persist_commit"}
    BY <1>11, Moves DEF PersistLoad, LoadConversation, database
  <2> QED
    BY <2>1, QuietFlows
<1>12. CASE PersistCommit(r)
  <2>1. /\ UNCHANGED <<asked, events, toolRuns, started>>
        /\ pc[r] = "persist_commit" /\ pc'[r] \in {"failed", "persist_stream"}
    BY <1>12, Moves DEF PersistCommit, state
  <2> QED
    BY <2>1, QuietFlows
<1>13. CASE PersistStream(r)
  <2>1. /\ UNCHANGED <<asked, toolRuns, started>>
        /\ pc[r] = "persist_stream" /\ pc'[r] = "write_memory"
        /\ events' = Emitted(r, <<"message_delta", "message_complete">>)
    BY <1>13, Moves DEF PersistStream, database
  <2>2. events'[r] = IF asked[r].stream
                     THEN events[r] \o <<"message_delta", "message_complete">>
                     ELSE events[r]
    BY <2>1, EmittedFacts, EventLists DEF Inv, TypeOK
  <2> QED
    BY <2>1, <2>2, AnswerFlows
<1>14. CASE RecursionExceeded(r) \/ IsFailed(r) \/ Cancel(r)
  <2>1. UNCHANGED <<asked, events, toolRuns, started>> /\ pc'[r] \in {"failed", "interrupted"}
    BY <1>14, Moves DEF RecursionExceeded, IsFailed, AnswerLost, CheckpointFails, DatabaseFails, Cancel, database, state
  <2> QED
    BY <2>1, QuietFlows
<1>15. CASE WriteMemory(r)
  <2>1. /\ UNCHANGED <<asked, events, toolRuns, started>>
        /\ pc[r] = "write_memory" /\ pc'[r] = "finishing"
    BY <1>15, Moves DEF WriteMemory, database
  <2> QED
    BY <2>1, QuietFlows
<1>16. CASE Finish(r)
  <2>1. /\ UNCHANGED <<asked, events, toolRuns, started>>
        /\ pc[r] = "finishing" /\ pc'[r] = "completed"
    BY <1>16, Moves DEF Finish, database, state
  <2> QED
    BY <2>1, QuietFlows
<1>17. CASE ToolReport(r)
  BY <1>17, ReportFlows
<1> QED
  BY <1>1, <1>2, <1>3, <1>4, <1>5, <1>6, <1>7, <1>8, <1>9, <1>10, <1>11, <1>12, <1>13, <1>14,
     <1>15, <1>16, <1>17 DEF Step, Proceeds

\* The steps together.
LEMMA NextFlows ==
    Inv /\ (\A r \in Requests : Flows(r)) /\ [Next]_vars => \A r \in Requests : Flows(r)'
<1> SUFFICES ASSUME Inv, \A r \in Requests : Flows(r), [Next]_vars, NEW q \in Requests
             PROVE  Flows(q)'
  OBVIOUS
<1>1. CASE UNCHANGED vars
  BY <1>1, QuietFlows DEF vars
<1>2. CASE Crash
  <2>1. /\ UNCHANGED <<asked, events, toolRuns, started, result>>
        /\ pc'[q] \in {pc[q], "interrupted"}
    BY <1>2, CrashKeeps DEF database, state
  <2> QED
    BY <2>1, QuietFlows
<1>3. ASSUME NEW r \in Requests, Step(r)
      PROVE  Flows(q)'
  <2>1. CASE q = r
    BY <1>3, <2>1, StepFlows
  <2>2. CASE q # r
    BY <1>3, <2>2, Frame, QuietFlows DEF Own
  <2> QED
    BY <2>1, <2>2
<1> QED
  BY <1>1, <1>2, <1>3, NextCases

\* Nothing has been streamed.
LEMMA InitFlows == Init => \A r \in Requests : Flows(r)
<1> SUFFICES ASSUME Init, NEW r \in Requests PROVE Flows(r)
  OBVIOUS
<1>1. events[r] = <<>> /\ toolRuns[r] = <<>> /\ ~ started[r] /\ pc[r] = "new"
  BY DEF Init
<1> QED
  BY <1>1 DEF Flows, WellFormed, Agree, Unopened, AtTools

\* Every stream keeps its order and its brackets, for any number of rounds and calls and
\* wherever its run fails or is cut off (graph.py, the stream writer of the nodes).
THEOREM WellFormedStreams == EndpointSpec => []StreamWellFormed
<1>1. EndpointInit => \A r \in Requests : Flows(r)
  BY InitFlows DEF EndpointInit
<1>2. Inv /\ (\A r \in Requests : Flows(r)) /\ [EndpointNext]_allVars =>
          (\A r \in Requests : Flows(r))'
  BY NextFlows, EndpointSteps
<1>3. (\A r \in Requests : Flows(r)) => StreamWellFormed
  BY DEF Flows, WellFormed, StreamWellFormed
<1> QED
  BY <1>1, <1>2, <1>3, InvAlways, PTL DEF EndpointSpec

\* Every call a stream reports has ended as its row says, every row that is settled has been
\* reported, save the last one of a run that stands or ended between the commit of the row and
\* its event, and a message that is complete is stored.
THEOREM TruthfulStreams == EndpointSpec => []StreamTruthful
<1>1. EndpointInit => (\A r \in Requests : Flows(r)) /\ Rows /\ Handler /\ Account
  BY InitFlows, InitRows, InitHandler, InitAccount DEF EndpointInit
<1>2. Inv /\ (\A r \in Requests : Flows(r)) /\ Rows /\ Handler /\ Account
         /\ [EndpointNext]_allVars =>
          (\A r \in Requests : Flows(r))' /\ Rows' /\ Handler' /\ Account'
  BY NextFlows, NextRows, NextHandler, NextAccount, EndpointSteps
<1>3. (\A r \in Requests : Flows(r)) /\ Account => StreamTruthful
  <2> SUFFICES ASSUME \A r \in Requests : Flows(r), Account, NEW r \in Requests
               PROVE  /\ asked[r].stream => IF Late(r) THEN Agree(events[r], toolRuns[r], TRUE)
                                                       ELSE Agree(events[r], toolRuns[r], FALSE)
                      /\ "message_complete" \in {events[r][i] : i \in 1 .. Len(events[r])} =>
                            Stored(r)
    BY DEF StreamTruthful, Agree, Late
  <2> QED
    BY DEF Flows, Account, Tells
<1> QED
  BY <1>1, <1>2, <1>3, InvAlways, PTL DEF EndpointSpec
=============================================================================
