----------------------------- MODULE ChatMemory -----------------------------
(***************************************************************************)
(* The short-term memory of one conversation: the rolling summary that     *)
(* load_memory puts into the prompt and write_memory refreshes.            *)
(*                                                                         *)
(* Messages are their ids, 1 .. stored: append_exchange updates the        *)
(* conversation row before it inserts, so exchanges of one conversation    *)
(* take their ids in the order they commit.  What a summary text tells is  *)
(* the set of the messages it was generated from; its wording, and with it *)
(* the truncation to memory_max_summary_chars, is left out, but no two     *)
(* generated texts are the same, so an UPDATE always writes summary_text.  *)
(* It writes last_summarized_message_id only when that differs from the    *)
(* row the session loaded.                                                 *)
(***************************************************************************)
EXTENDS Naturals

CONSTANTS
    Requests,        \* chat requests of the conversation
    Window,          \* memory_recent_message_window
    Trigger,         \* memory_summary_trigger_messages
    InitialStored    \* how many messages may be stored at the start, without a summary

ASSUME MemoryAssumption ==
    /\ Window \in Nat
    /\ Trigger \in Nat
    /\ InitialStored \subseteq Nat

VARIABLES
    stored,    \* the messages of the conversation are 1 .. stored
    row,       \* the conversation_summaries row
    pc,        \* the await a request stands at
    history,   \* how many messages a request has listed
    seen,      \* the summary a request has read
    draft,     \* the summary it has generated
    prompt,    \* what load_memory put into the prompt
    overlapped \* history: whether a request has started while another was at work

vars == <<stored, row, pc, history, seen, draft, prompt, overlapped>>

\* A row that does not exist tells nothing and sets no boundary.
Summary == [exists : BOOLEAN, tells : SUBSET Nat, boundary : Nat]
NoSummary == [exists |-> FALSE, tells |-> {}, boundary |-> 0]
Prompt == [of : Nat, told : SUBSET Nat, raw : SUBSET Nat]
NoPrompt == [of |-> 0, told |-> {}, raw |-> {}]

WorkingPc == {"load_context", "load_records", "read_summary", "persist", "list_records",
              "get_summary", "generate", "upsert_load", "upsert_commit"}
EndPc == {"refreshed", "skipped", "failed"}
Pc == {"new"} \union WorkingPc \union EndPc

Newest(n) == {m \in 1 .. stored : m + n > stored}
Goto(r, p) == pc' = [pc EXCEPT ![r] = p]

\* The request is done with its memory; what it held goes with it.
Ends(r, p) ==
    /\ Goto(r, p)
    /\ history' = [history EXCEPT ![r] = 0]
    /\ seen' = [seen EXCEPT ![r] = NoSummary]
    /\ draft' = [draft EXCEPT ![r] = NoSummary]
    /\ prompt' = [prompt EXCEPT ![r] = NoPrompt]

-----------------------------------------------------------------------------
Start(r) ==
    /\ pc[r] = "new"
    /\ overlapped' = (overlapped \/ \E q \in Requests : pc[q] \in WorkingPc)
    /\ Goto(r, "load_context")
    /\ UNCHANGED <<stored, row, history, seen, draft, prompt>>

\* load_context_node: until load_memory has run, the prompt is the whole history.
LoadContext(r) ==
    /\ pc[r] = "load_context"
    /\ prompt' = [prompt EXCEPT ![r] = [of |-> stored, told |-> {}, raw |-> 1 .. stored]]
    /\ Goto(r, "load_records")
    /\ UNCHANGED <<stored, row, history, seen, draft>>

LoadRecords(r) ==
    /\ pc[r] = "load_records"
    /\ history' = [history EXCEPT ![r] = stored]
    /\ Goto(r, "read_summary")
    /\ UNCHANGED <<stored, row, seen, draft, prompt>>

\* prepare_prompt: the raw history past the boundary, cut to the window once there is
\* a summary; raw_history[-0 :] cuts nothing.
RawHistory(n, summary) ==
    {m \in summary.boundary + 1 .. n : ~summary.exists \/ Window = 0 \/ m + Window > n}

ReadSummary(r) ==
    /\ pc[r] = "read_summary"
    /\ prompt' = [prompt EXCEPT ![r] =
                    [of |-> history[r], told |-> row.tells, raw |-> RawHistory(history[r], row)]]
    /\ Goto(r, "persist")
    /\ UNCHANGED <<stored, row, history, seen, draft>>

\* load_memory_node swallows an error: the prompt of load_context stays.
MemorySkipped(r) ==
    /\ pc[r] \in {"load_records", "read_summary"}
    /\ Goto(r, "persist")
    /\ UNCHANGED <<stored, row, history, seen, draft, prompt>>

\* persist_response_node: the user's and the assistant's message.
Persist(r) ==
    /\ pc[r] = "persist"
    /\ stored' = stored + 2
    /\ prompt' = [prompt EXCEPT ![r] = NoPrompt]
    /\ Goto(r, "list_records")
    /\ UNCHANGED <<row, history, seen, draft>>

-----------------------------------------------------------------------------
\* write_after_persist lists the history; a short one needs no summary.
ListRecords(r) ==
    /\ pc[r] = "list_records"
    /\ IF stored < Trigger
       THEN Ends(r, "refreshed")
       ELSE /\ history' = [history EXCEPT ![r] = stored]
            /\ Goto(r, "get_summary")
            /\ UNCHANGED <<seen, draft, prompt>>
    /\ UNCHANGED <<stored, row>>

\* Mutant of Due: more than the trigger is needed.
DueLate(n, summary) == n - summary.boundary > Trigger /\ n - summary.boundary > Window

\* Whether so many messages are unsummarised that the oldest of them are to go into
\* the summary; unsummarized[: -0] is empty, so with no window none ever are.
Due(n, summary) ==
    /\ n - summary.boundary >= Trigger
    /\ n - summary.boundary > Window
    /\ Window > 0

GetSummary(r) ==
    /\ pc[r] = "get_summary"
    /\ IF Due(history[r], row)
       THEN /\ seen' = [seen EXCEPT ![r] = row]
            /\ Goto(r, "generate")
            /\ UNCHANGED <<history, draft, prompt>>
       ELSE Ends(r, "refreshed")
    /\ UNCHANGED <<stored, row>>

\* Mutant of Refreshed: the previous summary is not passed on.
RefreshedAnew(n, summary) ==
    [exists |-> TRUE, tells |-> summary.boundary + 1 .. n - Window, boundary |-> n - Window]

\* Mutant of Refreshed: the newest messages are summarised with the others.
RefreshedWhole(n, summary) ==
    [exists |-> TRUE, tells |-> summary.tells \union (summary.boundary + 1 .. n), boundary |-> n]

\* The summary generated from the previous one and the records to summarise.
Refreshed(n, summary) ==
    [exists |-> TRUE, tells |-> summary.tells \union (summary.boundary + 1 .. n - Window),
     boundary |-> n - Window]

Generate(r) ==
    /\ pc[r] = "generate"
    /\ draft' = [draft EXCEPT ![r] = Refreshed(history[r], seen[r])]
    /\ Goto(r, "upsert_load")
    /\ UNCHANGED <<stored, row, history, seen, prompt>>

\* The provider fails, answers with a tool call or says nothing; or a database call of
\* write_memory raises, which write_memory_node swallows.
RefreshSkipped(r) ==
    /\ pc[r] \in {"list_records", "get_summary", "generate", "upsert_load", "upsert_commit"}
    /\ Ends(r, "skipped")
    /\ UNCHANGED <<stored, row>>

UpsertLoad(r) ==
    /\ pc[r] = "upsert_load"
    /\ seen' = [seen EXCEPT ![r] = row]
    /\ Goto(r, "upsert_commit")
    /\ UNCHANGED <<stored, row, history, draft, prompt>>

\* The INSERT conflicts with a row that appeared since; the UPDATE writes what changed.
UpsertCommit(r) ==
    /\ pc[r] = "upsert_commit"
    /\ IF seen[r].exists
       THEN /\ row' = IF draft[r].boundary = seen[r].boundary
                      THEN [draft[r] EXCEPT !.boundary = row.boundary]
                      ELSE draft[r]
            /\ Ends(r, "refreshed")
       ELSE IF row.exists
            THEN Ends(r, "skipped") /\ UNCHANGED row
            ELSE row' = draft[r] /\ Ends(r, "refreshed")
    /\ UNCHANGED stored

\* The workflow fails, its client leaves or the process dies, at any await.
Abandon(r) ==
    /\ pc[r] \in WorkingPc
    /\ Ends(r, "failed")
    /\ UNCHANGED <<stored, row>>

Init ==
    /\ stored \in InitialStored
    /\ row = NoSummary
    /\ pc = [r \in Requests |-> "new"]
    /\ history = [r \in Requests |-> 0]
    /\ seen = [r \in Requests |-> NoSummary]
    /\ draft = [r \in Requests |-> NoSummary]
    /\ prompt = [r \in Requests |-> NoPrompt]
    /\ overlapped = FALSE

Proceeds(r) ==
    \/ LoadContext(r) \/ LoadRecords(r) \/ ReadSummary(r) \/ MemorySkipped(r)
    \/ Persist(r) \/ ListRecords(r) \/ GetSummary(r) \/ Generate(r) \/ RefreshSkipped(r)
    \/ UpsertLoad(r) \/ UpsertCommit(r) \/ Abandon(r)

Next == \E r \in Requests : Start(r) \/ (Proceeds(r) /\ UNCHANGED overlapped)

Spec == Init /\ [][Next]_vars

-----------------------------------------------------------------------------
TypeOK ==
    /\ stored \in Nat
    /\ row \in Summary
    /\ pc \in [Requests -> Pc]
    /\ history \in [Requests -> Nat]
    /\ seen \in [Requests -> Summary]
    /\ draft \in [Requests -> Summary]
    /\ prompt \in [Requests -> Prompt]
    /\ overlapped \in BOOLEAN

\* The newest messages, as many as the window holds, stay outside the rolling summary,
\* however many requests refresh it at the same time: no text tells them and the
\* boundary is not past them.
NewestOutside ==
    \A m \in Newest(Window) : m \notin row.tells /\ row.boundary < m

\* As long as one request at a time runs, the summary tells every message up to its
\* boundary: none that the prompt leaves out as summarised is missing from the text,
\* whatever refresh failed or was cut off before.
SummaryHonest == ~ overlapped => row.tells = 1 .. row.boundary

\* As long as one request at a time runs, every prompt holds the newest stored messages raw
\* and repeats none that the summary tells.
PromptNewest ==
    ~ overlapped => \A r \in Requests : pc[r] = "persist" =>
        /\ Newest(Window) \subseteq prompt[r].raw
        /\ prompt[r].told \intersect prompt[r].raw = {}

\* As long as one request at a time runs, a refresh that goes through leaves fewer
\* unsummarised messages than the trigger, or no more than the window; also after
\* earlier ones were skipped, it catches up at once.
RefreshCatchesUp ==
    [][~ overlapped => \A r \in Requests : pc[r] # "refreshed" /\ pc'[r] = "refreshed" =>
          \/ stored' - row'.boundary < Trigger
          \/ stored' - row'.boundary <= Window
          \/ Window = 0]_vars

\* The stored history is replayed to the provider, in the summary or raw.
HistoryReplayed ==
    \A r \in Requests : pc[r] = "persist" =>
        prompt[r].told \union prompt[r].raw = 1 .. prompt[r].of
=============================================================================
