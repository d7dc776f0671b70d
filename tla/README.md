# TLA+ models of the chatbot backbone

A FastAPI service that answers chat requests through a LangGraph workflow, keeps the
conversations, their summaries and the users' memories in PostgreSQL, and searches uploaded
documents that Celery workers embed. This directory holds its specifications (`*.tla`), the
TLC instances (`*.cfg`, `MC*.tla`) and the proofs (`*Proofs.tla`). Paths below are relative to
`src/src/chatbot_api/` unless they begin with `src/`; `PROJECT.json` maps every definition to
the lines it stands for.

    tlasany M.tla                       parse
    tlc -config X.cfg M                 model-check (M is named in PROJECT.json, "runs")
    tlapm MProofs.tla                   prove

## 1. The system

| Component | State it keeps | Operations |
|---|---|---|
| Document pipeline (`main.py` upload, `retrieval/document_ingestion.py`, `retrieval/document_embeddings.py`, `tasks/`) | `documents.status`, `document_chunks.embedding`, Celery messages, the reindex cursor | upload and duplicate check, create, enqueue, mark failed; the embedding task with batches, retries and its own failure path; the reindex command |
| Text chunker (`TextChunker`) | none between calls | cut a text into overlapping chunks |
| Retrieval (`retrieval/retriever.py`) | none between calls | embed the query, search, rerank by a model, select |
| Chat workflow (`workflow/graph.py`, `workflow/services.py`, `workflow/tools.py`) | `conversations`, `messages`, `tool_runs`; the graph state of a run | load, call the model, execute tools, guard, persist, write memory |
| Chat endpoint (`main.py`, POST /chat) | the HTTP response or event stream of a request | await the run or stream its events, map errors, close, record the outcome |
| Conversation summary (`memory/manager.py`) | `conversation_summaries` | choose summary and raw messages for the prompt; refresh the summary |
| Long-term memories (`memory/manager.py`, `repositories.py`) | `memories` | extract, upsert, list for the prompt; list and delete by endpoint |
| Rate limiter (`main.py`) | one counter and window start per key, in memory | count, refuse with Retry-After |
| HTTP middleware (`main.py`) | flags in the scope of one request | limit the body, add the request id, record the request |
| Metrics registry (`observability.py`) | counters and histograms under a lock | observe, render |
| Authentication and API keys (`auth.py`, `repositories.py`, `tasks/create_api_key.py`) | `users`, `api_keys`, the owner columns | mint a key; look a key up and note its use; read tool runs, summaries and documents for their owner |
| Workflow runtime (`workflow/workflow_runtime.py`) | the workflow of the process, a lock, the checkpointer's connection | build on first use, close at shutdown |
| Evaluation suite (`evals/`) | report files; rows left in the database | preflight, retrieval, chat and memory evals, verdict |
| Guardrail rules, tool implementations, extractors, providers, tracing, settings | | see section 7 |

How they interact. A request passes the rate limiter, the body limit and the observability
middleware, has its API key looked up and reaches a handler. POST /chat waits for the workflow of
the process, runs it in a task of its own, and reads its events from a queue when it streams; the
workflow's nodes call the model, the tools (among them Retrieval), the conversation repository and the
memory manager, each with the database session of the request. POST /documents cuts the text (TextChunker), inserts the
document and sends a Celery message; a worker fills the embeddings and decides the status,
which searches read. The reindex command sends the same message again. The evaluation suite
runs retrieval, workflow and memory against the database the server uses.

What is hard. Handlers of one process interleave at every `await`, several processes at every
statement: the database gives READ COMMITTED, so what a SELECT returned may be stale when
the UPDATE is sent, and an UPDATE writes only the columns the session changed. All of a chat
request uses one session, so an error that one node swallows is met by the next. The broker
may take a message and still report an error. Workers, the API process and its clients may go
away between any two steps. Providers fail, time out, or answer what nobody asked for. A
stream has sent its status line before the outcome is known.

What makes each part correct, in a sentence each:

* pipeline - *ready* means every chunk is embedded, and every stored document is decided;
* chunker - no text is lost, the loop ends, and no chunk is useless;
* retrieval - reranking permutes, selection takes the best within its limits;
* workflow - exchanges are stored whole, once, by their owner, as guarded and as streamed;
* endpoint - what a client is told and what is recorded agree with what is stored;
* summary - what the prompt leaves out is in the summary, and the newest messages are not;
* memories - one per user and key, with a value its user stated; deletion stands;
* rate limiter - a bound on bursts, and an honest Retry-After;
* middleware - a request is recorded once, under the status that was sent;
* metrics - what a scrape shows is what was observed;
* authentication - rows go to the user who made them, with a key that was good; revocation stands;
* runtime - one workflow, on an open connection, and none left over;
* evaluation - the gate opens only on this run's reports, and a rerun agrees.

## 2. Modules

| Module | Models | State and actions |
|---|---|---|
| `DocumentLifecycle` | what a reader of the store may rely on | status and embedded chunks per document; two abstract specifications, for one task per document and for several |
| `DocumentPipeline` | upload handler, Celery task, reindex command, crashes | `status`, `embedded` are the two columns; `request[d]` is the handler's place, `jobs[j]` a Celery task with its place, what it loaded (`missing`, `seen`) and its retries; `reindex*` is the command's cursor and page. One action per stretch of code between two awaits (`JobList`, `JobEmbed`, `JobRefetch`, `JobReadyLoad`, `JobReadyCommit`, `JobLeave`, ...) |
| `TextChunker` | `chunk_text` and `_determine_chunk_end` | `start`, `chunks`; `Cut` is one turn of the loop |
| `Retrieval` | `retrieve_chunks`, `_rerank_candidates`, `parse_rerank_response`, `select_retrieved_chunks` | `candidates`, `rankings`, `order`, `selected`; one action per call and per turn of a loop |
| `ChatWorkflow` | every node of the graph, `append_exchange`, the tool run rows, the stream writer | the tables, and per request `pc`, `rounds`, `calls`, `answer`, `events`, ...; `aborted` is a session whose transaction a swallowed error has aborted |
| `ChatEndpoint` | EXTENDS `ChatWorkflow` with the handler and the client | `http`, `delivered`, `gone`, `recorded`; the handler's steps and the workflow's are interleaved |
| `ChatContract` | what POST /chat promises a client, without workflow or stream | `stored`, `told` |
| `ChatMemory` | `prepare_prompt` and the refresh of the summary | `row` (the summary: its boundary and the set of messages its text tells), per request what it listed, read, generated and put in the prompt |
| `LongTermMemory` | `write_after_persist`'s upserts, `list_memories`, the two endpoints | `rows` (the table), per request the facts of its message and the upsert under way (`held`) |
| `RateLimiter` | `RateLimitMiddleware.dispatch` | `start`, `count` per key; two clocks, `time()` and real time |
| `HttpStack` | the three middlewares around the application | one request: body read, status, parts sent, records, what went out |
| `AccessControl` | the `create_api_key` command, `get_authenticated_user`, the reads of tool runs, summaries and documents | `users`, `apiKeys`, `owner` are the tables; `mint[k]` and `call[c]` hold a command and a request between two statements; keys are revoked, users removed and time passes beside them |
| `WorkflowRuntime` | `ChatWorkflowRuntime` and the shutdown in `lifespan` | `workflow`, `checkpointer`, `lock` are the object's fields; `connection[g]` is the connection request `g` opened |
| `EvalSuite` | `run_eval_suite` and the three evals it calls | the rows that matter to a case, the report files, the run's place; a case is a step |
| `Metrics` | `MetricsRegistry.observe` and `render` | `total`, `histogram`, `rendered` |

`MCDoor` and `MCDocuments` put components that share no state into one instance: a variable,
`subject`, chosen once, says which of them a behaviour shows. `MCEvals` gives the datasets. The other
`MC*` modules add only symmetry sets or constant values. `*Proofs` modules hold theorems about
the module they extend. Definitions named "Mutant of X" are wrong versions of X, used to see
that a property notices the difference; no specification uses them.

Data is abstracted to what the properties tell apart: texts are model values, a summary is the
set of messages it was made from, an embedding exists or not, a similarity is a small number.
Control is not: every early return, error path and write order is there.

## 3. What is checked

Every passing run is an exhaustive search of its instance. The instances come to rest when their
bounded requests are served, so deadlock is not checked; what has to happen is stated as a
liveness property instead.

### Document pipeline

* `pipeline_concurrent` - two documents of two chunks in batches of one, two task ids for the
  uploads, the second message of an ambiguous enqueue and the reindex command, pages of one document,
  crashes of the API process and of workers, both outcomes of the retry limit. `FinishedOrDecided`:
  the empty answer of `list_chunks_missing_embeddings`, acted on three awaits later, still means what
  it meant. `ReindexCovers`: the keyset cursor passes over no document that needs it while uploads
  and tasks go on. `KeepsLifecycle`: the pipeline implements `DocumentLifecycle`. Two chunks and
  batches of one let tasks overtake one another inside a document; two documents and pages of one
  let the cursor skip; retries are left to the next run, in which they are bounded by one.
* `pipeline_single_job` - two documents, no reindex, an unambiguous enqueue: searches see a document
  whole or not at all (`SearchAllOrNothing`), and the stricter life cycle holds
  (`KeepsSingleJobLifecycle`): a document that was given up is never searchable again. It does not
  say that "ready" stays: after `mark_document_ready` has committed, a lost answer, the end of the
  session or `aclose()` of the provider may raise, and the task then runs again or marks the document
  failed (`JobLeave` and what is enabled beside it). When the retry limit shows as the exception the
  code expects, every document is decided (`EventuallyDecided`), except where the broker fails inside
  `retry()` (`JobRetryLost`): after that nothing but a reindex run decides the document. It is the
  same after a crash, so crashes are left out of this run; the safety properties are proved with
  them (section 6).
* `pipeline_retry_limit` - a counterexample, section 4.

### Chat

* `chat_endpoint` - the endpoint composed with the workflow: two concurrent requests of two owners on
  one conversation id, sync or streaming, one tool round, database errors at every statement,
  sessions left aborted, clients that leave and crashes. `ExchangesWhole` and `OwnedConversations`
  speak of the tables, `RecordsTruthful` and `NoOrphanRun` of the handler. Two requests are what it
  takes to race for the insert of a conversation; there is no guard in this run, so what the model
  says does not matter. A handler whose client has left closes only the outermost of three nested
  generators; the others are closed when the event loop comes to it (`FinalizerCloses`), and until
  then the run goes on and may commit. `NoOrphanRun` says that this happens behind no other client.
* `chat_request` - one request with a guard, two rounds of up to two tool calls, with and without a
  tool registry, and every fault, a commit whose answer is lost and a failing checkpointer
  included: `StreamWellFormed`, `StreamTruthful`, `ToolRunsSettled`, `GuardedAnswers`, `KeepsContract`,
  `EventuallyAnswered`. The recursion limit of ten is the least that leaves room for two rounds;
  without a registry it is the only end of the tool loop.
  - A tool run is committed in one step and its event written in another, and so is the exchange.
    `StreamTruthful` says that no event is ahead of its row, and that only the last row may lack its
    event, where the run stands between the two or was ended there.
  - `KeepsContract` is the refinement of `ChatContract` under the mapping "stored" = the request's
    messages are in the table, "told" = what the handler has sent. An error behind the commit of the
    exchange (of the checkpointer, which writes after every node, the lost answer to the commit, or
    the step limit without a registry) is answered a plain 500 where nothing was streamed, and breaks
    the stream off elsewhere; the contract counts both as "cut off". A client may rely on any status
    the handler chooses and on an `error` event; on a plain 500 only where no such error occurs
    (`Reliable`). That case, and several requests at once, are left to the theorem `ContractKept`.
* `memory` - four requests on a conversation of 0, 2 or 6 messages with a window of 2 and a trigger of
  4: `NewestOutside`, and, as long as no two requests overlap, `SummaryHonest` and `RefreshCatchesUp`,
  also after skipped and failed refreshes. Two refreshes fit, so a second builds on a first. The history
  variable `overlapped` tells the two cases apart. Three overlapping requests do break `SummaryHonest`:
  an UPDATE that writes the text but not the boundary (which had not changed for that session) lands on
  another's boundary.
* `facts` - two users, two keys, two values, two requests and a call of the debug endpoints:
  `OwnMemories`, `ValueStated` and `DeletionWins` whatever overlaps; `OneRowPerKey` and
  `FactsRemembered` as long as nothing does. A statement, a deletion and a restatement fit. The run
  has authentication on; the first three are proved for both settings.

### Documents, sequentially

* `documents` - of `TextChunker`, all normalised texts of up to eight ink, space and break characters,
  chunks of four with an overlap of three: `InkCovered`, `ChunksInOrder`, and that the loop ends
  (`EventuallyDone`). The overlap is larger than half a chunk on purpose: only then may a separator
  leave a chunk shorter than it. Of `Retrieval`, four chunks of three documents, every scoring, every
  visible subset, every answer of at most two rankings with indexes from -1 to one past the last:
  `RerankFollowsAnswer` and `SelectedBest`, which compare the loops with declarative statements of
  their result. `TopK` is smaller than the number of documents, so both limits bite. The
  candidates are cut to `CandidateLimit` before the share of a document is applied.

### Before the handler

* `door` - of `RateLimiter`, one key, a limit of two, five requests in a window of two seconds of two
  ticks, seven ticks in all, one clock step and one restart: `BurstBound` (in less than a window fewer
  than twice the limit, and once the limit more per disturbance), `RetryAfterHonest`. With a limit of
  two the last request of a window and all of the next fit in less than a window, undisturbed. Half
  seconds are needed to see the truncation of Retry-After; keys do not share state. Of `HttpStack`,
  bodies of up to three chunks against a limit of two bytes, responses of up to two parts:
  `RecordedAsSent`. Of `AccessControl`, two users, two keys, one thing, two requests and a clock up to
  five with a throttle of two: `OwnRowsOnly`, `LastUsedFresh`, `RevocationStays`. Two requests let a
  late write meet a newer one; one thing may go from owner to owner. Of `WorkflowRuntime`, three first
  requests: `OneWorkflow`. Three leave one to wait while a second comes for what a first failed to set
  up.
* `metrics_buckets` - a counterexample, section 4.

### Evaluation

* `evals` - two runs of the suite over one retrieval case, two chat cases (one of them a loop past the
  round limit) and three memory cases taken from the checked-in datasets, on a database that holds
  the users' rows or not, while a server adds messages and documents come and go: `GateHonest`,
  `SuiteReportFounded`, `RerunAgrees`. A second run is what meets the reports and rows of a first;
  the thresholds let the chat eval pass with one case of two, so passing and falling short both occur.
  A prompt shows the memories of its user, those that earlier runs left included; of a case the
  dataset says which prompts it accepts (`fits`), and the prompt of one of the three shows, in the second
  run only, the memory that its first run has stored. `RerunAgrees` speaks of the cases that name no message id and
  judge a prompt alike with the memories they store themselves and without (`Repeatable`), and of runs
  in which nothing fails in the case. `MCEvals` assumes `OwnUsers` of its cases, which the proof of `RerunAgrees` needs and the checked-in
  dataset has: no user has two memory cases.
* `suite_reports` - a counterexample, section 4.

Of the type invariants a run lists only `TypeOK` of the document pipeline; all of them are theorems
(section 6). So are `PromptNewest`, `LoopWithinLimit`, `RefusedStaysOut` and `RecordedOnce`.

## 4. Where code and documents disagree

Three runs end in a counterexample; `PROJECT.json`, "findings", quotes the lines.

| Run | What happens |
|---|---|
| `pipeline_retry_limit` | `task.retry(exc=exc)` raises `exc` at the limit, not `MaxRetriesExceededError`: the document stays `processing`. (Celery is external; the constant `RetryLimitRaises` names the choice.) |
| `metrics_buckets` | `observe` counts a value in every bucket it fits in, and `render` adds the buckets up once more: a bucket can exceed the count |
| `suite_reports` | the strict `zip` of `is_deep_subset` raises when a search finds more than a chat case names, outside the `try` of the case: a traceback instead of the reports that `src/README.md:629` promises after a passed preflight. A memory case whose user has no row ends the suite likewise where foreign keys are enforced |

The following do not hold either. Each is a property that its module defines and no configuration
lists; added to the named one, TLC shows the steps.

| Property, to be added to | What happens |
|---|---|
| `SearchAllOrNothing`, `pipeline_concurrent` | one task marks a document failed, the missing chunks disappear from the other's query, and it marks the document ready; `src/README.md:221` says retrieval only uses documents that are `ready` |
| `NoDuplicateStored`, `pipeline_single_job` | two uploads of one file pass the checksum lookup before either is stored; `src/README.md:222` says the second is rejected |
| `OneRowPerKey` without `~ overlapped`, `facts` | two first statements of one fact are inserted twice; `src/tests/test_repositories.py:478` expects the second upsert in the row of the first |
| `RollingWindow`, `door` | the window is fixed; `src/README.md:294` says rolling |
| `FailureAnnounced`, `chat_endpoint` | an error outside the four caught classes ends a stream without the `error` event of `src/README.md:404` |
| `HistoryReplayed`, `memory` with `Trigger = 6` | messages between the boundary of the summary and the window are in neither; `src/README.md:120` says the stored history is replayed |
| `RequestIdEverywhere`, `door` | 413, 429 and unhandled 500 answers carry no X-Request-ID; `src/README.md:329` says every response does |
| `OneWorkflow` without `waits`, `door` | a server that does not wait for its requests closes the workflow under them; and where it cancels them in `setup()`, `except Exception` does not see the `CancelledError` and the connection stays open |
| `RerunAgrees` without its condition on ids, `evals` | a memory case that names message ids is judged by ids that earlier runs and the server have used up |
| `RerunAgrees` without its condition on prompts, `evals` with a case that forbids a memory which it stores itself | the first run passes, and the second meets the memory in its prompt |
| `EventuallyDecided` without its exception (`RetryLost`), `pipeline_single_job` | a broker that fails inside `retry()` raises past both except clauses of `tasks/embedding_jobs.py:104-124`: the document stays `processing` |
| `KeepsContract` with every plain 500 counted as a failure (`Reliable` set to TRUE in `ToldFailed`), `chat_request` | the checkpointer fails after the exchange is stored: the client is answered 500, and asking again stores it twice |

## 5. Fairness

Only the runs with a liveness property assume any, and only weak fairness. `DocumentPipeline`: a handler that has
begun goes on, and a queued or running task goes on (Celery's workers take messages as long as
one runs); nobody has to send a request or run the reindex command, and no fault has to happen.
`ChatEndpoint`: the event loop resumes a run, and a handler, whose await is
done; a client need not leave, a process need not die. `TextChunker`: the loop runs on. Each
of these is the promise of the scheduler the code runs under; none is asked of providers
beyond answering or timing out, which the code's own timeouts see to.

## 6. What is proved

TLAPS checks these for every value of the constants that satisfies the assumptions stated beside
them; the assumptions say no more than that limits are numbers and choices are sets of the kind.

* **DocumentPipelineProofs.** `TypeCorrect`; `PipelineSafe` (`FinishedOrDecided`,
  `OnlyStoredDocuments`): `PipelineInv` is the conjunction of the two, which is inductive given types -
  the first needs the second, since a task that names no stored document would be told that nothing is
  missing. `PipelineImplementsLifecycle`: every step of the pipeline is a step of the life cycle or
  leaves the two columns alone; the step to "ready" is where `FinishedOrDecided` is needed.
  `SingleDeliverySafe`, assuming `SingleDelivery` (no reindex runs, no ambiguous enqueue): the stricter
  life cycle, `SearchAllOrNothing` (also as `WholeSearches`) and `RefusedStaysOut`, from `SingleJobInv`,
  which adds that what a task or handler loaded is what the row still holds, and that a document whose
  task is at work is being processed or was made ready by that task (`StatusAtWork`).
  `ReindexPassesOverNone` (`ReindexCovers`): a page leaves out nothing smaller than what is on it, and
  by the life cycle a document once finished or given up stays so; `CoverInv` says it of what is owed
  and has been passed or left out of the page.
* **AlgorithmProofs.** Of the chunker `TypeCorrect`, `NothingLost` (`InkCovered`), `ChunksUseful`
  (`ChunksInOrder`, `EveryChunkAdds`). The invariant adds `LoopInv`: the last chunk kept starts before
  the next one, ends at most the overlap behind its start, and before the end of the text. Two lemmas
  carry the arithmetic: where a chunk may end (`ChunkEndBounds`) and where the next may start
  (`NextStartBounds`). Of a search `SearchTypes` (`RetrievalTypeOK`), `AnswerFollowed`
  (`RerankFollowsAnswer`) and `BestSelected` (`SelectedBest`), for every set of chunks, every limit and
  every answer of the model. `SearchInv` says what each loop has done so far: `Placed` and `Ranking` that
  every candidate passed stands in the order once, by the first item that names it or else by its own
  place; `Selecting` that a place passed is chosen exactly if the chunks chosen before it leave room.
  Both loops read a list they build, so the lemmas say what appending changes (`AppendTo`) and that a
  list without repetition has as many elements as places (`CountDistinct`).
* **LongTermMemoryProofs.** `TypeCorrect`, `MemoriesStayOwn` (`OwnMemories`), `ValuesStated`
  (`ValueStated`), `DeletionsWin` (`DeletionWins`). The invariant adds what a request holds: the row
  it selected is still there, of its user and key, and anything it was read to be was stated.
  `OneRowEach` (`OneRowPerKey`) and `FactsKept` (`FactsRemembered`) assume finitely many requests and
  calls, which `Cardinality` needs: one at a time, what an upsert found is what the table holds when
  it writes, and every fact that is no longer due stands in a live row.
* **ChatMemoryProofs.** `TypeCorrect`, `NewestStayOutside` (`NewestOutside`). The invariant says of
  every summary that was read or generated, not only of the stored one, that it fits the messages
  listed, because stale ones may still be written. `HonestSummary` (`SummaryHonest`) and
  `NewestInPrompt` (`PromptNewest`) rest on a second one, `Alone`: until two requests overlap at most one
  is at work, and the history and the row it has read are those in the tables. With `UpToDate`, that the
  list a refresh works from is the whole stored history, `CatchesUpAtOnce` (`RefreshCatchesUp`) follows.
* **ChatProofs**, of the endpoint composed with the workflow, for any number of requests,
  conversations and owners. A step of one request leaves the run of every other as it is (`Frame`),
  so each part of the invariant is shown for the request that steps. `Inv` says what a run holds at each
  await; on it rest `ToolsSettled` (`ToolRunsSettled`), `WithinLimit` (`LoopWithinLimit`, by counting the
  nodes a round takes) and `NothingUnguarded` (`GuardedAnswers`). What steps do to the tables is
  summed up once (`StepRows`): an exchange is appended by the request that stores it, or nothing is. From
  this follow `WholeExchanges` (`ExchangesWhole`; the inductive part is `Rows`, that a
  request is stored exactly where it stands behind its commit) and `OwnConversations`
  (`OwnedConversations`; a request found the conversation its own, or will insert it, and an owner
  never changes). `Handler` relates handler and run, which has ended unless the
  handler waits for it or its client has left: `EndpointTypes`, `NoneOrphaned` (`NoOrphanRun`).
  `TruthfulRecords` (`RecordsTruthful`) adds that `message_complete` is emitted once the exchange is
  stored. `WellFormedStreams` (`StreamWellFormed`) and `TruthfulStreams` (`StreamTruthful`) rest on
  `Flows`: two events for each tool call, the second after the update of its row, so the length of
  a stream tells at each await how many rows there are and whether the last awaits its event.
  `ContractKept` (`KeepsContract`) assumes nothing: an error that the handler names is raised before the
  exchange is stored, wherever it occurs. `Reliable` (no lost answer to a commit, no failing
  checkpointer, a tool registry and a step limit with room for the rounds) only decides whether a plain
  500 counts as a failure; the proof shows that nothing then fails behind the commit.
* **DoorProofs.** Of authentication `TypeCorrect`, `OwnRows` (`OwnRowsOnly`), `LastUsed`
  (`LastUsedFresh`), `Revocations` (`RevocationStays`). The invariant says of each request what it has
  learnt and what cannot be taken back: its key belonged to its caller and was live when it was looked
  up, a thing that was its caller's may lose its owner but is never another's, and a write under way is
  no older than the stall allows. Of the runtime `RuntimeTypes`, `OneForAll` (`OneWorkflow`): the
  invariant relates the lock to the one request that sets a connection up, and the workflow to the
  connection that `close()` will close.
* **EvalSuiteProofs**, for every dataset, threshold and number of runs. `EvalTypes` (`EvalTypeOK`).
  `SuiteReportsFounded` (`SuiteReportFounded`) and `GateHonestly` (`GateHonest`) rest on `ReportsInv`: the
  report of each eval that the run has done is the run's own, with what the run sums up, and the report
  of the suite is never of a later run than any beside it; a run that ends anywhere leaves both true.
  `RerunsAgree` (`RerunAgrees`) assumes `OwnUsers`. It rests on `RowsInv`, that the rows a case's user has
  are among those the case itself would leave, and `VerdictsInv`, that a repeatable case has had
  no verdict but the one its own numbers give. What a prompt shows of the rows is among what the case
  seeds and writes (`ShownOwn`), and for a repeatable case any of that fits or none does
  (`FitSettled`); which memories a prompt shows when there are more than it may is left open. That a
  case compares all memories of its user holds up to 64 of them, which `EvalAssumption` states. Where
  two cases share a user the second is judged by the rows of the first; the loader asks only that the
  ids of cases differ.
* **MiddlewareProofs.** Of the rate limiter `LimiterTypes` and `BurstBounded` (`BurstBound`), with the
  wall clock set and the process restarted at any time. `LimiterInv` relates the log of passed requests
  to the counter through the real time at which the counter's window was opened and the number `d` of
  disturbances before it (`AccountOf`): what is older than the window's own requests was passed on
  before it opened, and what is older by another `Limit * (1 + d)`, a window before; the last of a
  window and all of the next come to one less than twice the limit, since the first request opens it. As
  long as nothing has disturbed the window the wall clock tells its age, so the next one opens a window
  later; a disturbance breaks that, and adds one more `Limit` to the bound instead. `HonestWaits`
  (`RetryAfterHonest`) assumes `Limit > 0` and lets the clock step: a wait is short by less than a
  second, the next one then covers the rest of the window, and a step of the clock can undo no more than
  those two. Of the middleware stack `StackTypes`, `RecordedAtMostOnce` (`RecordedOnce`) and
  `RecordsAsSent` (`RecordedAsSent`): the flag of `finalize` is exactly whether a record exists, and
  what has gone out follows from how far the request has come.

Only model-checked: liveness (`EventuallyDecided`, `EventuallyAnswered`, `EventuallyDone`), which is
beyond the prover, and what is refuted by a run (`Metrics`).

## 7. What is not modelled

* Guardrail patterns, the calculator's parser and the extractors are sequential text processing; the
  models choose their verdict. Providers are external: they answer, fail or time out.
* The profile columns of a user, which no decision reads, and the parsing of API keys and
  forwarded addresses: who asks is a key, and where from is a rate limiter key.
* The tables of LangGraph's checkpointer, though not its errors (`CheckpointFails`): the input of a run
  gives every field of the state anew (`initial_workflow_state`), so nothing of an earlier checkpoint of
  the conversation is used.
* The guardrail eval, which the suite does not run, and the metrics an eval averages into its report
  without judging by them; expectations of the summary's prompt that turn on message ids; and a
  failure that is swallowed in a memory case and that none of its expectations misses.
* Counters and label rendering of the metrics, tracing, logging, settings.

## 8. Plan

The order was: the pipeline and its life cycle; rate limiter and middleware; chat workflow,
endpoint and contract; the two memories; chunker and retrieval; access control, runtime and the
evaluation suite; the proofs about the chat. What could follow:

1. A run of the pipeline with three concurrent tasks of one document, for which the theorems stand in
   now.
2. An abstract store of facts (tell, forget, recall, the newest facts of a user) that the long-term
   memories implement while requests take turns; `InTurn`, `OneRow` and `Apart` of
   `LongTermMemoryProofs` are the start of its invariant.
