-------------------------- MODULE DocumentPipeline --------------------------
(***************************************************************************)
(* The document pipeline: POST /documents, the Celery embedding job, the   *)
(* reindex command and the status and embedding columns they share.        *)
(*                                                                         *)
(* The API process and every Celery worker run on their own, against one   *)
(* database (READ COMMITTED: a SELECT sees what is committed, an UPDATE    *)
(* writes the columns the session changed) and one broker.  A step of the  *)
(* model is what happens between two awaits that reach the database, the   *)
(* broker or the embedding provider.                                       *)
(*                                                                         *)
(* Bounds: NumDocs upload requests, Jobs task ids, MaxReindexRuns runs of  *)
(* the reindex command.  MaxRetries is the setting of that name.           *)
(***************************************************************************)
EXTENDS Naturals, FiniteSets

CONSTANTS
    NumDocs,          \* upload requests; each is given a document id of its own
    NumChunks,        \* chunks of every document
    BatchSize,        \* document_embedding_batch_size
    MaxRetries,       \* document_embedding_task_max_retries
    PageSize,         \* document_reindex_page_size
    MaxReindexRuns,   \* bound: how often the reindex command is run
    Jobs,             \* bound: Celery task ids
    Contents,         \* checksums a file may have
    Owners,           \* authenticated users
    NoOwner,          \* owner_user_id None: authentication is disabled
    Faults,           \* which of "api_crash", "worker_crash", "broker_down",
                      \* "ambiguous_enqueue" happen
    RetryLimitRaises  \* what Task.retry raises once the retries are used up

ASSUME SizeAssumption ==
    /\ NumDocs \in Nat
    /\ NumChunks \in Nat \ {0}
    /\ BatchSize \in Nat \ {0}
    /\ PageSize \in Nat \ {0}
    /\ MaxRetries \in Nat
    /\ MaxReindexRuns \in Nat

ASSUME EnvironmentAssumption ==
    /\ NoOwner \notin Owners
    /\ Faults \subseteq {"api_crash", "worker_crash", "broker_down", "ambiguous_enqueue"}
    /\ RetryLimitRaises \subseteq {"MaxRetriesExceededError", "exc"}
    /\ RetryLimitRaises # {}

Docs == 1 .. NumDocs
Chunks == 1 .. NumChunks
NoDoc == 0

File == [content : Contents, owner : Owners \union {NoOwner}]
NoFile == [content |-> "none", owner |-> "none"]

VARIABLES
    status,        \* documents.status, "none" before the row exists
    embedded,      \* chunk indexes whose document_chunks.embedding is not NULL
    request,       \* where the upload handler of a document stands
    file,          \* what the upload handler was given
    seen,          \* the status the upload handler loaded before writing "failed"
    jobs,          \* the Celery tasks
    reindexPc,     \* where the reindex command stands
    reindexAfter,  \* its last_document_id (NoDoc for None)
    reindexPage,   \* the ids of its current page still to be enqueued
    reindexRuns,   \* how often it was started
    reindexOwed    \* history: documents that missed embeddings when the command
                   \* started and that it has not enqueued since

database == <<status, embedded>>
upload == <<request, file, seen>>
reindex == <<reindexPc, reindexAfter, reindexPage, reindexRuns, reindexOwed>>
vars == <<status, embedded, request, file, seen, jobs,
          reindexPc, reindexAfter, reindexPage, reindexRuns, reindexOwed>>

Status == {"none", "processing", "ready", "failed"}

RequestPc == {"idle", "checked", "created", "failing", "marking",
              "accepted", "rejected", "refused", "lost"}

\* The awaits of run_embed_document after the first get_document, in the order the job
\* reaches them: those of embed_document, then the end of the session and aclose().
RunningPc == {"list", "embed", "refetch", "ready_load", "ready_commit", "leaving"}
FailingPc == {"fail_load", "fail_commit"}
JobPc == {"queued", "start", "done"} \union RunningPc \union FailingPc

Job == [pc : JobPc, doc : Docs, retries : 0 .. MaxRetries,
        batch : SUBSET Chunks, seen : Status]

UnusedJob == [pc |-> "unused", doc |-> NoDoc, retries |-> 0,
              batch |-> {}, seen |-> "none"]
QueuedJob(d, n) == [pc |-> "queued", doc |-> d, retries |-> n,
                    batch |-> {}, seen |-> "none"]

-----------------------------------------------------------------------------
(* Queries of the document repository.                                     *)

\* Mutant of Smallest: the rows come in descending order.
LargestFirst(S, n) == {x \in S : Cardinality({y \in S : y > x}) < n}

\* The n smallest members: ORDER BY ... LIMIT n over a set of numbers.
Smallest(S, n) == {x \in S : Cardinality({y \in S : y < x}) < n}

\* Mutant of MissingChunks: the filter forgets the documents being processed.
MissingChunksOfReady(d) == IF status[d] = "ready" THEN Chunks \ embedded[d] ELSE {}

\* list_chunks_missing_embeddings: the status filter hides the chunks of a
\* failed document.
MissingChunks(d) ==
    IF status[d] \in {"processing", "ready"} THEN Chunks \ embedded[d] ELSE {}

\* list_documents_missing_embeddings, after the keyset cursor.
MissingDocs(after) == {d \in Docs : d > after /\ MissingChunks(d) # {}}

\* find_document_by_checksum: any status counts; without an owner, any owner does.
StoredDuplicate(f) ==
    \E d \in Docs : /\ status[d] # "none"
                    /\ file[d].content = f.content
                    /\ f.owner # NoOwner => file[d].owner = f.owner

\* What search_similar_chunks can return of a document.
SearchableChunks(d) == IF status[d] = "ready" THEN embedded[d] ELSE {}

\* _update_document_status writes the columns that differ from the row it loaded.
StatusAfterWrite(d, loaded, new) ==
    IF loaded # new THEN [status EXCEPT ![d] = new] ELSE status

-----------------------------------------------------------------------------
(* POST /documents                                                         *)

\* delay(): the broker takes the task.
Enqueued(d) == \E j \in Jobs : /\ jobs[j].pc = "unused"
                               /\ jobs' = [jobs EXCEPT ![j] = QueuedJob(d, 0)]

\* delay() raises; the broker may have taken the task all the same.
EnqueueRaises(d) ==
    \/ UNCHANGED jobs
    \/ "ambiguous_enqueue" \in Faults /\ Enqueued(d)

\* The request arrives and the checksum is looked up (a file over the size limit
\* is refused before anything is read).
UploadCheck(d, f) ==
    /\ request[d] = "idle"
    /\ file' = [file EXCEPT ![d] = f]
    /\ request' = [request EXCEPT
                     ![d] = IF StoredDuplicate(f) THEN "rejected" ELSE "checked"]
    /\ UNCHANGED <<database, seen, jobs, reindex>>

\* Extraction finds no text or an unsupported type, or the insert is rolled back.
UploadInvalid(d) ==
    /\ request[d] = "checked"
    /\ request' = [request EXCEPT ![d] = "rejected"]
    /\ UNCHANGED <<database, file, seen, jobs, reindex>>

\* The document and its chunks are committed in one transaction.
UploadCreate(d) ==
    /\ request[d] = "checked"
    /\ request' = [request EXCEPT ![d] = "created"]
    /\ status' = [status EXCEPT ![d] = "processing"]
    /\ UNCHANGED <<embedded, file, seen, jobs, reindex>>

UploadEnqueue(d) ==
    /\ request[d] = "created"
    /\ Enqueued(d)
    /\ request' = [request EXCEPT ![d] = "accepted"]
    /\ UNCHANGED <<database, file, seen, reindex>>

UploadEnqueueFails(d) ==
    /\ request[d] = "created"
    /\ EnqueueRaises(d)
    /\ request' = [request EXCEPT ![d] = "failing"]
    /\ UNCHANGED <<database, file, seen, reindex>>

\* mark_document_failed("enqueue_failed"): the row is loaded ...
UploadMarkLoad(d) ==
    /\ request[d] = "failing"
    /\ request' = [request EXCEPT ![d] = "marking"]
    /\ seen' = [seen EXCEPT ![d] = status[d]]
    /\ UNCHANGED <<database, file, jobs, reindex>>

\* ... and written; the client is answered 503.
UploadMarkCommit(d) ==
    /\ request[d] = "marking"
    /\ request' = [request EXCEPT ![d] = "refused"]
    /\ status' = StatusAfterWrite(d, seen[d], "failed")
    /\ UNCHANGED <<embedded, file, seen, jobs, reindex>>

\* The API process dies, or its database connection does.
ApiCrash(d) ==
    /\ "api_crash" \in Faults
    /\ request[d] \in {"checked", "created", "failing", "marking"}
    /\ request' = [request EXCEPT ![d] = "lost"]
    /\ UNCHANGED <<database, file, seen, jobs, reindex>>

-----------------------------------------------------------------------------
(* The embedding job: execute_embed_document_task around embed_document    *)

JobAt(j, pc) == jobs[j].pc = pc
JobMoves(j, pc) == jobs' = [jobs EXCEPT ![j].pc = pc]

\* A worker takes the task; the message is acknowledged before it runs.
JobTake(j) ==
    /\ JobAt(j, "queued")
    /\ JobMoves(j, "start")
    /\ UNCHANGED <<database, upload, reindex>>

\* The first get_document: a failed document is left alone.
JobStart(j) ==
    /\ JobAt(j, "start")
    /\ JobMoves(j, IF status[jobs[j].doc] = "failed" THEN "leaving" ELSE "list")
    /\ UNCHANGED <<database, upload, reindex>>

\* The head of the loop: the next batch, or out of the loop when none is missing.
JobList(j) ==
    /\ JobAt(j, "list")
    /\ LET missing == MissingChunks(jobs[j].doc)
       IN  jobs' = [jobs EXCEPT
                      ![j].pc = IF missing = {} THEN "refetch" ELSE "embed",
                      ![j].batch = Smallest(missing, BatchSize)]
    /\ UNCHANGED <<database, upload, reindex>>

\* Mutant of JobEmbed: only the first batch is embedded.
JobEmbedOnce(j) ==
    /\ JobAt(j, "embed")
    /\ embedded' = [embedded EXCEPT ![jobs[j].doc] = @ \union jobs[j].batch]
    /\ jobs' = [jobs EXCEPT ![j].pc = "refetch", ![j].batch = {}]
    /\ UNCHANGED <<status, upload, reindex>>

\* The provider has answered; the embeddings of the batch are committed.
JobEmbed(j) ==
    /\ JobAt(j, "embed")
    /\ embedded' = [embedded EXCEPT ![jobs[j].doc] = @ \union jobs[j].batch]
    /\ jobs' = [jobs EXCEPT ![j].pc = "list", ![j].batch = {}]
    /\ UNCHANGED <<status, upload, reindex>>

\* The second get_document: a ready document is not written again.
JobRefetch(j) ==
    /\ JobAt(j, "refetch")
    /\ JobMoves(j, IF status[jobs[j].doc] = "ready" THEN "leaving" ELSE "ready_load")
    /\ UNCHANGED <<database, upload, reindex>>

\* mark_document_ready loads the row ...
JobReadyLoad(j) ==
    /\ JobAt(j, "ready_load")
    /\ jobs' = [jobs EXCEPT ![j].pc = "ready_commit", ![j].seen = status[jobs[j].doc]]
    /\ UNCHANGED <<database, upload, reindex>>

\* ... and commits the status, whatever it has become meanwhile.
JobReadyCommit(j) ==
    /\ JobAt(j, "ready_commit")
    /\ status' = StatusAfterWrite(jobs[j].doc, jobs[j].seen, "ready")
    /\ JobMoves(j, "leaving")
    /\ UNCHANGED <<embedded, upload, reindex>>

\* The session scope is left and the provider closed.  What fails here, or was an answer
\* to the commit that got lost, fails the job after its work is done: see the actions below.
JobLeave(j) ==
    /\ JobAt(j, "leaving")
    /\ JobMoves(j, "done")
    /\ UNCHANGED <<database, upload, reindex>>

\* Mutant of JobRetry: one retry too many.
JobRetryOnceMore(j) ==
    /\ jobs[j].pc \in RunningPc \union {"start"}
    /\ jobs[j].retries <= MaxRetries
    /\ jobs' = [jobs EXCEPT ![j] = QueuedJob(@.doc, @.retries + 1)]
    /\ UNCHANGED <<database, upload, reindex>>

\* The provider or the database fails and retries are left: the task is queued again.
JobRetry(j) ==
    /\ jobs[j].pc \in RunningPc \union {"start"}
    /\ jobs[j].retries < MaxRetries
    /\ jobs' = [jobs EXCEPT ![j] = QueuedJob(@.doc, @.retries + 1)]
    /\ UNCHANGED <<database, upload, reindex>>

\* The broker does not take the retry: retry() raises something else than Retry.
JobRetryLost(j) ==
    /\ "broker_down" \in Faults
    /\ jobs[j].pc \in RunningPc \union {"start"}
    /\ jobs[j].retries < MaxRetries
    /\ JobMoves(j, "done")
    /\ UNCHANGED <<database, upload, reindex>>

\* Mutant of JobRetriesExhausted: the except branch is gone.
JobRetriesExhaustedUnhandled(j) ==
    /\ jobs[j].pc \in RunningPc \union {"start"}
    /\ jobs[j].retries = MaxRetries
    /\ JobMoves(j, "done")
    /\ UNCHANGED <<database, upload, reindex>>

\* The same with no retry left: MaxRetriesExceededError is caught and the document
\* marked failed; an error of another type leaves the handler as it is.
JobRetriesExhausted(j) ==
    /\ jobs[j].pc \in RunningPc \union {"start"}
    /\ jobs[j].retries = MaxRetries
    /\ \E raised \in RetryLimitRaises :
          JobMoves(j, IF raised = "MaxRetriesExceededError" THEN "fail_load" ELSE "done")
    /\ UNCHANGED <<database, upload, reindex>>

\* Any other exception: the document is marked failed at once.
JobError(j) ==
    /\ jobs[j].pc \in RunningPc \union {"start"}
    /\ JobMoves(j, "fail_load")
    /\ UNCHANGED <<database, upload, reindex>>

JobFailLoad(j) ==
    /\ JobAt(j, "fail_load")
    /\ jobs' = [jobs EXCEPT ![j].pc = "fail_commit", ![j].seen = status[jobs[j].doc]]
    /\ UNCHANGED <<database, upload, reindex>>

JobFailCommit(j) ==
    /\ JobAt(j, "fail_commit")
    /\ status' = StatusAfterWrite(jobs[j].doc, jobs[j].seen, "failed")
    /\ JobMoves(j, "done")
    /\ UNCHANGED <<embedded, upload, reindex>>

\* The worker dies: the task was acknowledged, so nobody runs it again.  An error
\* raised while the failure itself is being marked ends the task the same way.
WorkerCrash(j) ==
    /\ "worker_crash" \in Faults
    /\ jobs[j].pc \in RunningPc \union FailingPc \union {"start"}
    /\ JobMoves(j, "done")
    /\ UNCHANGED <<database, upload, reindex>>

-----------------------------------------------------------------------------
(* python -m chatbot_api.tasks.reindex_embeddings                          *)

ReindexStart ==
    /\ reindexPc = "idle"
    /\ reindexRuns < MaxReindexRuns
    /\ reindexPc' = "scan"
    /\ reindexAfter' = NoDoc
    /\ reindexRuns' = reindexRuns + 1
    /\ reindexOwed' = MissingDocs(NoDoc)
    /\ UNCHANGED <<database, upload, jobs, reindexPage>>

\* The next page after the cursor; an empty one ends the run.
ReindexScan ==
    /\ reindexPc = "scan"
    /\ LET docs == MissingDocs(reindexAfter)
       IN  /\ reindexPc' = IF docs = {} THEN "idle" ELSE "enqueue"
           /\ reindexPage' = Smallest(docs, PageSize)
    /\ UNCHANGED <<database, upload, jobs, reindexAfter, reindexRuns, reindexOwed>>

\* One id of the page is enqueued; after the last one the cursor moves to it.
ReindexEnqueue ==
    /\ reindexPc = "enqueue"
    /\ \E d \in reindexPage :
          /\ \A e \in reindexPage : d <= e
          /\ Enqueued(d)
          /\ reindexPage' = reindexPage \ {d}
          /\ reindexOwed' = reindexOwed \ {d}
          /\ IF reindexPage = {d}
             THEN reindexPc' = "scan" /\ reindexAfter' = d
             ELSE UNCHANGED <<reindexPc, reindexAfter>>
    /\ UNCHANGED <<database, upload, reindexRuns>>

\* The broker refuses: the exception ends the command.
ReindexAborts ==
    /\ reindexPc = "enqueue"
    /\ \E d \in reindexPage : (\A e \in reindexPage : d <= e) /\ EnqueueRaises(d)
    /\ reindexPc' = "idle"
    /\ reindexPage' = {}
    /\ reindexOwed' = {}
    /\ UNCHANGED <<database, upload, reindexAfter, reindexRuns>>

-----------------------------------------------------------------------------
Init ==
    /\ status = [d \in Docs |-> "none"]
    /\ embedded = [d \in Docs |-> {}]
    /\ request = [d \in Docs |-> "idle"]
    /\ file = [d \in Docs |-> NoFile]
    /\ seen = [d \in Docs |-> "none"]
    /\ jobs = [j \in Jobs |-> UnusedJob]
    /\ reindexPc = "idle"
    /\ reindexAfter = NoDoc
    /\ reindexPage = {}
    /\ reindexRuns = 0
    /\ reindexOwed = {}

\* What an upload handler does once the request was read, unless it dies.
UploadProceeds(d) ==
    \/ UploadInvalid(d)
    \/ UploadCreate(d)
    \/ UploadEnqueue(d)
    \/ UploadEnqueueFails(d)
    \/ UploadMarkLoad(d)
    \/ UploadMarkCommit(d)

\* What a task does once it was taken, unless its worker or the broker dies.
JobProceeds(j) ==
    \/ JobTake(j)
    \/ JobStart(j)
    \/ JobList(j)
    \/ JobEmbed(j)
    \/ JobRefetch(j)
    \/ JobReadyLoad(j)
    \/ JobReadyCommit(j)
    \/ JobLeave(j)
    \/ JobRetry(j)
    \/ JobRetriesExhausted(j)
    \/ JobError(j)
    \/ JobFailLoad(j)
    \/ JobFailCommit(j)

Reindex == ReindexStart \/ ReindexScan \/ ReindexEnqueue \/ ReindexAborts

Next ==
    \/ \E d \in Docs, f \in File : UploadCheck(d, f)
    \/ \E d \in Docs : UploadProceeds(d) \/ ApiCrash(d)
    \/ \E j \in Jobs : JobProceeds(j) \/ JobRetryLost(j) \/ WorkerCrash(j)
    \/ Reindex

Spec == Init /\ [][Next]_vars

\* The event loop runs a handler on, and a worker takes and runs a queued task.
\* Nobody has to send a request or to run the reindex command.
Fairness ==
    /\ \A d \in Docs : WF_vars(UploadProceeds(d))
    /\ \A j \in Jobs : WF_vars(JobProceeds(j))

FairSpec == Spec /\ Fairness

-----------------------------------------------------------------------------
(* Properties                                                              *)

TypeOK ==
    /\ status \in [Docs -> Status]
    /\ embedded \in [Docs -> SUBSET Chunks]
    /\ request \in [Docs -> RequestPc]
    /\ file \in [Docs -> File \union {NoFile}]
    /\ seen \in [Docs -> Status]
    /\ jobs \in [Jobs -> Job \union {UnusedJob}]
    /\ reindexPc \in {"idle", "scan", "enqueue"}
    /\ reindexAfter \in Docs \union {NoDoc}
    /\ reindexPage \in SUBSET Docs
    /\ reindexRuns \in 0 .. MaxReindexRuns
    /\ reindexOwed \in SUBSET Docs

\* A job about to mark its document ready has embedded every chunk of it, or another
\* actor has already decided the document: the empty answer of
\* list_chunks_missing_embeddings still means what embed_document takes it to mean
\* when, three awaits later, the status is written.
FinishedOrDecided ==
    \A j \in Jobs :
        jobs[j].pc \in {"refetch", "ready_load", "ready_commit"} =>
            \/ embedded[jobs[j].doc] = Chunks
            \/ status[jobs[j].doc] \in {"ready", "failed"}

\* Tasks, marks and pages only ever name documents whose row is committed, and a row
\* is inserted once: a worker never meets the "missing_document" outcome, however the
\* insert, the enqueue and the reindex command interleave.
OnlyStoredDocuments ==
    /\ \A d \in Docs : request[d] \in {"idle", "checked"} => status[d] = "none"
    /\ \A j \in Jobs : jobs[j].pc # "unused" => status[jobs[j].doc] # "none"
    /\ \A d \in Docs : request[d] \in {"created", "failing", "marking"} =>
          status[d] # "none"
    /\ \A d \in reindexPage : status[d] # "none"

\* The safety invariant of the pipeline: the two facts above.
PipelineInv == FinishedOrDecided /\ OnlyStoredDocuments

\* The keyset pages of a reindex run pass over no document: one that missed
\* embeddings when the run started, and that nobody has finished or given up since,
\* is enqueued before the cursor moves beyond it, and before the run ends.
ReindexCovers ==
    \A d \in reindexOwed :
        reindexPc = "idle" \/ d <= reindexAfter =>
            status[d] \in {"ready", "failed"} \/ embedded[d] = Chunks

\* Whatever the jobs do to each other, a document leaves "processing" for "ready"
\* only with all its chunks embedded, and never returns to "processing".
Lifecycle == INSTANCE DocumentLifecycle
KeepsLifecycle == Lifecycle!Spec

\* When a document has at most one job, it is never searchable again once it was given up,
\* and searchable only whole, also where the job fails after its work is done.
KeepsSingleJobLifecycle == Lifecycle!SingleJobSpec

\* Where the enqueue is never ambiguous and nobody reindexes, a document has at most
\* one task ever, and it is the only actor that may still change the status: what the
\* handler or the task loaded is still what the row holds.  While the handler is at work
\* the document is "processing", while the task is at work it is that or, finished, "ready".
SingleDelivery == MaxReindexRuns = 0 /\ "ambiguous_enqueue" \notin Faults

OneJobPerDocument ==
    \A j \in Jobs : jobs[j].pc # "unused" =>
        /\ request[jobs[j].doc] = "accepted"
        /\ \A k \in Jobs : jobs[k].doc = jobs[j].doc => k = j

StatusAtWork ==
    /\ \A j \in Jobs :
          /\ jobs[j].pc \notin {"unused", "done"} => status[jobs[j].doc] \in {"processing", "ready"}
          /\ jobs[j].pc \in {"ready_load", "ready_commit"} => status[jobs[j].doc] = "processing"
          /\ jobs[j].pc \in {"ready_commit", "fail_commit"} => jobs[j].seen = status[jobs[j].doc]
    /\ \A d \in Docs :
          /\ request[d] \in {"created", "failing", "marking"} => status[d] = "processing"
          /\ request[d] = "marking" => seen[d] = "processing"

\* A search finds a document as a whole or not at all: "Retrieval only uses
\* documents after they are marked `ready`", and ready means embedded.
SearchAllOrNothing == \A d \in Docs : SearchableChunks(d) \in {{}, Chunks}

\* An upload that was answered 503 never turns up in a search.
RefusedStaysOut == \A d \in Docs : request[d] = "refused" => SearchableChunks(d) = {}

\* No file is stored twice for one owner (or at all, without authentication).
NoDuplicateStored ==
    \A d, e \in Docs :
        /\ status[d] # "none" /\ status[e] # "none"
        /\ file[d] = file[e]
        => d = e

\* The task of a document has ended although it had retries left.
RetryLost(d) ==
    \E j \in Jobs : jobs[j].doc = d /\ jobs[j].pc = "done" /\ jobs[j].retries < MaxRetries

\* Every stored document is decided, finished or given up, unless the broker did not take a
\* retry of its task: the retry limit leaves none behind.
EventuallyDecided ==
    \A d \in Docs :
        status[d] = "processing" ~> status[d] \in {"ready", "failed"} \/ RetryLost(d)
=============================================================================
