------------------------ MODULE DocumentPipelineProofs ------------------------
(***************************************************************************)
(* What holds of the document pipeline for every number of documents,      *)
(* chunks, tasks and retries, for every batch and page size, and under     *)
(* every combination of faults.                                            *)
(***************************************************************************)
EXTENDS DocumentPipeline, FiniteSetTheorems, TLAPS

\* A page or a batch is part of what it was cut from.
LEMMA SmallestSubset ==
    ASSUME NEW S, NEW n
    PROVE  Smallest(S, n) \subseteq S
BY DEF Smallest

\* A queued task is a job.
LEMMA QueuedJobType ==
    ASSUME NEW d \in Docs, NEW n \in 0 .. MaxRetries
    PROVE  QueuedJob(d, n) \in Job
BY DEF QueuedJob, Job, JobPc, RunningPc, FailingPc, Status

\* A task that is not unused is a job on some document.
LEMMA UsedJobType ==
    ASSUME TypeOK, NEW j \in Jobs, jobs[j].pc # "unused"
    PROVE  jobs[j] \in Job
BY DEF TypeOK, UnusedJob

\* What an enqueue does to the tasks.
LEMMA EnqueuedType ==
    ASSUME TypeOK, NEW d \in Docs, Enqueued(d)
    PROVE  jobs' \in [Jobs -> Job \union {UnusedJob}]
BY QueuedJobType, SizeAssumption DEF TypeOK, Enqueued

\* An enqueue that raises may have sent the task, or not.
LEMMA EnqueueRaisesType ==
    ASSUME TypeOK, NEW d \in Docs, EnqueueRaises(d)
    PROVE  jobs' \in [Jobs -> Job \union {UnusedJob}]
BY EnqueuedType DEF TypeOK, EnqueueRaises

\* Every variable keeps its type.
THEOREM TypeCorrect == Spec => []TypeOK
<1>1. Init => TypeOK
  BY SizeAssumption
     DEF Init, TypeOK, Status, RequestPc, NoFile, Docs, NoDoc
<1>2. TypeOK /\ [Next]_vars => TypeOK'
  <2> SUFFICES ASSUME TypeOK, [Next]_vars PROVE TypeOK'
    OBVIOUS
  <2> USE DEF TypeOK
  <2>1. ASSUME NEW d \in Docs, NEW f \in File, UploadCheck(d, f) PROVE TypeOK'
    BY <2>1 DEF UploadCheck, RequestPc, database, reindex
  <2>2. ASSUME NEW d \in Docs, UploadInvalid(d) PROVE TypeOK'
    BY <2>2 DEF UploadInvalid, RequestPc, database, reindex
  <2>3. ASSUME NEW d \in Docs, UploadCreate(d) PROVE TypeOK'
    BY <2>3 DEF UploadCreate, RequestPc, Status, reindex
  <2>4. ASSUME NEW d \in Docs, UploadEnqueue(d) PROVE TypeOK'
    BY <2>4, EnqueuedType DEF UploadEnqueue, RequestPc, database, reindex
  <2>5. ASSUME NEW d \in Docs, UploadEnqueueFails(d) PROVE TypeOK'
    BY <2>5, EnqueueRaisesType DEF UploadEnqueueFails, RequestPc, database, reindex
  <2>6. ASSUME NEW d \in Docs, UploadMarkLoad(d) PROVE TypeOK'
    BY <2>6 DEF UploadMarkLoad, RequestPc, database, reindex
  <2>7. ASSUME NEW d \in Docs, UploadMarkCommit(d) PROVE TypeOK'
    BY <2>7 DEF UploadMarkCommit, StatusAfterWrite, RequestPc, Status, reindex
  <2>8. ASSUME NEW d \in Docs, ApiCrash(d) PROVE TypeOK'
    BY <2>8 DEF ApiCrash, RequestPc, database, reindex
  <2>9. ASSUME NEW j \in Jobs, JobProceeds(j) \/ JobRetryLost(j) \/ WorkerCrash(j) PROVE TypeOK'
    <3>0. jobs[j] \in Job
      BY <2>9, UsedJobType
         DEF JobProceeds, JobTake, JobStart, JobList, JobEmbed, JobRefetch, JobReadyLoad,
             JobReadyCommit, JobLeave, JobRetry, JobRetriesExhausted, JobError, JobFailLoad,
             JobFailCommit, JobRetryLost, WorkerCrash, JobAt, RunningPc, FailingPc
    <3> USE <3>0 DEF JobAt, JobMoves, Job, JobPc, RunningPc, FailingPc, database, upload, reindex
    <3>1. CASE JobTake(j)
      BY <3>1 DEF JobTake
    <3>2. CASE JobStart(j)
      BY <3>2 DEF JobStart
    <3>3. CASE JobList(j)
      <4>1. Smallest(MissingChunks(jobs[j].doc), BatchSize) \in SUBSET Chunks
        BY SmallestSubset DEF MissingChunks
      <4> QED
        BY <3>3, <4>1 DEF JobList
    <3>4. CASE JobEmbed(j)
      BY <3>4 DEF JobEmbed
    <3>5. CASE JobRefetch(j)
      BY <3>5 DEF JobRefetch
    <3>6. CASE JobReadyLoad(j)
      BY <3>6 DEF JobReadyLoad, Status
    <3>7. CASE JobReadyCommit(j)
      BY <3>7 DEF JobReadyCommit, StatusAfterWrite, Status
    <3>8. CASE JobRetry(j)
      BY <3>8, SizeAssumption DEF JobRetry, QueuedJob, UnusedJob, Status
    <3>9. CASE JobRetriesExhausted(j)
      BY <3>9 DEF JobRetriesExhausted
    <3>10. CASE JobError(j)
      BY <3>10 DEF JobError
    <3>11. CASE JobFailLoad(j)
      BY <3>11 DEF JobFailLoad, Status
    <3>12. CASE JobFailCommit(j)
      BY <3>12 DEF JobFailCommit, StatusAfterWrite, Status
    <3>13. CASE WorkerCrash(j)
      BY <3>13 DEF WorkerCrash
    <3>14. CASE JobLeave(j)
      BY <3>14 DEF JobLeave
    <3>15. CASE JobRetryLost(j)
      BY <3>15 DEF JobRetryLost
    <3> QED
      BY <2>9, <3>1, <3>2, <3>3, <3>4, <3>5, <3>6, <3>7, <3>8, <3>9, <3>10,
         <3>11, <3>12, <3>13, <3>14, <3>15 DEF JobProceeds
  <2>10. CASE ReindexStart
    BY <2>10, SizeAssumption DEF ReindexStart, MissingDocs, database, upload
  <2>11. CASE ReindexScan
    <3>1. Smallest(MissingDocs(reindexAfter), PageSize) \in SUBSET Docs
      BY SmallestSubset DEF MissingDocs
    <3> QED
      BY <2>11, <3>1 DEF ReindexScan, database, upload
  <2>12. CASE ReindexEnqueue
    BY <2>12, EnqueuedType DEF ReindexEnqueue, database, upload
  <2>13. CASE ReindexAborts
    BY <2>13, EnqueueRaisesType DEF ReindexAborts, database, upload
  <2>14. CASE UNCHANGED vars
    BY <2>14 DEF vars
  <2> QED
    BY <2>1, <2>2, <2>3, <2>4, <2>5, <2>6, <2>7, <2>8, <2>9, <2>10, <2>11, <2>12,
       <2>13, <2>14 DEF Next, UploadProceeds, Reindex
<1> QED
  BY <1>1, <1>2, PTL DEF Spec

-----------------------------------------------------------------------------
(* The safety invariant.                                                   *)

\* Where the jobs after an enqueue come from: a new one, queued for d, or the old one.
LEMMA EnqueuedJobs ==
    ASSUME TypeOK, NEW d \in Docs, Enqueued(d), NEW k \in Jobs
    PROVE  \/ jobs'[k] = jobs[k]
           \/ jobs'[k].pc = "queued" /\ jobs'[k].doc = d
BY DEF TypeOK, Enqueued, QueuedJob

\* The same after an enqueue that raises.
LEMMA EnqueueRaisesJobs ==
    ASSUME TypeOK, NEW d \in Docs, EnqueueRaises(d), NEW k \in Jobs
    PROVE  \/ jobs'[k] = jobs[k]
           \/ jobs'[k].pc = "queued" /\ jobs'[k].doc = d
BY EnqueuedJobs DEF EnqueueRaises

\* Writing a status decides the document that is written and touches no other.
LEMMA WriteDecides ==
    ASSUME TypeOK, NEW d \in Docs, NEW loaded, NEW new \in {"ready", "failed"},
           status[d] # "none", status' = StatusAfterWrite(d, loaded, new)
    PROVE  /\ \A e \in Docs : status'[e] = status[e] \/ status'[e] \in {"ready", "failed"}
           /\ \A e \in Docs : status[e] = "none" <=> status'[e] = "none"
BY DEF TypeOK, StatusAfterWrite

\* The two facts hold together; each action keeps both.
LEMMA PipelineInvariant == Spec => []PipelineInv
<1>1. Init => PipelineInv
  BY DEF Init, PipelineInv, FinishedOrDecided, OnlyStoredDocuments, UnusedJob
<1>2. TypeOK /\ PipelineInv /\ [Next]_vars => PipelineInv'
  <2> SUFFICES ASSUME TypeOK, PipelineInv, [Next]_vars PROVE PipelineInv'
    OBVIOUS
  <2> USE DEF PipelineInv, FinishedOrDecided, OnlyStoredDocuments
  <2>1. ASSUME NEW d \in Docs, NEW f \in File, UploadCheck(d, f) PROVE PipelineInv'
    BY <2>1 DEF TypeOK, UploadCheck, database, reindex
  <2>2. ASSUME NEW d \in Docs, UploadInvalid(d) PROVE PipelineInv'
    BY <2>2 DEF TypeOK, UploadInvalid, database, reindex
  <2>3. ASSUME NEW d \in Docs, UploadCreate(d) PROVE PipelineInv'
    <3>1. status[d] = "none"
      BY <2>3 DEF UploadCreate
    <3>2. \A j \in Jobs : jobs[j].pc # "unused" => jobs[j].doc # d
      BY <3>1
    <3>3. d \notin reindexPage
      BY <3>1
    <3> QED
      BY <2>3, <3>1, <3>2, <3>3, UsedJobType DEF UploadCreate, TypeOK, reindex, Job
  <2>4. ASSUME NEW d \in Docs, UploadEnqueue(d) PROVE PipelineInv'
    <3>1. status[d] # "none" /\ UNCHANGED <<status, embedded, reindexPage>>
      BY <2>4 DEF UploadEnqueue, database, reindex
    <3> QED
      BY <2>4, <3>1, EnqueuedJobs DEF UploadEnqueue, TypeOK
  <2>5. ASSUME NEW d \in Docs, UploadEnqueueFails(d) PROVE PipelineInv'
    <3>1. status[d] # "none" /\ UNCHANGED <<status, embedded, reindexPage>>
      BY <2>5 DEF UploadEnqueueFails, database, reindex
    <3> QED
      BY <2>5, <3>1, EnqueueRaisesJobs DEF UploadEnqueueFails, TypeOK
  <2>6. ASSUME NEW d \in Docs, UploadMarkLoad(d) PROVE PipelineInv'
    BY <2>6 DEF TypeOK, UploadMarkLoad, database, reindex
  <2>7. ASSUME NEW d \in Docs, UploadMarkCommit(d) PROVE PipelineInv'
    <3>1. status[d] # "none"
      BY <2>7 DEF UploadMarkCommit
    <3> QED
      BY <2>7, <3>1, WriteDecides, UsedJobType DEF UploadMarkCommit, TypeOK, reindex, Job
  <2>8. ASSUME NEW d \in Docs, ApiCrash(d) PROVE PipelineInv'
    BY <2>8 DEF TypeOK, ApiCrash, database, reindex
  <2>9. ASSUME NEW j \in Jobs, JobProceeds(j) \/ JobRetryLost(j) \/ WorkerCrash(j) PROVE PipelineInv'
    <3>0. jobs[j] \in Job /\ jobs[j].doc \in Docs /\ status[jobs[j].doc] # "none"
      BY <2>9, UsedJobType
         DEF JobProceeds, JobTake, JobStart, JobList, JobEmbed, JobRefetch, JobReadyLoad,
             JobReadyCommit, JobLeave, JobRetry, JobRetriesExhausted, JobError, JobFailLoad,
             JobFailCommit, JobRetryLost, WorkerCrash, JobAt, RunningPc, FailingPc, Job
    <3> USE <3>0 DEF TypeOK, JobAt, JobMoves, database, upload, reindex
    <3>1. CASE JobTake(j)
      BY <3>1 DEF JobTake
    <3>2. CASE JobStart(j)
      BY <3>2 DEF JobStart
    <3>3. CASE JobList(j)
      <4>1. MissingChunks(jobs[j].doc) = {} =>
               \/ embedded[jobs[j].doc] = Chunks
               \/ status[jobs[j].doc] \in {"ready", "failed"}
        <5>1. status[jobs[j].doc] \in {"processing", "ready", "failed"}
          BY DEF Status
        <5>2. embedded[jobs[j].doc] \subseteq Chunks
          OBVIOUS
        <5>3. Chunks \ embedded[jobs[j].doc] = {} => embedded[jobs[j].doc] = Chunks
          BY <5>2, Zenon
        <5> QED
          BY <5>1, <5>3 DEF MissingChunks
      <4> QED
        BY <3>3, <4>1 DEF JobList
    <3>4. CASE JobEmbed(j)
      <4>1. /\ jobs' = [jobs EXCEPT ![j].pc = "list", ![j].batch = {}]
            /\ UNCHANGED <<status, request, reindexPage>>
        BY <3>4 DEF JobEmbed
      <4>2. \A d \in Docs : embedded[d] = Chunks => embedded'[d] = Chunks
        BY <3>4 DEF JobEmbed, Job
      <4> QED
        BY <4>1, <4>2, UsedJobType DEF Job
    <3>5. CASE JobRefetch(j)
      BY <3>5 DEF JobRefetch
    <3>6. CASE JobReadyLoad(j)
      BY <3>6 DEF JobReadyLoad
    <3>7. CASE JobReadyCommit(j)
      BY <3>7, WriteDecides, UsedJobType DEF JobReadyCommit, Job
    <3>8. CASE JobRetry(j)
      BY <3>8 DEF JobRetry, QueuedJob
    <3>9. CASE JobRetriesExhausted(j)
      BY <3>9 DEF JobRetriesExhausted
    <3>10. CASE JobError(j)
      BY <3>10 DEF JobError
    <3>11. CASE JobFailLoad(j)
      BY <3>11 DEF JobFailLoad
    <3>12. CASE JobFailCommit(j)
      BY <3>12, WriteDecides, UsedJobType DEF JobFailCommit, Job
    <3>13. CASE WorkerCrash(j)
      BY <3>13 DEF WorkerCrash
    <3>14. CASE JobLeave(j)
      BY <3>14 DEF JobLeave
    <3>15. CASE JobRetryLost(j)
      BY <3>15 DEF JobRetryLost
    <3> QED
      BY <2>9, <3>1, <3>2, <3>3, <3>4, <3>5, <3>6, <3>7, <3>8, <3>9, <3>10,
         <3>11, <3>12, <3>13, <3>14, <3>15 DEF JobProceeds
  <2>10. CASE ReindexStart
    BY <2>10 DEF ReindexStart, database, upload
  <2>11. CASE ReindexScan
    <3>1. \A d \in Smallest(MissingDocs(reindexAfter), PageSize) : status[d] # "none"
      BY SmallestSubset DEF MissingDocs, MissingChunks
    <3> QED
      BY <2>11, <3>1 DEF ReindexScan, database, upload
  <2>12. CASE ReindexEnqueue
    <3>1. PICK d \in reindexPage : Enqueued(d) /\ reindexPage' = reindexPage \ {d}
      BY <2>12 DEF ReindexEnqueue
    <3>2. d \in Docs /\ status[d] # "none" /\ UNCHANGED <<status, embedded, request>>
      BY <2>12, <3>1 DEF ReindexEnqueue, database, upload, TypeOK
    <3> QED
      BY <3>1, <3>2, EnqueuedJobs
  <2>13. CASE ReindexAborts
    <3>1. PICK d \in reindexPage : EnqueueRaises(d)
      BY <2>13 DEF ReindexAborts
    <3>2. /\ d \in Docs /\ status[d] # "none" /\ reindexPage' = {}
          /\ UNCHANGED <<status, embedded, request>>
      BY <2>13, <3>1 DEF ReindexAborts, database, upload, TypeOK
    <3> QED
      BY <3>1, <3>2, EnqueueRaisesJobs
  <2>14. CASE UNCHANGED vars
    BY <2>14 DEF vars
  <2> QED
    BY <2>1, <2>2, <2>3, <2>4, <2>5, <2>6, <2>7, <2>8, <2>9, <2>10, <2>11, <2>12,
       <2>13, <2>14 DEF Next, UploadProceeds, Reindex
<1> QED
  BY <1>1, <1>2, TypeCorrect, PTL DEF Spec

\* A job about to mark its document ready finished it, or the document is decided
\* (document_embeddings.py, embed_document); and every document a task, a mark of the
\* upload handler or a page of the reindex command names is stored.
THEOREM PipelineSafe == Spec => [](FinishedOrDecided /\ OnlyStoredDocuments)
BY PipelineInvariant, PTL DEF PipelineInv

-----------------------------------------------------------------------------
(* The pipeline implements the life cycle.                                 *)

\* A write of a status is to one row, if it changes anything.
LEMMA WriteKeepsOthers ==
    ASSUME TypeOK, NEW d \in Docs, NEW loaded, NEW new \in {"ready", "failed"},
           status' = StatusAfterWrite(d, loaded, new)
    PROVE  status' = status \/ status' = [status EXCEPT ![d] = new]
BY DEF StatusAfterWrite

\* Marking a stored document failed is giving it up, withdrawing it, or nothing.
LEMMA MarkFailedStep ==
    ASSUME TypeOK, NEW d \in Docs, NEW loaded, status[d] # "none",
           status' = StatusAfterWrite(d, loaded, "failed"), UNCHANGED embedded
    PROVE  [Lifecycle!SingleJobNext]_(Lifecycle!lifecycleVars)
<1>1. status[d] \in {"processing", "ready", "failed"}
  BY DEF TypeOK, Status
<1>2. CASE status' = status
  BY <1>2 DEF Lifecycle!lifecycleVars
<1>3. CASE status' = [status EXCEPT ![d] = "failed"]
  <2>1. CASE status[d] = "failed"
    BY <1>3, <2>1 DEF TypeOK, Lifecycle!lifecycleVars
  <2>2. CASE status[d] = "processing"
    BY <1>3, <2>2 DEF Lifecycle!SingleJobNext, Lifecycle!GiveUp
  <2>3. CASE status[d] = "ready"
    BY <1>3, <2>3 DEF Lifecycle!SingleJobNext, Lifecycle!Withdraw
  <2> QED
    BY <1>1, <2>1, <2>2, <2>3
<1> QED
  BY <1>2, <1>3, WriteKeepsOthers

\* However jobs, handlers, crashes and the reindex command interleave, a document
\* leaves "processing" for "ready" only with every chunk embedded.
THEOREM PipelineImplementsLifecycle == Spec => KeepsLifecycle
<1>1. Init => Lifecycle!Init
  BY DEF Init, Lifecycle!Init
<1>2. TypeOK /\ PipelineInv /\ [Next]_vars => [Lifecycle!Next]_(Lifecycle!lifecycleVars)
  <2> SUFFICES ASSUME TypeOK, PipelineInv, [Next]_vars
               PROVE  [Lifecycle!Next]_(Lifecycle!lifecycleVars)
    OBVIOUS
  <2>0. UNCHANGED <<status, embedded>> => UNCHANGED Lifecycle!lifecycleVars
    BY DEF Lifecycle!lifecycleVars
  <2>1. ASSUME NEW d \in Docs, UploadCreate(d)
        PROVE  [Lifecycle!Next]_(Lifecycle!lifecycleVars)
    <3>1. status[d] = "none"
      BY <2>1 DEF UploadCreate, PipelineInv, OnlyStoredDocuments
    <3> QED
      BY <2>1, <3>1 DEF UploadCreate, Lifecycle!Next, Lifecycle!SingleJobNext,
                        Lifecycle!Create
  <2>2. ASSUME NEW d \in Docs, UploadMarkCommit(d)
        PROVE  [Lifecycle!Next]_(Lifecycle!lifecycleVars)
    BY <2>2, MarkFailedStep DEF UploadMarkCommit, PipelineInv, OnlyStoredDocuments, Lifecycle!Next
  <2>3. ASSUME NEW d \in Docs, \/ UploadInvalid(d) \/ UploadEnqueue(d)
                                \/ UploadEnqueueFails(d) \/ UploadMarkLoad(d)
                                \/ ApiCrash(d)
        PROVE  [Lifecycle!Next]_(Lifecycle!lifecycleVars)
    BY <2>3, <2>0 DEF UploadInvalid, UploadEnqueue, UploadEnqueueFails,
                UploadMarkLoad, ApiCrash, database
  <2>4. ASSUME NEW j \in Jobs, JobEmbed(j)
        PROVE  [Lifecycle!Next]_(Lifecycle!lifecycleVars)
    <3>1. jobs[j].doc \in Docs /\ jobs[j].batch \in SUBSET Chunks
      BY <2>4, UsedJobType DEF JobEmbed, JobAt, Job
    <3>2. Lifecycle!Embed(jobs[j].doc, jobs[j].batch)
      BY <2>4, <3>1 DEF JobEmbed, JobAt, PipelineInv, OnlyStoredDocuments,
                        Lifecycle!Embed
    <3> QED
      BY <3>1, <3>2 DEF Lifecycle!Next, Lifecycle!SingleJobNext
  <2>5. ASSUME NEW j \in Jobs, JobReadyCommit(j)
        PROVE  [Lifecycle!Next]_(Lifecycle!lifecycleVars)
    <3>1. /\ jobs[j].doc \in Docs /\ status[jobs[j].doc] # "none"
          /\ \/ embedded[jobs[j].doc] = Chunks
             \/ status[jobs[j].doc] \in {"ready", "failed"}
      BY <2>5, UsedJobType DEF JobReadyCommit, JobAt, Job, PipelineInv,
                               OnlyStoredDocuments, FinishedOrDecided
    <3> DEFINE d == jobs[j].doc
    <3>2. UNCHANGED embedded /\ status' = StatusAfterWrite(d, jobs[j].seen, "ready")
      BY <2>5 DEF JobReadyCommit
    <3>3. CASE status' = status
      BY <3>2, <3>3, <2>0
    <3>4. CASE status' = [status EXCEPT ![d] = "ready"]
      <4>1. CASE status[d] = "ready"
        BY <3>1, <3>2, <3>4, <4>1, <2>0 DEF TypeOK
      <4>2. CASE status[d] = "failed"
        BY <3>1, <3>2, <3>4, <4>2 DEF Lifecycle!Next, Lifecycle!Revive
      <4>3. CASE status[d] = "processing"
        <5>1. Lifecycle!Complete(d)
          BY <3>1, <3>2, <3>4, <4>3 DEF Lifecycle!Complete
        <5> QED
          BY <3>1, <5>1 DEF Lifecycle!Next, Lifecycle!SingleJobNext
      <4> QED
        BY <3>1, <4>1, <4>2, <4>3 DEF TypeOK, Status
    <3> QED
      BY <3>1, <3>2, <3>3, <3>4, WriteKeepsOthers
  <2>6. ASSUME NEW j \in Jobs, JobFailCommit(j)
        PROVE  [Lifecycle!Next]_(Lifecycle!lifecycleVars)
    <3>1. jobs[j].doc \in Docs /\ status[jobs[j].doc] # "none"
      BY <2>6, UsedJobType DEF JobFailCommit, JobAt, Job, PipelineInv, OnlyStoredDocuments
    <3> QED
      BY <2>6, <3>1, MarkFailedStep DEF JobFailCommit, Lifecycle!Next
  <2>7. ASSUME NEW j \in Jobs, \/ JobTake(j) \/ JobStart(j) \/ JobList(j)
                                \/ JobRefetch(j) \/ JobReadyLoad(j) \/ JobRetry(j)
                                \/ JobRetriesExhausted(j) \/ JobError(j)
                                \/ JobFailLoad(j) \/ JobLeave(j)
                                \/ JobRetryLost(j) \/ WorkerCrash(j)
        PROVE  [Lifecycle!Next]_(Lifecycle!lifecycleVars)
    BY <2>7, <2>0 DEF JobTake, JobStart, JobList, JobRefetch, JobReadyLoad, JobRetry,
                JobRetriesExhausted, JobError, JobFailLoad, JobLeave, JobRetryLost,
                WorkerCrash, database
  <2>8. CASE Reindex
    BY <2>8, <2>0 DEF Reindex, ReindexStart, ReindexScan, ReindexEnqueue, ReindexAborts,
                      database
  <2>9. CASE UNCHANGED vars
    BY <2>9, <2>0 DEF vars
  <2>10. ASSUME NEW d \in Docs, UploadProceeds(d) \/ ApiCrash(d)
         PROVE  [Lifecycle!Next]_(Lifecycle!lifecycleVars)
    BY <2>1, <2>2, <2>3, <2>10 DEF UploadProceeds
  <2>11. ASSUME NEW j \in Jobs, JobProceeds(j) \/ JobRetryLost(j) \/ WorkerCrash(j)
         PROVE  [Lifecycle!Next]_(Lifecycle!lifecycleVars)
    BY <2>4, <2>5, <2>6, <2>7, <2>11 DEF JobProceeds
  <2>12. ASSUME NEW d \in Docs, NEW f \in File, UploadCheck(d, f)
         PROVE  [Lifecycle!Next]_(Lifecycle!lifecycleVars)
    BY <2>12, <2>0 DEF UploadCheck, database
  <2> QED
    BY <2>8, <2>9, <2>10, <2>11, <2>12 DEF Next
<1> QED
  BY <1>1, <1>2, TypeCorrect, PipelineInvariant, PTL DEF Spec, KeepsLifecycle, Lifecycle!Spec

-----------------------------------------------------------------------------
(* One delivery per document.                                              *)

SingleJobInv ==
    /\ reindexPc = "idle" /\ reindexPage = {}
    /\ OneJobPerDocument
    /\ StatusAtWork
    /\ \A d \in Docs : status[d] = "ready" => embedded[d] = Chunks
    /\ \A d \in Docs : request[d] = "refused" => status[d] = "failed"

\* A write after a load of something else puts the new status in place.
LEMMA WriteTakesEffect ==
    ASSUME TypeOK, NEW d \in Docs, NEW loaded, NEW new \in {"ready", "failed"},
           loaded # new, status' = StatusAfterWrite(d, loaded, new)
    PROVE  status' = [status EXCEPT ![d] = new]
BY DEF StatusAfterWrite

\* A task that moves on without loading or writing a status keeps the invariant.
LEMMA JobMovesOn ==
    ASSUME TypeOK, SingleJobInv, NEW j \in Jobs, jobs[j] \in Job,
           status[jobs[j].doc] \in {"processing", "ready"},
           \A k \in Jobs \ {j} : jobs'[k] = jobs[k],
           jobs'[j].doc = jobs[j].doc,
           jobs'[j].pc \notin {"unused", "ready_commit", "fail_commit"},
           jobs'[j].pc = "ready_load" => status[jobs[j].doc] = "processing",
           UNCHANGED <<status, embedded, request, seen, reindexPc, reindexPage>>
    PROVE  SingleJobInv'
<1>1. \A k \in Jobs : jobs'[k].doc = jobs[k].doc
  OBVIOUS
<1>2. jobs[j].pc # "unused"
  BY DEF Job, JobPc, RunningPc, FailingPc
<1>3. OneJobPerDocument'
  BY <1>1, <1>2 DEF SingleJobInv, OneJobPerDocument
<1>4. StatusAtWork'
  BY DEF SingleJobInv, StatusAtWork
<1> QED
  BY <1>3, <1>4 DEF SingleJobInv

\* A task that has decided its document keeps the invariant: finished, the task is leaving,
\* given up, it ends.
LEMMA JobDecides ==
    ASSUME TypeOK, SingleJobInv, NEW j \in Jobs, jobs[j] \in Job,
           jobs[j].pc # "unused",
           NEW new \in {"ready", "failed"},
           new = "ready" => embedded[jobs[j].doc] = Chunks,
           status' = [status EXCEPT ![jobs[j].doc] = new],
           JobMoves(j, IF new = "ready" THEN "leaving" ELSE "done"),
           UNCHANGED <<embedded, request, seen, reindexPc, reindexPage>>
    PROVE  SingleJobInv'
<1>1. /\ \A k \in Jobs \ {j} : jobs'[k] = jobs[k]
      /\ jobs'[j].doc = jobs[j].doc
      /\ jobs'[j].pc = IF new = "ready" THEN "leaving" ELSE "done"
  BY DEF JobMoves, TypeOK, Job
<1>2. \A k \in Jobs : jobs'[k].doc = jobs[k].doc
  BY <1>1
<1>3. OneJobPerDocument'
  BY <1>1, <1>2 DEF SingleJobInv, OneJobPerDocument
<1>4. /\ request[jobs[j].doc] = "accepted"
      /\ \A k \in Jobs : k # j => jobs[k].doc # jobs[j].doc
  BY DEF SingleJobInv, OneJobPerDocument
<1>5. /\ status'[jobs[j].doc] = new
      /\ \A d \in Docs : d # jobs[j].doc => status'[d] = status[d]
  BY DEF TypeOK, Job
<1>6. StatusAtWork'
  <2>1. ASSUME NEW k \in Jobs
        PROVE  /\ jobs'[k].pc \notin {"unused", "done"} => status'[jobs'[k].doc] \in {"processing", "ready"}
               /\ jobs'[k].pc \in {"ready_load", "ready_commit"} => status'[jobs'[k].doc] = "processing"
               /\ jobs'[k].pc \in {"ready_commit", "fail_commit"} => jobs'[k].seen = status'[jobs'[k].doc]
    <3>1. CASE k = j
      BY <1>1, <1>5, <3>1
    <3>2. CASE k # j
      <4>1. jobs'[k] = jobs[k] /\ jobs[k].doc # jobs[j].doc
        BY <1>1, <1>4, <3>2
      <4>2. jobs[k].pc # "unused" => jobs[k].doc \in Docs
        BY UsedJobType DEF Job
      <4>3. jobs[k].pc # "unused" => status'[jobs[k].doc] = status[jobs[k].doc]
        BY <1>5, <4>1, <4>2
      <4> QED
        BY <4>1, <4>3 DEF SingleJobInv, StatusAtWork
    <3> QED
      BY <3>1, <3>2
  <2>2. ASSUME NEW d \in Docs
        PROVE  /\ request'[d] \in {"created", "failing", "marking"} => status'[d] = "processing"
               /\ request'[d] = "marking" => seen'[d] = "processing"
    BY <1>4, <1>5 DEF SingleJobInv, StatusAtWork
  <2> QED
    BY <2>1, <2>2 DEF StatusAtWork
<1>7. \A d \in Docs : status'[d] = "ready" => embedded'[d] = Chunks
  BY <1>5 DEF SingleJobInv
<1>8. \A d \in Docs : request'[d] = "refused" => status'[d] = "failed"
  BY <1>4, <1>5 DEF SingleJobInv
<1> QED
  BY <1>3, <1>6, <1>7, <1>8 DEF SingleJobInv

\* With one task per document each step keeps the invariant and is one of the stricter life cycle.
LEMMA SingleJobInductive ==
    ASSUME SingleDelivery, TypeOK, TypeOK', PipelineInv, SingleJobInv, [Next]_vars
    PROVE  SingleJobInv' /\ [Lifecycle!SingleJobNext]_(Lifecycle!lifecycleVars)
<1> DEFINE Goal == SingleJobInv' /\ [Lifecycle!SingleJobNext]_(Lifecycle!lifecycleVars)
<1>0. ASSUME UNCHANGED <<status, embedded>>
      PROVE  [Lifecycle!SingleJobNext]_(Lifecycle!lifecycleVars)
  BY <1>0 DEF Lifecycle!lifecycleVars
<1> USE DEF SingleJobInv, OneJobPerDocument, StatusAtWork
<1>1. ASSUME NEW d \in Docs, NEW f \in File, UploadCheck(d, f) PROVE Goal
  <2>1. SingleJobInv'
    BY <1>1, UsedJobType DEF TypeOK, UploadCheck, database, reindex, Job
  <2> QED
    BY <1>1, <1>0, <2>1 DEF UploadCheck, database
<1>2. ASSUME NEW d \in Docs,
             \/ UploadInvalid(d) \/ UploadMarkLoad(d) \/ ApiCrash(d)
      PROVE  Goal
  <2>1. SingleJobInv'
    BY <1>2, UsedJobType
       DEF TypeOK, UploadInvalid, UploadMarkLoad, ApiCrash, database, reindex, Job
  <2> QED
    BY <1>2, <1>0, <2>1 DEF UploadInvalid, UploadMarkLoad, ApiCrash, database
<1>3. ASSUME NEW d \in Docs, UploadCreate(d) PROVE Goal
  <2>1. status[d] = "none" /\ status' = [status EXCEPT ![d] = "processing"]
    BY <1>3 DEF UploadCreate, PipelineInv, OnlyStoredDocuments
  <2>2. SingleJobInv'
    BY <1>3, <2>1, UsedJobType DEF TypeOK, UploadCreate, reindex, Job
  <2>3. Lifecycle!Create(d)
    BY <1>3, <2>1 DEF UploadCreate, Lifecycle!Create
  <2> QED
    BY <2>2, <2>3 DEF Lifecycle!SingleJobNext
<1>4. ASSUME NEW d \in Docs, UploadEnqueue(d) PROVE Goal
  <2>1. PICK j \in Jobs : /\ jobs[j].pc = "unused"
                          /\ jobs' = [jobs EXCEPT ![j] = QueuedJob(d, 0)]
    BY <1>4 DEF UploadEnqueue, Enqueued
  <2>2. /\ \A k \in Jobs : jobs[k].pc # "unused" => jobs[k].doc # d
        /\ \A k \in Jobs : jobs[k].pc = "unused" => jobs[k].doc # d
    BY <1>4 DEF UploadEnqueue, TypeOK, UnusedJob, Job, JobPc, RunningPc, FailingPc,
                Docs, NoDoc
  <2>3. SingleJobInv'
    BY <1>4, <2>1, <2>2, UsedJobType DEF TypeOK, UploadEnqueue, QueuedJob, database, reindex, Job
  <2> QED
    BY <1>4, <1>0, <2>3 DEF UploadEnqueue, database
<1>5. ASSUME NEW d \in Docs, UploadEnqueueFails(d) PROVE Goal
  <2>1. UNCHANGED jobs
    BY <1>5 DEF UploadEnqueueFails, EnqueueRaises, SingleDelivery
  <2>2. SingleJobInv'
    BY <1>5, <2>1, UsedJobType DEF TypeOK, UploadEnqueueFails, database, reindex, Job
  <2> QED
    BY <1>5, <1>0, <2>2 DEF UploadEnqueueFails, database
<1>6. ASSUME NEW d \in Docs, UploadMarkCommit(d) PROVE Goal
  <2>1. status[d] = "processing" /\ status' = [status EXCEPT ![d] = "failed"]
    BY <1>6, WriteTakesEffect DEF UploadMarkCommit
  <2>2. SingleJobInv'
    BY <1>6, <2>1, UsedJobType DEF TypeOK, UploadMarkCommit, reindex, Job
  <2>3. Lifecycle!GiveUp(d)
    BY <1>6, <2>1 DEF UploadMarkCommit, Lifecycle!GiveUp
  <2> QED
    BY <2>2, <2>3 DEF Lifecycle!SingleJobNext
<1>7. ASSUME NEW j \in Jobs, JobProceeds(j) \/ JobRetryLost(j) \/ WorkerCrash(j) PROVE Goal
  <2>0. /\ jobs[j] \in Job /\ jobs[j].doc \in Docs
        /\ jobs[j].pc \notin {"unused", "done"}
        /\ status[jobs[j].doc] \in {"processing", "ready"}
    BY <1>7, UsedJobType
       DEF JobProceeds, JobTake, JobStart, JobList, JobEmbed, JobRefetch, JobReadyLoad,
           JobReadyCommit, JobLeave, JobRetry, JobRetriesExhausted, JobError, JobFailLoad,
           JobFailCommit, JobRetryLost, WorkerCrash, JobAt, RunningPc, FailingPc, Job
  <2>1. ASSUME NEW k \in Jobs, jobs[k].pc # "unused", k # j
        PROVE  jobs[k].doc # jobs[j].doc /\ jobs[k].doc \in Docs
    BY <2>0, <2>1, UsedJobType
       DEF Job, JobPc, RunningPc, FailingPc
  <2> USE <2>0 DEF JobAt, JobMoves, upload, reindex
  <2>2. CASE \/ JobTake(j) \/ JobStart(j) \/ JobList(j) \/ JobRefetch(j)
             \/ JobRetriesExhausted(j) \/ JobError(j) \/ JobLeave(j)
             \/ JobRetryLost(j) \/ WorkerCrash(j)
    <3>1. /\ \A k \in Jobs \ {j} : jobs'[k] = jobs[k]
          /\ jobs'[j].doc = jobs[j].doc
          /\ jobs'[j].pc \notin {"unused", "ready_commit", "fail_commit"}
          /\ jobs'[j].pc = "ready_load" => status[jobs[j].doc] = "processing"
      <4>1. CASE JobList(j)
        BY <4>1, ZenonT(30) DEF TypeOK, JobList, Job
      <4> QED
        BY <2>2, <4>1 DEF TypeOK, JobTake, JobStart, JobRefetch, JobRetriesExhausted,
                          JobError, JobLeave, JobRetryLost, WorkerCrash, Job
    <3>2. UNCHANGED <<status, embedded, request, seen, reindexPc, reindexPage>>
      BY <2>2 DEF JobTake, JobStart, JobList, JobRefetch, JobRetriesExhausted,
                  JobError, JobLeave, JobRetryLost, WorkerCrash, database
    <3>3. SingleJobInv'
      BY <3>1, <3>2, JobMovesOn
    <3> QED
      BY <3>2, <3>3, <1>0
  <2>3. CASE JobEmbed(j)
    <3>1. \A d \in Docs : embedded[d] = Chunks => embedded'[d] = Chunks
      BY <2>3 DEF TypeOK, JobEmbed, Job
    <3>2. SingleJobInv'
      BY <2>3, <3>1, <2>1 DEF TypeOK, JobEmbed, Job
    <3>3. Lifecycle!Embed(jobs[j].doc, jobs[j].batch) /\ jobs[j].batch \in SUBSET Chunks
      BY <2>3 DEF JobEmbed, Lifecycle!Embed, Job
    <3> QED
      BY <3>2, <3>3 DEF Lifecycle!SingleJobNext
  <2>4. CASE JobReadyLoad(j) \/ JobFailLoad(j)
    <3>1. SingleJobInv'
      BY <2>4, <2>1 DEF TypeOK, JobReadyLoad, JobFailLoad, database, Job
    <3> QED
      BY <2>4, <3>1, <1>0 DEF JobReadyLoad, JobFailLoad, database
  <2>5. CASE JobReadyCommit(j)
    <3>1. status' = [status EXCEPT ![jobs[j].doc] = "ready"]
      BY <2>5, WriteTakesEffect DEF JobReadyCommit
    <3>2. embedded[jobs[j].doc] = Chunks
      BY <2>5 DEF JobReadyCommit, PipelineInv, FinishedOrDecided
    <3>3. SingleJobInv'
      BY <2>5, <3>1, <3>2, JobDecides DEF JobReadyCommit
    <3>4. Lifecycle!Complete(jobs[j].doc)
      BY <2>5, <3>1, <3>2 DEF JobReadyCommit, Lifecycle!Complete
    <3> QED
      BY <3>3, <3>4 DEF Lifecycle!SingleJobNext
  <2>6. CASE JobFailCommit(j)
    <3>1. status' = [status EXCEPT ![jobs[j].doc] = "failed"]
      BY <2>6, WriteTakesEffect DEF JobFailCommit
    <3>2. SingleJobInv'
      BY <2>6, <3>1, JobDecides DEF JobFailCommit
    <3>3. [Lifecycle!SingleJobNext]_(Lifecycle!lifecycleVars)
      BY <2>6, MarkFailedStep DEF JobFailCommit
    <3> QED
      BY <3>2, <3>3
  <2>7. CASE JobRetry(j)
    <3>1. /\ \A k \in Jobs \ {j} : jobs'[k] = jobs[k]
          /\ jobs'[j].doc = jobs[j].doc
          /\ jobs'[j].pc = "queued"
          /\ UNCHANGED <<status, embedded, request, seen, reindexPc, reindexPage>>
      BY <2>7 DEF TypeOK, JobRetry, QueuedJob, database
    <3>2. SingleJobInv'
      BY <3>1, JobMovesOn
    <3> QED
      BY <3>1, <3>2, <1>0
  <2> QED
    BY <1>7, <2>2, <2>3, <2>4, <2>5, <2>6, <2>7 DEF JobProceeds
<1>8. ~ Reindex
  BY SizeAssumption
     DEF Reindex, ReindexStart, ReindexScan, ReindexEnqueue, ReindexAborts, TypeOK,
         SingleDelivery
<1>9. ASSUME UNCHANGED vars PROVE Goal
  <2>1. SingleJobInv'
    BY <1>9 DEF vars
  <2> QED
    BY <1>9, <2>1, <1>0 DEF vars
<1> HIDE DEF Goal
<1>10. ASSUME NEW d \in Docs, UploadProceeds(d) \/ ApiCrash(d) PROVE Goal
  BY <1>2, <1>3, <1>4, <1>5, <1>6, <1>10 DEF UploadProceeds
<1>11. Goal
  BY <1>1, <1>7, <1>8, <1>9, <1>10 DEF Next
<1> QED
  BY <1>11 DEF Goal

\* With one delivery per document, a document that was given up stays so, also where the
\* task fails after its work is done; a search finds a document as a whole or not at all,
\* and a refused upload is never found.
THEOREM SingleDeliverySafe ==
    ASSUME SingleDelivery
    PROVE  Spec => KeepsSingleJobLifecycle /\ [](SearchAllOrNothing /\ RefusedStaysOut)
<1>1. Init => SingleJobInv /\ Lifecycle!Init
  BY DEF Init, SingleJobInv, OneJobPerDocument, StatusAtWork, UnusedJob, Lifecycle!Init
<1>2. SingleJobInv => SearchAllOrNothing /\ RefusedStaysOut
  BY DEF SingleJobInv, SearchAllOrNothing, RefusedStaysOut, SearchableChunks
<1>3. TypeOK /\ TypeOK' /\ PipelineInv /\ SingleJobInv /\ [Next]_vars
      => SingleJobInv' /\ [Lifecycle!SingleJobNext]_(Lifecycle!lifecycleVars)
  BY SingleJobInductive
<1> QED
  BY <1>1, <1>2, <1>3, TypeCorrect, PipelineInvariant, PTL
     DEF Spec, KeepsSingleJobLifecycle, Lifecycle!SingleJobSpec

\* What retriever.py ranks is the whole of a document or nothing of it: no search, at any
\* point between the commits of an upload and of its task, sees part of a document.
THEOREM WholeSearches ==
    ASSUME SingleDelivery
    PROVE  Spec => []SearchAllOrNothing
<1>1. SearchAllOrNothing /\ RefusedStaysOut => SearchAllOrNothing
  OBVIOUS
<1> QED
  BY <1>1, SingleDeliverySafe, PTL

-----------------------------------------------------------------------------
(* The reindex command passes over no document.                            *)

\* The document is finished or given up.
Settled(d) == status[d] \in {"ready", "failed"} \/ embedded[d] = Chunks

\* What the command owes is stored; what it owes and has passed, or leaves out of the
\* page it enqueues, is settled.
CoverInv ==
    /\ \A d \in reindexOwed : status[d] # "none"
    /\ \A d \in reindexOwed : reindexPc = "idle" \/ d <= reindexAfter => Settled(d)
    /\ reindexPc = "enqueue" =>
          \A d \in reindexOwed \ reindexPage : \A p \in reindexPage : d < p => Settled(d)

\* The life cycle of a document never takes back that it is stored or settled.
LEMMA SettledStays ==
    ASSUME TypeOK, [Lifecycle!Next]_(Lifecycle!lifecycleVars), NEW d \in Docs, status[d] # "none"
    PROVE  status'[d] # "none" /\ (Settled(d) => Settled(d)')
<1>1. CASE UNCHANGED Lifecycle!lifecycleVars
  BY <1>1 DEF Lifecycle!lifecycleVars, Settled
<1>2. ASSUME NEW e \in Docs, Lifecycle!Create(e) PROVE status'[d] # "none" /\ (Settled(d) => Settled(d)')
  BY <1>2 DEF Lifecycle!Create, TypeOK, Settled
<1>3. ASSUME NEW e \in Docs, NEW batch \in SUBSET Chunks, Lifecycle!Embed(e, batch)
      PROVE  status'[d] # "none" /\ (Settled(d) => Settled(d)')
  BY <1>3 DEF Lifecycle!Embed, TypeOK, Settled
<1>4. ASSUME NEW e \in Docs, UNCHANGED embedded,
             NEW new \in {"ready", "failed"}, status' = [status EXCEPT ![e] = new]
      PROVE  status'[d] # "none" /\ (Settled(d) => Settled(d)')
  BY <1>4 DEF TypeOK, Settled
<1> QED
  BY <1>1, <1>2, <1>3, <1>4
     DEF Lifecycle!Next, Lifecycle!SingleJobNext, Lifecycle!Complete, Lifecycle!GiveUp,
         Lifecycle!Withdraw, Lifecycle!Revive

\* A stored document that misses no embedding is settled.
LEMMA NothingMissing ==
    ASSUME TypeOK, NEW d \in Docs, status[d] # "none", MissingChunks(d) = {}
    PROVE  Settled(d)
<1>1. status[d] \in {"processing", "ready", "failed"} /\ embedded[d] \subseteq Chunks
  BY DEF TypeOK, Status
<1> QED
  BY <1>1 DEF MissingChunks, Settled

\* A page leaves out nothing that is smaller than something on it.
LEMMA PageFromSmallest ==
    ASSUME NEW S \in SUBSET Docs, NEW p \in Smallest(S, PageSize), NEW d \in S, d < p
    PROVE  d \in Smallest(S, PageSize)
<1> DEFINE Below(x) == {y \in S : y < x}
<1>1. S \subseteq Nat /\ IsFiniteSet(S)
  <2>1. IsFiniteSet(Docs) /\ Docs \subseteq Nat
    BY FS_Interval, SizeAssumption DEF Docs
  <2> QED
    BY <2>1, FS_Subset
<1>2. Below(d) \in SUBSET Below(p)
  <2>1. p \in Nat /\ d \in Nat
    BY <1>1 DEF Smallest
  <2>2. \A y \in S : y < d => y < p
    BY <1>1, <2>1
  <2> QED
    BY <2>2
<1>3. IsFiniteSet(Below(p))
  <2>1. Below(p) \in SUBSET S
    OBVIOUS
  <2> QED
    BY <2>1, <1>1, FS_Subset
<1>4. Cardinality(Below(d)) <= Cardinality(Below(p))
  BY <1>2, <1>3, FS_Subset
<1>5. Cardinality(Below(d)) \in Nat /\ Cardinality(Below(p)) \in Nat
  BY <1>2, <1>3, FS_Subset, FS_CardinalityType
<1>6. Cardinality(Below(p)) < PageSize
  BY DEF Smallest
<1>7. Cardinality(Below(d)) < PageSize
  BY <1>4, <1>5, <1>6, SizeAssumption
<1> QED
  BY <1>7 DEF Smallest

\* Where the command stands still, what it passed stays settled.
LEMMA OthersCover ==
    ASSUME TypeOK, CoverInv, UNCHANGED reindex, [Lifecycle!Next]_(Lifecycle!lifecycleVars)
    PROVE  CoverInv'
<1>1. \A d \in reindexOwed : d \in Docs /\ status[d] # "none"
  BY DEF TypeOK, CoverInv
<1>2. \A d \in reindexOwed : status'[d] # "none" /\ (Settled(d) => Settled(d)')
  BY <1>1, SettledStays
<1> QED
  BY <1>2 DEF CoverInv, reindex

\* The steps of the command.
LEMMA ReindexCover ==
    ASSUME TypeOK, CoverInv, Reindex
    PROVE  CoverInv'
<1>0. /\ UNCHANGED <<status, embedded>>
      /\ \A d \in Docs : Settled(d)' <=> Settled(d)
  BY DEF Reindex, ReindexStart, ReindexScan, ReindexEnqueue, ReindexAborts, database, Settled
<1>1. reindexOwed \in SUBSET Docs /\ reindexPage \in SUBSET Docs /\ Docs \subseteq Nat
      /\ \A d \in Docs : d > NoDoc
  BY SizeAssumption DEF TypeOK, Docs, NoDoc
<1>2. CASE ReindexStart
  <2>1. reindexPc' = "scan" /\ reindexAfter' = NoDoc /\ reindexOwed' = MissingDocs(NoDoc)
    BY <1>2 DEF ReindexStart
  <2>2. \A d \in MissingDocs(NoDoc) : d \in Docs /\ status[d] # "none" /\ ~(d <= NoDoc)
    BY <1>1 DEF MissingDocs, MissingChunks, NoDoc
  <2> QED
    BY <1>0, <2>1, <2>2 DEF CoverInv
<1>3. CASE ReindexScan
  <2> DEFINE docs == MissingDocs(reindexAfter)
  <2>1. /\ UNCHANGED <<reindexAfter, reindexOwed>>
        /\ reindexPc = "scan"
        /\ reindexPc' = IF docs = {} THEN "idle" ELSE "enqueue"
        /\ reindexPage' = Smallest(docs, PageSize)
    BY <1>3 DEF ReindexScan
  <2>2. ASSUME NEW d \in reindexOwed, d \notin docs PROVE Settled(d)
    <3>1. d \in Docs /\ status[d] # "none"
      BY <1>1 DEF CoverInv
    <3>2. CASE d <= reindexAfter
      BY <3>2 DEF CoverInv
    <3>3. CASE ~(d <= reindexAfter)
      <4>1. d > reindexAfter
        BY <1>1, <3>1, <3>3 DEF TypeOK, NoDoc
      <4>2. MissingChunks(d) = {}
        BY <2>2, <3>1, <4>1 DEF MissingDocs
      <4> QED
        BY <3>1, <4>2, NothingMissing
    <3> QED
      BY <3>2, <3>3
  <2>3. docs \in SUBSET Docs
    BY DEF MissingDocs
  <2> HIDE DEF docs
  <2>4. ASSUME NEW d \in reindexOwed \ reindexPage', NEW p \in reindexPage', d < p
        PROVE  Settled(d)
    <3>1. d \notin docs
      BY <2>1, <2>3, <2>4, PageFromSmallest
    <3> QED
      BY <2>2, <3>1
  <2>5. reindexPc' = "idle" => \A d \in reindexOwed : Settled(d)
    BY <2>1, <2>2
  <2>6. \A d \in reindexOwed : reindexPc' = "idle" \/ d <= reindexAfter' => Settled(d)'
    BY <1>0, <1>1, <2>1, <2>5 DEF CoverInv
  <2>7. \A d \in reindexOwed' : status'[d] # "none"
    BY <1>0, <2>1 DEF CoverInv
  <2> QED
    BY <1>0, <1>1, <2>1, <2>4, <2>6, <2>7 DEF CoverInv
<1>4. CASE ReindexEnqueue
  <2>1. PICK d \in reindexPage :
          /\ \A e \in reindexPage : d <= e
          /\ reindexPage' = reindexPage \ {d}
          /\ reindexOwed' = reindexOwed \ {d}
          /\ IF reindexPage = {d}
             THEN reindexPc' = "scan" /\ reindexAfter' = d
             ELSE UNCHANGED <<reindexPc, reindexAfter>>
    BY <1>4 DEF ReindexEnqueue
  <2>2. reindexPc = "enqueue" /\ d \in Docs
    BY <1>1, <1>4 DEF ReindexEnqueue
  <2>3. CASE reindexPage = {d}
    <3>1. ASSUME NEW e \in reindexOwed', e <= d PROVE Settled(e)
      <4>1. e \in reindexOwed \ reindexPage /\ e < d
        BY <1>1, <2>1, <2>2, <2>3, <3>1
      <4> QED
        BY <2>2, <4>1 DEF CoverInv
    <3> QED
      BY <1>0, <1>1, <2>1, <2>3, <3>1 DEF CoverInv
  <2>4. CASE reindexPage # {d}
    BY <1>0, <1>1, <2>1, <2>2, <2>4 DEF CoverInv
  <2> QED
    BY <2>3, <2>4
<1>5. CASE ReindexAborts
  BY <1>5 DEF ReindexAborts, CoverInv
<1> QED
  BY <1>2, <1>3, <1>4, <1>5 DEF Reindex

\* A step that is not the command's leaves it where it stands.
LEMMA OnlyReindexMoves == [Next]_vars => Reindex \/ UNCHANGED reindex
<1> SUFFICES ASSUME [Next]_vars PROVE Reindex \/ UNCHANGED reindex
  OBVIOUS
<1>1. ASSUME NEW d \in Docs, NEW f \in File, UploadCheck(d, f) PROVE UNCHANGED reindex
  BY <1>1 DEF UploadCheck
<1>2. ASSUME NEW d \in Docs, UploadProceeds(d) \/ ApiCrash(d) PROVE UNCHANGED reindex
  BY <1>2 DEF UploadProceeds, UploadInvalid, UploadCreate, UploadEnqueue, UploadEnqueueFails,
              UploadMarkLoad, UploadMarkCommit, ApiCrash
<1>3. ASSUME NEW j \in Jobs, JobProceeds(j) \/ JobRetryLost(j) \/ WorkerCrash(j) PROVE UNCHANGED reindex
  BY <1>3 DEF JobProceeds, JobTake, JobStart, JobList, JobEmbed, JobRefetch, JobReadyLoad,
              JobReadyCommit, JobLeave, JobRetry, JobRetriesExhausted, JobError, JobFailLoad,
              JobFailCommit, JobRetryLost, WorkerCrash
<1>4. CASE UNCHANGED vars
  BY <1>4 DEF vars, reindex
<1> QED
  BY <1>1, <1>2, <1>3, <1>4 DEF Next

\* For every page size and however uploads and tasks interleave with it, a run of the
\* reindex command enqueues every document that missed embeddings when it started, or
\* finds it finished or given up (reindex_embeddings.py; repositories.py,
\* list_documents_missing_embeddings).
THEOREM ReindexPassesOverNone == Spec => []ReindexCovers
<1>1. Init => CoverInv
  BY DEF Init, CoverInv
<1>2. TypeOK /\ CoverInv /\ [Next]_vars /\ [Lifecycle!Next]_(Lifecycle!lifecycleVars) => CoverInv'
  BY OnlyReindexMoves, ReindexCover, OthersCover
<1>3. CoverInv => ReindexCovers
  BY DEF CoverInv, ReindexCovers, Settled
<1>4. Spec => [][Lifecycle!Next]_(Lifecycle!lifecycleVars)
  BY PipelineImplementsLifecycle, PTL DEF KeepsLifecycle, Lifecycle!Spec
<1> QED
  BY <1>1, <1>2, <1>3, <1>4, TypeCorrect, PTL DEF Spec
=============================================================================
