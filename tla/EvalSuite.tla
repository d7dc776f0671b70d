------------------------------ MODULE EvalSuite ------------------------------
(***************************************************************************)
(* The evaluation suite, eval_suite, as it is run again and again against  *)
(* one database: the check that the corpus is there, then the retrieval,   *)
(* chat and memory evals, each with its report, and the report of the      *)
(* suite with the exit code.                                               *)
(*                                                                         *)
(* The datasets are constants.  A scripted provider plays the model: what  *)
(* the program does with a memory case is computed from what the database  *)
(* holds, see ChatMemory and LongTermMemory; what retrieval finds is a     *)
(* choice among the documents that are ready, see Retrieval.  Texts that   *)
(* are compared word by word are one choice per case, "worded".            *)
(*                                                                         *)
(* Bounds: MaxRuns of the suite, MaxId of the ids others use up.           *)
(***************************************************************************)
EXTENDS Integers, Sequences, FiniteSets

CONSTANTS
    Files,         \* file names of documents
    Users,         \* the users of memory cases
    Keys,          \* the keys of memories
    RagCases,      \* the datasets: sequences of cases
    ChatCases,
    MemoryCases,
    NoUser,        \* the user_id of a case that has none
    ToolMaxRounds, \* tool_max_rounds
    MinDocuments,  \* the thresholds, in per cent
    MinChunks,
    MinChat,
    MinMemory,
    MaxRuns,
    MaxId

\* The cases as far as the program tells them apart.  Of a memory case: how many messages
\* go before, the summary and the memories that are there, the overrides of the settings, the
\* script's length, the facts that the message and the script tell, and what is expected: of
\* the first prompt, as how many messages it hides and which memories it shows; of the summary
\* in the end, whether there may be one or none, and where it ends; of the user's memories in
\* the end.  An expectation that turns on the script alone is met, or "fits" is empty.
RetrievalEvalCase == [sources : SUBSET Files, minimum : Nat, chunks : BOOLEAN, topK : Nat]
ChatEvalCase == [history : Nat, rounds : Nat, topK : Nat, hits : Seq(Files)]
MemoryEvalCase ==
    [user : Users \union {NoUser}, history : Nat, boundary : Nat, seeds : SUBSET Keys,
     longTerm : BOOLEAN, maxItems : Nat, trigger : Int, window : Int,
     script : Nat, writes : SUBSET Keys, fits : SUBSET (Nat \X SUBSET Keys),
     present : SUBSET BOOLEAN, endsAt : Nat, expects : SUBSET SUBSET Keys]

ASSUME EvalAssumption ==
    /\ IsFiniteSet(Files)
    \* a case compares 64 memories of its user, or more: all there are
    /\ IsFiniteSet(Keys) /\ Cardinality(Keys) <= 64
    /\ NoUser \notin Users
    /\ RagCases \in Seq(RetrievalEvalCase)
    /\ ChatCases \in Seq(ChatEvalCase)
    /\ MemoryCases \in Seq(MemoryEvalCase)
    /\ ToolMaxRounds \in Int
    /\ MinDocuments \in Nat /\ MinChunks \in Nat /\ MinChat \in Nat /\ MinMemory \in Nat
    /\ MaxRuns \in Nat /\ MaxId \in Nat

Kinds == <<"rag", "chat", "memory">>
Names == {"rag", "chat", "memory"}
Cases == [rag |-> RagCases, chat |-> ChatCases, memory |-> MemoryCases]

VARIABLES
    usersMissing, \* setting: the users of the cases have no rows, and foreign keys are
                 \* enforced, as PostgreSQL does
    ready,       \* the files with a document that is ready
    nextId,      \* the next id of messages
    memories,    \* the user_memories table: pairs of a user and a key; nobody else uses the
                 \* users of the cases
    run,         \* the number of the suite's runs
    stage,       \* where the run stands
    results,     \* what came of the cases of the eval at work
    summary,     \* what came of the evals of the run that are done
    preflight,   \* corpus_preflight.passed
    troubled,    \* history: whether a statement or a provider has failed in the run
    report,      \* the report files of the evals
    suiteReport, \* eval-suite-report.json
    exit,        \* the exit code of the run
    verdicts     \* history: the verdicts each memory case has had, where nothing failed in it

database == <<ready, nextId, memories>>
files == <<report, suiteReport>>
evalVars == <<usersMissing, database, run, stage, results, summary, preflight, troubled, files,
              exit, verdicts>>

\* A retrieval case has its chunk hit; the others have none.
Result(hit, chunk) == [hit |-> hit, chunk |-> chunk]
NoSummary == [k \in Names |-> <<>>]

Hits(cases) == Cardinality({i \in DOMAIN cases : cases[i].hit})
ChunkCases(cases) == {i \in DOMAIN cases : cases[i].chunk # "none"}
ChunkHits(cases) == Cardinality({i \in ChunkCases(cases) : cases[i].chunk = "hit"})

Below(good, total, percent) == 100 * good < percent * total

-----------------------------------------------------------------------------
(* The cases.                                                              *)

\* What a search for the n best finds: each chunk stands for its file here.
Found(n) == {s \in UNION {[1 .. m -> ready] : m \in 0 .. n} :
                \A i, j \in DOMAIN s : i # j => s[i] # s[j]}

\* Of a retrieval case: whether enough of its sources are found, and one of its chunks.
RagResults(case) ==
    LET sources(s) == {f \in case.sources : \E i \in DOMAIN s : s[i] = f}
        chunks(s) == IF ~case.chunks THEN {"none"}
                     ELSE IF sources(s) = {} THEN {"miss"} ELSE {"hit", "miss"}
        found(s) == Cardinality(sources(s)) >= case.minimum
    IN  UNION {{Result(found(s), chunk) : chunk \in chunks(s)} : s \in Found(case.topK)}

\* is_deep_subset of lists, whose zip is strict: an actual list that is longer raises once
\* all that is expected has been found.
DeepSubset(expected, actual) ==
    IF Len(expected) > Len(actual) \/ \E i \in DOMAIN expected : expected[i] # actual[i] THEN "no"
    ELSE IF Len(actual) > Len(expected) THEN "raises" ELSE "yes"

\* A script of more rounds of tools than are allowed ends in an error.
WithinRounds(case) == case.rounds <= ToolMaxRounds

\* The rows after upsert_memory for each of the keys; without a user there are none.
MemoryUpserted(user, keys) ==
    memories \union {row \in {user} \X keys : user # NoUser}

\* The messages of a case take the next ids, its history first, then the exchange.
Unsummarised(case) ==
    Cardinality({n \in nextId .. nextId + case.history + 1 : n > case.boundary})

\* Mutant of SummaryDue: the ids are taken for numbers of messages.
SummaryDueById(case) ==
    nextId + case.history + 1 >= case.trigger + case.boundary

SummaryDue(case) ==
    /\ case.history + 2 >= case.trigger
    /\ Unsummarised(case) >= case.trigger
    /\ Unsummarised(case) > case.window

\* Whether the case reads and writes memories: it has a user, and they are not switched off.
Remembers(case) == case.longTerm /\ case.user # NoUser

\* The calls of the provider: the answer, the summary, the facts of the user.
CallsMade(case) ==
    1 + (IF SummaryDue(case) THEN 1 ELSE 0) + (IF Remembers(case) THEN 1 ELSE 0)

\* last_summarized_message_id in the end.
Boundary(case) ==
    IF SummaryDue(case) THEN nextId + case.history + 1 - case.window ELSE case.boundary

\* A call past the script raises; write_memory swallows that, and stores no facts.
Written(case) ==
    IF ~Remembers(case) \/ CallsMade(case) > case.script THEN {} ELSE case.writes

\* The memory rows that a case leaves.
Left(case) == MemoryUpserted(case.user, case.seeds \union Written(case))

\* The keys of a user's rows, and the memories that a prompt shows of them: so many as it may,
\* the newest, whose order is left open.
KeysOf(user, rows) == {k \in Keys : <<user, k>> \in rows}
Seen(case, keys) ==
    IF ~Remembers(case) THEN {{}}
    ELSE {s \in SUBSET keys : /\ Cardinality(s) <= case.maxItems
                              /\ s = keys \/ Cardinality(s) = case.maxItems}

\* What the prompt of the answer shows: the rows that earlier runs have left are among them.
\* Where there is a summary, it hides the messages up to it, and those before the window.
Shown(case) == Seen(case, KeysOf(case.user, MemoryUpserted(case.user, case.seeds)))
Hidden(case) ==
    LET after == Cardinality({n \in nextId .. nextId + case.history - 1 : n > case.boundary})
    IN  IF case.boundary = 0 THEN 0
        ELSE case.history - IF after > case.window THEN case.window ELSE after

\* A user without a row: seeding the conversation, its summary or a memory raises, outside of
\* the case; storing the exchange raises in it.
Refused(case) == usersMissing /\ case.user # NoUser
SeedRaises(case) ==
    Refused(case) /\ (case.history > 0 \/ case.boundary > 0 \/ case.seeds # {})

\* The prompt, the summary and the memories are what is expected.  A summary that is due
\* beside an extraction takes its step of the script: the extraction is called first, as the
\* summary awaits the database.
MemoryVerdict(case, shown) ==
    /\ ~Refused(case)
    /\ CallsMade(case) >= case.script
    /\ SummaryDue(case) => ~Remembers(case)
    /\ <<Hidden(case), shown>> \in case.fits
    /\ (case.boundary > 0 \/ (SummaryDue(case) /\ case.script >= 2)) \in case.present
    /\ case.endsAt > 0 => Boundary(case) = case.endsAt
    /\ KeysOf(case.user, Left(case)) \in case.expects

-----------------------------------------------------------------------------
Begin ==
    /\ stage \in {"idle", "ended"}
    /\ run < MaxRuns
    /\ run' = run + 1
    /\ stage' = "preflight"
    /\ summary' = NoSummary
    /\ preflight' = FALSE
    /\ troubled' = FALSE
    /\ exit' = "running"
    /\ UNCHANGED <<usersMissing, database, results, files, verdicts>>

\* Every file a dataset names must have a document that is ready; of any owner.
Preflight ==
    /\ stage = "preflight"
    /\ preflight' = (ready = Files)
    /\ stage' = IF ready = Files THEN "rag" ELSE "judge"
    /\ UNCHANGED <<usersMissing, database, run, results, summary, troubled, files, exit, verdicts>>

\* The case that is next in the eval k.
Next(k) == Cases[k][Len(results) + 1]
Pending(k) == stage = k /\ Len(results) < Len(Cases[k])
Adds(r) == results' = Append(results, r)

\* Mutant of Aborts: the exception is caught, and the suite judged without the eval.
AbortsToJudge ==
    /\ stage' = "judge"
    /\ exit' = exit
    /\ results' = <<>>

\* An exception that nothing catches ends the run: no further report is written.
Aborts ==
    /\ stage' = "ended"
    /\ exit' = "traceback"
    /\ results' = <<>>

RagCase ==
    /\ Pending("rag")
    /\ \E r \in RagResults(Next("rag")) : Adds(r)
    /\ UNCHANGED <<usersMissing, database, run, stage, summary, preflight, troubled, files, exit, verdicts>>

\* The comparison is not within the try of the case.
ChatCase ==
    /\ Pending("chat")
    /\ LET case == Next("chat")
       IN  IF ~WithinRounds(case)
           THEN Adds(Result(FALSE, "none")) /\ UNCHANGED <<stage, exit>>
           ELSE \E found \in Found(case.topK), worded \in BOOLEAN :
                   LET same == DeepSubset(case.hits, found)
                   IN  IF case.topK > 0 /\ same = "raises" THEN Aborts
                       ELSE /\ Adds(Result(worded /\ (case.topK > 0 => same = "yes"), "none"))
                            /\ UNCHANGED <<stage, exit>>
    /\ nextId' = nextId + Next("chat").history + IF WithinRounds(Next("chat")) THEN 2 ELSE 0
    /\ UNCHANGED <<usersMissing, ready, memories, run, summary, preflight, troubled, files, verdicts>>

MemoryCase ==
    /\ Pending("memory")
    /\ LET case == Next("memory")
       IN  IF SeedRaises(case)
           THEN Aborts /\ UNCHANGED <<nextId, memories, verdicts>>
           ELSE /\ \E shown \in Shown(case) :
                      LET verdict == MemoryVerdict(case, shown)
                      IN  /\ Adds(Result(verdict, "none"))
                          /\ verdicts' = [verdicts EXCEPT ![Len(results) + 1] = @ \union {verdict}]
                /\ memories' = IF Refused(case) THEN memories ELSE Left(case)
                /\ nextId' = IF Refused(case) THEN nextId ELSE nextId + case.history + 2
                /\ UNCHANGED <<stage, exit>>
    /\ UNCHANGED <<usersMissing, ready, run, summary, preflight, troubled, files>>

\* A statement or a provider fails in a case.  A chat or memory case that fails within its
\* try is reported as failed, if the session still answers, and so is one whose failure is
\* swallowed, as that of write_memory is, and then missed by its expectations (one that no
\* expectation misses is left out); any other failure ends the run.  What the case has
\* committed stays: memories one by one, those the case is seeded with first.
CaseFails(k) ==
    /\ Pending(k)
    /\ troubled' = TRUE
    /\ \/ Aborts
       \/ k # "rag" /\ Adds(Result(FALSE, "none")) /\ UNCHANGED <<stage, exit>>
    /\ \/ UNCHANGED <<nextId, memories>>
       \/ k # "rag" /\ \E n \in {0, 2} : nextId' = nextId + Next(k).history + n /\ UNCHANGED memories
       \/ k = "memory" /\ \E keys \in SUBSET Next(k).seeds :
                             /\ memories' = MemoryUpserted(Next(k).user, keys)
                             /\ nextId' = nextId + Next(k).history
       \/ k = "memory" /\ \E keys \in SUBSET Written(Next(k)) :
                             /\ memories' = MemoryUpserted(Next(k).user, Next(k).seeds \union keys)
                             /\ nextId' = nextId + Next(k).history + 2
    /\ UNCHANGED <<usersMissing, ready, run, summary, preflight, files, verdicts>>

\* The report of an eval is written when all of its cases are done.
Reports(i) ==
    LET k == Kinds[i]
    IN  /\ stage = k
        /\ Len(results) = Len(Cases[k])
        /\ report' = [report EXCEPT ![k] = [of |-> run, cases |-> results]]
        /\ summary' = [summary EXCEPT ![k] = results]
        /\ results' = <<>>
        /\ stage' = IF i = 3 THEN "judge" ELSE Kinds[i + 1]
        /\ UNCHANGED <<usersMissing, database, run, preflight, troubled, suiteReport, exit, verdicts>>

\* An eval that has not run has no rate to fall short.
RateReasons ==
    LET short(k, percent) == Below(Hits(summary[k]), Len(summary[k]), percent)
        chunks == ChunkCases(summary.rag)
    IN  {reason \in {"documents", "chunks", "chat", "memory"} :
            \/ reason = "documents" /\ short("rag", MinDocuments)
            \/ reason = "chunks" /\ Below(ChunkHits(summary.rag), Cardinality(chunks), MinChunks)
            \/ reason = "chat" /\ short("chat", MinChat)
            \/ reason = "memory" /\ short("memory", MinMemory)}

\* build_failure_reasons.
FailureReasons == RateReasons \union IF preflight THEN {} ELSE {"preflight"}

Judge ==
    /\ stage = "judge"
    /\ suiteReport' = [of |-> run, ran |-> preflight, passed |-> FailureReasons = {},
                       summary |-> summary]
    /\ exit' = IF FailureReasons = {} THEN "0" ELSE "1"
    /\ stage' = "ended"
    /\ UNCHANGED <<usersMissing, database, run, results, summary, preflight, troubled, report, verdicts>>

\* A dataset cannot be loaded, the database not asked, a report not written; or the
\* process dies.
RunFails ==
    /\ stage \notin {"idle", "ended"}
    /\ troubled' = TRUE
    /\ Aborts
    /\ UNCHANGED <<usersMissing, database, run, summary, preflight, files, verdicts>>

\* The server that uses the same database: a chat, and a document that comes or goes.
OthersChat ==
    /\ nextId + 2 <= MaxId
    /\ nextId' = nextId + 2
    /\ UNCHANGED <<usersMissing, ready, memories, run, stage, results, summary, preflight, troubled, files,
                   exit, verdicts>>

DocumentChanges(f) ==
    /\ ready' = IF f \in ready THEN ready \ {f} ELSE ready \union {f}
    /\ UNCHANGED <<usersMissing, nextId, memories, run, stage, results, summary, preflight, troubled, files,
                   exit, verdicts>>

EvalInit ==
    /\ usersMissing \in BOOLEAN
    /\ ready = Files
    /\ nextId = 1
    /\ memories = {}
    /\ run = 0
    /\ stage = "idle"
    /\ results = <<>>
    /\ summary = NoSummary
    /\ preflight = FALSE
    /\ troubled = FALSE
    /\ report = [k \in Names |-> [of |-> 0, cases |-> <<>>]]
    /\ suiteReport = [of |-> 0, ran |-> FALSE, passed |-> FALSE, summary |-> NoSummary]
    /\ exit = "none"
    /\ verdicts = [i \in DOMAIN MemoryCases |-> {}]

EvalNext ==
    \/ Begin \/ Preflight
    \/ RagCase \/ ChatCase \/ MemoryCase
    \/ \E k \in Names : CaseFails(k)
    \/ \E i \in 1 .. 3 : Reports(i)
    \/ Judge \/ RunFails
    \/ OthersChat
    \/ \E f \in Files : DocumentChanges(f)

EvalSpec == EvalInit /\ [][EvalNext]_evalVars

-----------------------------------------------------------------------------
Outcome == [hit : BOOLEAN, chunk : {"none", "hit", "miss"}]

EvalTypeOK ==
    /\ usersMissing \in BOOLEAN
    /\ ready \subseteq Files
    /\ nextId \in Nat \ {0}
    /\ memories \subseteq Users \X Keys
    /\ run \in Nat
    /\ stage \in Names \union {"idle", "preflight", "judge", "ended"}
    /\ results \in Seq(Outcome)
    /\ summary \in [Names -> Seq(Outcome)]
    /\ preflight \in BOOLEAN
    /\ troubled \in BOOLEAN
    /\ report \in [Names -> [of : Nat, cases : Seq(Outcome)]]
    /\ suiteReport \in [of : Nat, ran : BOOLEAN, passed : BOOLEAN,
                        summary : [Names -> Seq(Outcome)]]
    /\ exit \in {"none", "running", "0", "1", "traceback"}
    /\ verdicts \in [DOMAIN MemoryCases -> SUBSET BOOLEAN]

\* The gate opens only on reports that this run wrote, each of which meets its threshold,
\* although reports of earlier runs lie in the same directory and runs end anywhere.
GateHonest ==
    exit = "0" =>
        /\ suiteReport.of = run /\ suiteReport.passed
        /\ \A k \in Names : report[k].of = run /\ Len(report[k].cases) = Len(Cases[k])
        /\ ~Below(Hits(report.rag.cases), Len(RagCases), MinDocuments)
        /\ ~Below(ChunkHits(report.rag.cases), Cardinality(ChunkCases(report.rag.cases)), MinChunks)
        /\ ~Below(Hits(report.chat.cases), Len(ChatCases), MinChat)
        /\ ~Below(Hits(report.memory.cases), Len(MemoryCases), MinMemory)

\* What the report of the suite sums up lies beside it, until a later run has replaced it;
\* a run that ended early leaves an older verdict and newer reports.
SuiteReportFounded ==
    suiteReport.ran =>
        \A k \in Names :
            \/ report[k].of > suiteReport.of
            \/ report[k] = [of |-> suiteReport.of, cases |-> suiteReport.summary[k]]

\* No user has two cases: so it is in the checked-in dataset, though the loader asks it only
\* of the ids of the cases.
OwnUsers ==
    \A i, j \in DOMAIN MemoryCases :
        i # j => MemoryCases[i].user # MemoryCases[j].user \/ MemoryCases[i].user = NoUser

\* A case that names no message id, and whose prompt may show the memories that the case itself
\* stores or not: what it expects of the prompt is met with them when it is met without them.
Repeatable(case) ==
    /\ case.boundary = 0 /\ case.endsAt = 0
    /\ \A before, later \in {keys \in SUBSET (case.seeds \union case.writes) : case.seeds \subseteq keys} :
          \A s \in Seen(case, before), t \in Seen(case, later) :
             <<0, s>> \in case.fits <=> <<0, t>> \in case.fits

\* Whatever earlier runs have left in the database, wherever they ended, a repeatable memory
\* case is judged alike in every run in which nothing fails in it.
RerunAgrees ==
    \A i \in DOMAIN MemoryCases : Repeatable(MemoryCases[i]) => Cardinality(verdicts[i]) <= 1

\* The README: when the preflight passes, the suite writes its four reports.
SuiteWritesReports ==
    stage = "ended" /\ preflight /\ ~troubled =>
        suiteReport.of = run /\ \A k \in Names : report[k].of = run
=============================================================================
