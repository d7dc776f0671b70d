-------------------------- MODULE EvalSuiteProofs ---------------------------
(***************************************************************************)
(* What holds of EvalSuite for every dataset, every threshold, any number  *)
(* of runs and any use of the same database by others.                     *)
(***************************************************************************)
EXTENDS EvalSuite, FiniteSetTheorems, TLAPS

\* The evals of the run that are done.
EvalsDone ==
    {k \in Names : \/ stage = "chat" /\ k = "rag"
                   \/ stage = "memory" /\ k # "memory"
                   \/ stage = "judge" /\ preflight}

\* The report of an eval is the run's own.
Own(k) ==
    /\ report[k] = [of |-> run, cases |-> summary[k]]
    /\ Len(summary[k]) = Len(Cases[k])

\* What the files say of the run at work, and of those before it.
ReportsInv ==
    /\ stage \in Names => preflight
    /\ stage \notin Names => results = <<>>
    /\ \A k \in EvalsDone : Own(k)
    /\ suiteReport.of <= run
    /\ stage \notin {"idle", "ended"} => suiteReport.of < run
    /\ SuiteReportFounded
    /\ exit = "0" =>
          /\ stage = "ended"
          /\ suiteReport.of = run /\ suiteReport.passed
          /\ \A k \in Names : Own(k)
          /\ FailureReasons = {}

SuiteInv == EvalTypeOK /\ ReportsInv

\* What becomes of a memory case that names no message id, by its own numbers alone.
CountDue(case) == case.history + 2 >= case.trigger /\ case.history + 2 > case.window
SettledCalls(case) ==
    1 + (IF CountDue(case) THEN 1 ELSE 0) + (IF Remembers(case) THEN 1 ELSE 0)
SettledKeys(case) ==
    case.seeds \union IF ~Remembers(case) \/ SettledCalls(case) > case.script THEN {} ELSE case.writes
SettledRows(case) == {row \in {case.user} \X SettledKeys(case) : case.user # NoUser}

\* What its prompt shows of memories it is seeded with or stores itself, fits.
OwnKeys(case) == {keys \in SUBSET (case.seeds \union case.writes) : case.seeds \subseteq keys}
SettledFit(case) == \E keys \in OwnKeys(case) : \E s \in Seen(case, keys) : <<0, s>> \in case.fits

SettledVerdict(case) ==
    /\ ~Refused(case)
    /\ SettledCalls(case) >= case.script
    /\ CountDue(case) => ~Remembers(case)
    /\ SettledFit(case)
    /\ (CountDue(case) /\ case.script >= 2) \in case.present
    /\ KeysOf(case.user, SettledRows(case)) \in case.expects

RowsInv ==
    \A i \in DOMAIN MemoryCases :
        MemoryCases[i].boundary = 0 =>
            {m \in memories : m[1] = MemoryCases[i].user} \subseteq SettledRows(MemoryCases[i])

VerdictsInv ==
    \A i \in DOMAIN MemoryCases :
        Repeatable(MemoryCases[i]) => \A v \in verdicts[i] : v <=> SettledVerdict(MemoryCases[i])

RerunInv == EvalTypeOK /\ RowsInv /\ VerdictsInv

-----------------------------------------------------------------------------
(* Types.                                                                  *)

LEMMA OutcomeTyped ==
    ASSUME NEW hit \in BOOLEAN, NEW chunk \in {"none", "hit", "miss"}
    PROVE  Result(hit, chunk) \in Outcome
  BY DEF Result, Outcome

LEMMA CasesAre ==
    /\ Cases["rag"] = RagCases /\ Cases["chat"] = ChatCases /\ Cases["memory"] = MemoryCases
    /\ Cases.rag = RagCases /\ Cases.chat = ChatCases /\ Cases.memory = MemoryCases
  BY DEF Cases

\* The case at work is one of its dataset.
LEMMA NextCase ==
    ASSUME EvalTypeOK
    PROVE  /\ Pending("rag") => Next("rag").minimum \in Nat
           /\ Pending("chat") => Next("chat").history \in Nat /\ Next("chat").hits \in Seq(Files)
           /\ Pending("memory") =>
                 /\ Len(results) + 1 \in DOMAIN MemoryCases
                 /\ Next("memory") = MemoryCases[Len(results) + 1]
<1>1. Len(results) \in Nat
  BY DEF EvalTypeOK
<1>2. ASSUME Pending("rag") PROVE Next("rag").minimum \in Nat
  <2>1. Len(results) + 1 \in 1 .. Len(RagCases)
    BY <1>1, <1>2, CasesAre, EvalAssumption DEF Pending
  <2>2. RagCases[Len(results) + 1] \in RetrievalEvalCase
    BY <2>1, EvalAssumption
  <2>3. Next("rag") = RagCases[Len(results) + 1]
    BY CasesAre DEF Next
  <2> QED
    BY <2>2, <2>3 DEF RetrievalEvalCase
<1>3. ASSUME Pending("chat")
      PROVE  Next("chat").history \in Nat /\ Next("chat").hits \in Seq(Files)
  <2>1. Len(results) + 1 \in 1 .. Len(ChatCases)
    BY <1>1, <1>3, CasesAre, EvalAssumption DEF Pending
  <2>2. ChatCases[Len(results) + 1] \in ChatEvalCase
    BY <2>1, EvalAssumption
  <2>3. Next("chat") = ChatCases[Len(results) + 1]
    BY CasesAre DEF Next
  <2> QED
    BY <2>2, <2>3 DEF ChatEvalCase
<1>4. ASSUME Pending("memory")
      PROVE  /\ Len(results) + 1 \in DOMAIN MemoryCases
             /\ Next("memory") = MemoryCases[Len(results) + 1]
  <2>1. Len(results) + 1 \in 1 .. Len(MemoryCases)
    BY <1>1, <1>4, CasesAre, EvalAssumption DEF Pending
  <2>2. DOMAIN MemoryCases = 1 .. Len(MemoryCases)
    BY EvalAssumption
  <2> QED
    BY <2>1, <2>2, CasesAre DEF Next
<1> QED
  BY <1>2, <1>3, <1>4

LEMMA MemoryCaseTyped ==
    ASSUME NEW i \in DOMAIN MemoryCases
    PROVE  LET case == MemoryCases[i]
           IN  /\ case.user \in Users \union {NoUser}
               /\ case.history \in Nat /\ case.boundary \in Nat /\ case.maxItems \in Nat
               /\ case.seeds \subseteq Keys /\ case.writes \subseteq Keys
               /\ case.trigger \in Int /\ case.window \in Int
               /\ case.script \in Nat /\ case.endsAt \in Nat
<1>1. MemoryCases[i] \in MemoryEvalCase
  BY EvalAssumption
<1> QED
  BY <1>1 DEF MemoryEvalCase

LEMMA RagResultTyped ==
    ASSUME NEW case, NEW r \in RagResults(case)
    PROVE  r \in Outcome
<1> DEFINE sources(s) == {f \in case.sources : \E i \in DOMAIN s : s[i] = f}
           chunks(s) == IF ~case.chunks THEN {"none"}
                        ELSE IF sources(s) = {} THEN {"miss"} ELSE {"hit", "miss"}
           found(s) == Cardinality(sources(s)) >= case.minimum
<1>1. PICK s \in Found(case.topK) : r \in {Result(found(s), chunk) : chunk \in chunks(s)}
  BY DEF RagResults
<1>2. PICK chunk \in chunks(s) : r = Result(found(s), chunk)
  BY <1>1
<1>3. chunk \in {"none", "hit", "miss"}
  OBVIOUS
<1>4. found(s) \in BOOLEAN
  OBVIOUS
<1> QED
  BY <1>2, <1>3, <1>4, OutcomeTyped

\* What a case adds to the results.
LEMMA AddsTyped ==
    ASSUME EvalTypeOK, NEW r \in Outcome, Adds(r)
    PROVE  results' \in Seq(Outcome)
  BY DEF EvalTypeOK, Adds

LEMMA UpsertedTyped ==
    ASSUME EvalTypeOK, NEW user \in Users \union {NoUser}, NEW keys \in SUBSET Keys
    PROVE  MemoryUpserted(user, keys) \subseteq Users \X Keys
  BY DEF EvalTypeOK, MemoryUpserted

LEMMA LeftTyped ==
    ASSUME EvalTypeOK, NEW i \in DOMAIN MemoryCases
    PROVE  Left(MemoryCases[i]) \subseteq Users \X Keys
<1>1. /\ MemoryCases[i].user \in Users \union {NoUser}
      /\ MemoryCases[i].seeds \subseteq Keys /\ MemoryCases[i].writes \subseteq Keys
  BY MemoryCaseTyped
<1>2. MemoryCases[i].seeds \union Written(MemoryCases[i]) \in SUBSET Keys
  BY <1>1 DEF Written
<1> QED
  BY <1>1, <1>2, UpsertedTyped DEF Left

LEMMA InitTyped == EvalInit => EvalTypeOK
<1> SUFFICES ASSUME EvalInit
             PROVE  EvalTypeOK
  OBVIOUS
<1>1. <<>> \in Seq(Outcome)
  OBVIOUS
<1>2. NoSummary \in [Names -> Seq(Outcome)]
  BY <1>1 DEF NoSummary
<1>3. /\ report \in [Names -> [of : Nat, cases : Seq(Outcome)]]
      /\ suiteReport \in [of : Nat, ran : BOOLEAN, passed : BOOLEAN,
                          summary : [Names -> Seq(Outcome)]]
      /\ verdicts \in [DOMAIN MemoryCases -> SUBSET BOOLEAN]
  BY <1>1, <1>2 DEF EvalInit
<1>4. nextId \in Nat \ {0}
  BY DEF EvalInit
<1> QED
  BY <1>1, <1>2, <1>3, <1>4 DEF EvalInit, EvalTypeOK

\* An exception leaves the types alone.
LEMMA AbortsTyped ==
    ASSUME Aborts
    PROVE  stage' = "ended" /\ exit' = "traceback" /\ results' \in Seq(Outcome)
  BY DEF Aborts

LEMMA NextTyped == EvalTypeOK /\ [EvalNext]_evalVars => EvalTypeOK'
<1> SUFFICES ASSUME EvalTypeOK, [EvalNext]_evalVars
             PROVE  EvalTypeOK'
  OBVIOUS
<1> USE DEF database, files
<1>1. CASE Begin
  <2>1. NoSummary \in [Names -> Seq(Outcome)]
    BY DEF NoSummary
  <2>2. run' \in Nat
    BY <1>1 DEF Begin, EvalTypeOK
  <2>3. /\ stage' = "preflight" /\ summary' = NoSummary /\ preflight' = FALSE
        /\ troubled' = FALSE /\ exit' = "running"
        /\ UNCHANGED <<usersMissing, database, results, files, verdicts>>
    BY <1>1 DEF Begin
  <2> QED
    BY <2>1, <2>2, <2>3 DEF EvalTypeOK
<1>2. CASE Preflight
  BY <1>2 DEF Preflight, EvalTypeOK, Names
<1>3. CASE RagCase
  <2>1. PICK r \in RagResults(Next("rag")) : Adds(r)
    BY <1>3 DEF RagCase
  <2>2. results' \in Seq(Outcome)
    BY <2>1, RagResultTyped, AddsTyped
  <2> QED
    BY <1>3, <2>2 DEF RagCase, EvalTypeOK
<1>4. CASE ChatCase
  <2>1. Next("chat").history \in Nat
    BY <1>4, NextCase DEF ChatCase
  <2>2. nextId' \in Nat \ {0}
    BY <1>4, <2>1 DEF ChatCase, EvalTypeOK
  <2>3. \/ Aborts
        \/ (\E r \in Outcome : Adds(r)) /\ UNCHANGED <<stage, exit>>
    <3>1. CASE ~WithinRounds(Next("chat"))
      <4>1. Adds(Result(FALSE, "none")) /\ UNCHANGED <<stage, exit>>
        BY <1>4, <3>1 DEF ChatCase
      <4>2. Result(FALSE, "none") \in Outcome
        BY OutcomeTyped
      <4> QED
        BY <4>1, <4>2
    <3>2. CASE WithinRounds(Next("chat"))
      <4> DEFINE right(found, worded) ==
              worded /\ (Next("chat").topK > 0 =>
                            DeepSubset(Next("chat").hits, found) = "yes")
      <4>1. PICK found \in Found(Next("chat").topK), worded \in BOOLEAN :
               \/ Aborts
               \/ Adds(Result(right(found, worded), "none")) /\ UNCHANGED <<stage, exit>>
        BY <1>4, <3>2 DEF ChatCase
      <4>2. right(found, worded) \in BOOLEAN
        OBVIOUS
      <4>3. Result(right(found, worded), "none") \in Outcome
        BY <4>2, OutcomeTyped
      <4> QED
        BY <4>1, <4>3
    <3> QED
      BY <3>1, <3>2
  <2>4. /\ results' \in Seq(Outcome)
        /\ stage' \in {stage, "ended"} /\ exit' \in {exit, "traceback"}
    BY <2>3, AbortsTyped, AddsTyped
  <2> QED
    BY <1>4, <2>2, <2>4 DEF ChatCase, EvalTypeOK
<1>5. CASE MemoryCase
  <2> DEFINE case == Next("memory")
  <2>1. Pending("memory")
    BY <1>5 DEF MemoryCase
  <2>2. PICK i \in DOMAIN MemoryCases : i = Len(results) + 1 /\ case = MemoryCases[i]
    BY <2>1, NextCase
  <2>3. case.history \in Nat /\ Left(case) \subseteq Users \X Keys
    BY <2>2, MemoryCaseTyped, LeftTyped
  <2>4. \A shown : MemoryVerdict(case, shown) \in BOOLEAN
    BY DEF MemoryVerdict
  <2>5. \A shown : Result(MemoryVerdict(case, shown), "none") \in Outcome
    BY <2>4, OutcomeTyped
  <2>6. CASE SeedRaises(case)
    <3>1. Aborts /\ UNCHANGED <<nextId, memories, verdicts>>
      BY <1>5, <2>6 DEF MemoryCase
    <3> QED
      BY <1>5, <3>1, AbortsTyped DEF MemoryCase, EvalTypeOK
  <2>7. CASE ~SeedRaises(case)
    <3>1. PICK shown \in Shown(case) :
             /\ Adds(Result(MemoryVerdict(case, shown), "none"))
             /\ verdicts' = [verdicts EXCEPT ![i] = @ \union {MemoryVerdict(case, shown)}]
             /\ memories' = IF Refused(case) THEN memories ELSE Left(case)
             /\ nextId' = IF Refused(case) THEN nextId ELSE nextId + case.history + 2
             /\ UNCHANGED <<stage, exit>>
      BY <1>5, <2>2, <2>7 DEF MemoryCase
    <3>2. results' \in Seq(Outcome)
      BY <2>5, <3>1, AddsTyped
    <3>3. nextId' \in Nat \ {0} /\ memories' \subseteq Users \X Keys
      BY <2>3, <3>1 DEF EvalTypeOK
    <3>4. verdicts' \in [DOMAIN MemoryCases -> SUBSET BOOLEAN]
      BY <2>4, <3>1 DEF EvalTypeOK
    <3> QED
      BY <1>5, <3>1, <3>2, <3>3, <3>4 DEF MemoryCase, EvalTypeOK
  <2> QED
    BY <2>6, <2>7
<1>6. CASE \E k \in Names : CaseFails(k)
  <2>1. PICK k \in Names : CaseFails(k)
    BY <1>6
  <2>2. Result(FALSE, "none") \in Outcome
    BY OutcomeTyped
  <2>3. /\ results' \in Seq(Outcome)
        /\ stage' \in {stage, "ended"} /\ exit' \in {exit, "traceback"}
    BY <2>1, <2>2, AbortsTyped, AddsTyped DEF CaseFails
  <2>4. nextId' \in Nat \ {0} /\ memories' \subseteq Users \X Keys
    <3>1. CASE UNCHANGED <<nextId, memories>>
      BY <3>1 DEF EvalTypeOK
    <3>2. ASSUME k # "rag", UNCHANGED memories,
                 \E n \in {0, 2} : nextId' = nextId + Next(k).history + n
          PROVE  nextId' \in Nat \ {0} /\ memories' \subseteq Users \X Keys
      <4>1. Next(k).history \in Nat
        <5>1. Pending(k)
          BY <2>1 DEF CaseFails
        <5> QED
          BY <3>2, <5>1, NextCase, MemoryCaseTyped DEF Names
      <4>2. nextId \in Nat \ {0} /\ memories' \subseteq Users \X Keys
        BY <3>2 DEF EvalTypeOK
      <4>3. PICK n \in {0, 2} : nextId' = nextId + Next(k).history + n
        BY <3>2
      <4>4. \A a \in Nat \ {0}, b \in Nat, c \in {0, 2} : a + b + c \in Nat \ {0}
        OBVIOUS
      <4> QED
        BY <4>1, <4>2, <4>3, <4>4
    <3>3. ASSUME k = "memory", NEW keys \in SUBSET Keys, NEW n \in {0, 2},
                 memories' = MemoryUpserted(Next(k).user, keys),
                 nextId' = nextId + Next(k).history + n
          PROVE  nextId' \in Nat \ {0} /\ memories' \subseteq Users \X Keys
      <4>1. Pending("memory")
        BY <2>1, <3>3 DEF CaseFails
      <4>2. Next("memory").user \in Users \union {NoUser} /\ Next("memory").history \in Nat
        BY <4>1, NextCase, MemoryCaseTyped
      <4>3. memories' \subseteq Users \X Keys
        BY <3>3, <4>2, UpsertedTyped
      <4>4. nextId \in Nat \ {0} /\ nextId' = nextId + Next("memory").history + n
        BY <3>3 DEF EvalTypeOK
      <4>5. \A a \in Nat \ {0}, b \in Nat, c \in {0, 2} : a + b + c \in Nat \ {0}
        OBVIOUS
      <4> QED
        BY <4>2, <4>3, <4>4, <4>5
    <3>4. ASSUME k = "memory"
          PROVE  /\ Next(k).seeds \subseteq Keys /\ Written(Next(k)) \subseteq Keys
                 /\ nextId + Next(k).history = nextId + Next(k).history + 0
      <4>1. Pending("memory")
        BY <2>1, <3>4 DEF CaseFails
      <4>2. /\ Next("memory").seeds \subseteq Keys /\ Next("memory").writes \subseteq Keys
            /\ Next("memory").history \in Nat /\ nextId \in Nat
        BY <4>1, NextCase, MemoryCaseTyped DEF EvalTypeOK
      <4> QED
        BY <3>4, <4>2 DEF Written
    <3>5. CASE k = "memory" /\ \E keys \in SUBSET Next(k).seeds :
                                  /\ memories' = MemoryUpserted(Next(k).user, keys)
                                  /\ nextId' = nextId + Next(k).history
      <4>1. PICK keys \in SUBSET Next(k).seeds :
               /\ memories' = MemoryUpserted(Next(k).user, keys)
               /\ nextId' = nextId + Next(k).history
        BY <3>5
      <4> QED
        BY <3>3, <3>4, <3>5, <4>1
    <3>6. CASE k = "memory" /\ \E keys \in SUBSET Written(Next(k)) :
                   /\ memories' = MemoryUpserted(Next(k).user, Next(k).seeds \union keys)
                   /\ nextId' = nextId + Next(k).history + 2
      <4>1. PICK keys \in SUBSET Written(Next(k)) :
               /\ memories' = MemoryUpserted(Next(k).user, Next(k).seeds \union keys)
               /\ nextId' = nextId + Next(k).history + 2
        BY <3>6
      <4>2. Next(k).seeds \union keys \in SUBSET Keys
        BY <3>4, <3>6, <4>1
      <4> QED
        BY <3>3, <3>6, <4>1, <4>2
    <3> QED
      BY <2>1, <3>1, <3>2, <3>5, <3>6 DEF CaseFails
  <2> QED
    BY <2>1, <2>3, <2>4 DEF CaseFails, EvalTypeOK
<1>7. CASE \E i \in 1 .. 3 : Reports(i)
  <2>1. PICK i \in 1 .. 3 : Reports(i)
    BY <1>7
  <2> DEFINE k == Kinds[i]
  <2>2. k \in Names /\ stage' \in Names \union {"judge"}
    <3>1. i = 1 \/ i = 2 \/ i = 3
      OBVIOUS
    <3> QED
      BY <2>1, <3>1 DEF Reports, Kinds, Names
  <2>3. /\ report' = [report EXCEPT ![k] = [of |-> run, cases |-> results]]
        /\ summary' = [summary EXCEPT ![k] = results]
        /\ results' = <<>>
        /\ UNCHANGED <<usersMissing, ready, nextId, memories, run, preflight, troubled,
                       suiteReport, exit, verdicts>>
    BY <2>1 DEF Reports
  <2> HIDE DEF k
  <2>4. /\ report' \in [Names -> [of : Nat, cases : Seq(Outcome)]]
        /\ summary' \in [Names -> Seq(Outcome)]
    <3>1. [of |-> run, cases |-> results] \in [of : Nat, cases : Seq(Outcome)]
      BY DEF EvalTypeOK
    <3> QED
      BY <2>2, <2>3, <3>1 DEF EvalTypeOK
  <2> QED
    BY <2>2, <2>3, <2>4 DEF EvalTypeOK
<1>8. CASE Judge
  <2>1. suiteReport' \in [of : Nat, ran : BOOLEAN, passed : BOOLEAN,
                          summary : [Names -> Seq(Outcome)]]
    BY <1>8 DEF Judge, EvalTypeOK
  <2> QED
    BY <1>8, <2>1 DEF Judge, EvalTypeOK
<1>9. CASE RunFails
  BY <1>9, AbortsTyped DEF RunFails, EvalTypeOK
<1>10. CASE OthersChat
  BY <1>10 DEF OthersChat, EvalTypeOK
<1>11. CASE \E f \in Files : DocumentChanges(f)
  BY <1>11 DEF DocumentChanges, EvalTypeOK
<1>12. CASE UNCHANGED evalVars
  BY <1>12 DEF evalVars, EvalTypeOK
<1> QED
  BY <1>1, <1>2, <1>3, <1>4, <1>5, <1>6, <1>7, <1>8, <1>9, <1>10, <1>11, <1>12 DEF EvalNext

\* Type correctness, whatever fails and whatever the datasets are: in particular the rows of
\* the memories are rows of users, so that a case without one stores none.
THEOREM EvalTypes == EvalSpec => []EvalTypeOK
  BY InitTyped, NextTyped, PTL DEF EvalSpec

-----------------------------------------------------------------------------
(* The reports.                                                            *)

LEMMA FilesSame ==
    ASSUME UNCHANGED <<report, summary, run, suiteReport, preflight>>
    PROVE  /\ \A k : Own(k)' <=> Own(k)
           /\ SuiteReportFounded' <=> SuiteReportFounded
           /\ FailureReasons' = FailureReasons
<1>1. \A k : Own(k)' <=> Own(k)
  BY DEF Own
<1>2. SuiteReportFounded' <=> SuiteReportFounded
  BY DEF SuiteReportFounded
<1>3. FailureReasons' = FailureReasons
  BY DEF FailureReasons, RateReasons
<1> QED
  BY <1>1, <1>2, <1>3

\* A step within an eval, one that ends the run by an exception, and one of others.
LEMMA StepWithin ==
    ASSUME ReportsInv, UNCHANGED <<report, summary, run, suiteReport, preflight>>,
           \/ stage' = stage /\ exit' = exit /\ (stage \in Names \/ results' = results)
           \/ Aborts
    PROVE  ReportsInv'
<1>1. \A k \in EvalsDone' : k \in EvalsDone
  BY DEF EvalsDone, Aborts
<1> QED
  BY <1>1, FilesSame DEF ReportsInv, Aborts, Names

\* The report of an eval is written beside those of the run's evals before it.
LEMMA ReportsStep ==
    ASSUME EvalTypeOK, ReportsInv, NEW i \in 1 .. 3, Reports(i)
    PROVE  ReportsInv'
<1> DEFINE k == Kinds[i]
<1>1. \/ k = "rag" /\ stage' = "chat"
      \/ k = "chat" /\ stage' = "memory"
      \/ k = "memory" /\ stage' = "judge"
  <2>1. i = 1 \/ i = 2 \/ i = 3
    OBVIOUS
  <2> QED
    BY <2>1 DEF Reports, Kinds
<1>2. /\ stage = k /\ Len(results) = Len(Cases[k])
      /\ report' = [report EXCEPT ![k] = [of |-> run, cases |-> results]]
      /\ summary' = [summary EXCEPT ![k] = results]
      /\ results' = <<>>
      /\ UNCHANGED <<run, preflight, suiteReport, exit>>
  BY DEF Reports
<1>3. /\ k \in Names /\ stage \in Names /\ stage \notin {"idle", "ended"}
  BY <1>1, <1>2 DEF Names
<1> HIDE DEF k
<1>4. /\ report \in [Names -> [of : Nat, cases : Seq(Outcome)]]
      /\ summary \in [Names -> Seq(Outcome)]
      /\ run \in Nat /\ suiteReport.of \in Nat
  BY DEF EvalTypeOK
<1>5. preflight /\ suiteReport.of < run /\ exit # "0"
  BY <1>3 DEF ReportsInv
<1>6. /\ report'[k] = [of |-> run, cases |-> results] /\ summary'[k] = results
      /\ \A l \in Names \ {k} : report'[l] = report[l] /\ summary'[l] = summary[l]
  BY <1>2, <1>3, <1>4
<1>7. Own(k)'
  BY <1>2, <1>3, <1>6 DEF Own
<1>8. ASSUME NEW l \in EvalsDone' PROVE Own(l)'
  <2>1. CASE l = k
    BY <1>7, <2>1
  <2>2. CASE l # k
    <3>1. l \in EvalsDone
      <4>1. CASE k = "rag" /\ stage' = "chat"
        BY <2>2, <4>1 DEF EvalsDone
      <4>2. CASE k = "chat" /\ stage' = "memory"
        BY <1>2, <2>2, <4>2 DEF EvalsDone, Names
      <4>3. CASE k = "memory" /\ stage' = "judge"
        BY <1>2, <2>2, <4>3 DEF EvalsDone
      <4> QED
        BY <1>1, <4>1, <4>2, <4>3
    <3>2. Own(l) /\ l \in Names \ {k}
      BY <2>2, <3>1 DEF ReportsInv, EvalsDone
    <3> QED
      BY <1>2, <1>6, <3>2 DEF Own
  <2> QED
    BY <2>1, <2>2
<1>9. SuiteReportFounded'
  <2> SUFFICES ASSUME suiteReport.ran, NEW l \in Names
               PROVE  \/ report'[l].of > suiteReport.of
                      \/ report'[l] = [of |-> suiteReport.of, cases |-> suiteReport.summary[l]]
    BY <1>2 DEF SuiteReportFounded
  <2>1. CASE l = k
    <3>1. report'[l].of = run
      BY <1>6, <2>1
    <3> QED
      BY <1>4, <1>5, <3>1
  <2>2. CASE l # k
    <3>1. report'[l] = report[l]
      BY <1>6, <2>2
    <3>2. SuiteReportFounded
      BY DEF ReportsInv
    <3> QED
      BY <3>1, <3>2 DEF SuiteReportFounded
  <2> QED
    BY <2>1, <2>2
<1> QED
  BY <1>1, <1>2, <1>5, <1>8, <1>9 DEF ReportsInv

\* The suite is judged by the reports of its own run, or by none.
LEMMA JudgeStep ==
    ASSUME EvalTypeOK, ReportsInv, Judge
    PROVE  ReportsInv'
<1>1. /\ stage = "judge" /\ stage' = "ended"
      /\ suiteReport' = [of |-> run, ran |-> preflight, passed |-> FailureReasons = {},
                         summary |-> summary]
      /\ exit' = IF FailureReasons = {} THEN "0" ELSE "1"
      /\ UNCHANGED <<run, results, summary, preflight, report>>
  BY DEF Judge
<1>2. /\ results' = <<>> /\ run \in Nat /\ EvalsDone' = {}
  BY <1>1 DEF ReportsInv, EvalTypeOK, EvalsDone, Names
<1>3. FailureReasons' = FailureReasons /\ \A k : Own(k)' <=> Own(k)
  BY <1>1 DEF FailureReasons, RateReasons, Own
<1>4. preflight => \A k \in Names : Own(k)
  BY <1>1 DEF ReportsInv, EvalsDone
<1>5. SuiteReportFounded'
  <2> SUFFICES ASSUME preflight, NEW k \in Names
               PROVE  report[k] = [of |-> run, cases |-> summary[k]]
    BY <1>1 DEF SuiteReportFounded
  <2> QED
    BY <1>4 DEF Own
<1>6. ASSUME exit' = "0"
      PROVE  /\ FailureReasons = {} /\ suiteReport'.of = run /\ suiteReport'.passed
             /\ \A k \in Names : Own(k)
  <2>1. FailureReasons = {}
    BY <1>1, <1>6
  <2>2. preflight
    BY <2>1 DEF FailureReasons
  <2> QED
    BY <1>1, <1>4, <2>1, <2>2
<1>7. suiteReport'.of <= run'
  BY <1>1, <1>2
<1> QED
  BY <1>1, <1>2, <1>3, <1>5, <1>6, <1>7 DEF ReportsInv, Names

LEMMA NextReports == SuiteInv /\ [EvalNext]_evalVars => ReportsInv'
<1> SUFFICES ASSUME EvalTypeOK, ReportsInv, [EvalNext]_evalVars
             PROVE  ReportsInv'
  BY DEF SuiteInv
<1> USE DEF files
<1>1. CASE Begin
  <2>1. /\ run' = run + 1 /\ stage' = "preflight" /\ exit' = "running"
        /\ stage \in {"idle", "ended"}
        /\ UNCHANGED <<results, report, suiteReport>>
    BY <1>1 DEF Begin
  <2>2. results' = <<>> /\ EvalsDone' = {}
    BY <2>1 DEF ReportsInv, EvalsDone, Names
  <2>3. suiteReport'.of < run' /\ suiteReport'.of <= run'
    <3>1. suiteReport.of \in Nat /\ run \in Nat /\ suiteReport.of <= run
      BY DEF EvalTypeOK, ReportsInv
    <3> QED
      BY <2>1, <3>1
  <2>4. SuiteReportFounded'
    BY <2>1 DEF ReportsInv, SuiteReportFounded
  <2> QED
    BY <2>1, <2>2, <2>3, <2>4 DEF ReportsInv, Names
<1>2. CASE Preflight
  <2>1. /\ stage = "preflight"
        /\ \/ stage' = "rag" /\ preflight' = TRUE
           \/ stage' = "judge" /\ preflight' = FALSE
        /\ UNCHANGED <<run, results, summary, report, suiteReport, exit>>
    BY <1>2 DEF Preflight
  <2>2. results' = <<>> /\ EvalsDone' = {}
    BY <2>1 DEF ReportsInv, EvalsDone, Names
  <2>3. SuiteReportFounded'
    BY <2>1 DEF ReportsInv, SuiteReportFounded
  <2> QED
    BY <2>1, <2>2, <2>3 DEF ReportsInv, Names
<1>3. CASE RagCase \/ ChatCase \/ MemoryCase
  <2>1. /\ UNCHANGED <<report, summary, run, suiteReport, preflight>>
        /\ stage \in Names
        /\ Aborts \/ UNCHANGED <<stage, exit>>
    BY <1>3 DEF RagCase, ChatCase, MemoryCase, Pending, Names
  <2> QED
    BY <2>1, StepWithin
<1>4. CASE \E k \in Names : CaseFails(k)
  <2>1. /\ UNCHANGED <<report, summary, run, suiteReport, preflight>>
        /\ stage \in Names
        /\ Aborts \/ UNCHANGED <<stage, exit>>
    BY <1>4 DEF CaseFails, Pending
  <2> QED
    BY <2>1, StepWithin
<1>5. CASE \E i \in 1 .. 3 : Reports(i)
  BY <1>5, ReportsStep
<1>6. CASE Judge
  BY <1>6, JudgeStep
<1>7. CASE RunFails
  BY <1>7, StepWithin DEF RunFails
<1>8. CASE OthersChat
  BY <1>8, StepWithin DEF OthersChat
<1>9. CASE \E f \in Files : DocumentChanges(f)
  <2>1. UNCHANGED <<report, summary, run, suiteReport, preflight, stage, exit, results>>
    BY <1>9 DEF DocumentChanges
  <2> QED
    BY <2>1, StepWithin
<1>10. CASE UNCHANGED evalVars
  BY <1>10, StepWithin DEF evalVars
<1> QED
  BY <1>1, <1>2, <1>3, <1>4, <1>5, <1>6, <1>7, <1>8, <1>9, <1>10 DEF EvalNext

LEMMA SuiteAlways == EvalSpec => []SuiteInv
<1>1. EvalInit => SuiteInv
  <2> SUFFICES ASSUME EvalInit
               PROVE  SuiteInv
    OBVIOUS
  <2>1. EvalTypeOK
    BY InitTyped
  <2>2. /\ stage = "idle" /\ results = <<>> /\ run = 0 /\ exit = "none"
        /\ suiteReport.of = 0 /\ ~suiteReport.ran
    BY DEF EvalInit
  <2>3. EvalsDone = {}
    BY <2>2 DEF EvalsDone
  <2> QED
    BY <2>1, <2>2, <2>3 DEF SuiteInv, ReportsInv, SuiteReportFounded, Names
<1>2. SuiteInv /\ [EvalNext]_evalVars => SuiteInv'
  BY NextTyped, NextReports DEF SuiteInv
<1> QED
  BY <1>1, <1>2, PTL DEF EvalSpec

\* Whatever ends a run between two of its reports, the report of the suite that says an eval
\* has run finds that eval's report beside it, or a newer one: never an older.
THEOREM SuiteReportsFounded == EvalSpec => []SuiteReportFounded
<1>1. SuiteInv => SuiteReportFounded
  BY DEF SuiteInv, ReportsInv
<1> QED
  BY <1>1, SuiteAlways, PTL

\* The exit code 0 is given only for reports that this run has written, of all cases of the
\* datasets, that meet every threshold: the gate cannot be opened by the reports of an
\* earlier run, or by a run in which an eval did not take place.
THEOREM GateHonestly == EvalSpec => []GateHonest
<1>1. SuiteInv => GateHonest
  <2> SUFFICES ASSUME SuiteInv, exit = "0"
               PROVE  /\ suiteReport.of = run /\ suiteReport.passed
                      /\ \A k \in Names : report[k].of = run
                                          /\ Len(report[k].cases) = Len(Cases[k])
                      /\ ~Below(Hits(report.rag.cases), Len(RagCases), MinDocuments)
                      /\ ~Below(ChunkHits(report.rag.cases),
                                Cardinality(ChunkCases(report.rag.cases)), MinChunks)
                      /\ ~Below(Hits(report.chat.cases), Len(ChatCases), MinChat)
                      /\ ~Below(Hits(report.memory.cases), Len(MemoryCases), MinMemory)
    BY DEF GateHonest
  <2>1. /\ suiteReport.of = run /\ suiteReport.passed
        /\ \A k \in Names : Own(k)
        /\ FailureReasons = {}
    BY DEF SuiteInv, ReportsInv
  <2>2. ASSUME NEW k \in Names
        PROVE  /\ report[k].of = run /\ report[k].cases = summary[k]
               /\ Len(summary[k]) = Len(Cases[k])
    <3>1. /\ report[k] = [of |-> run, cases |-> summary[k]]
          /\ Len(summary[k]) = Len(Cases[k])
      BY <2>1 DEF Own
    <3> QED
      BY <3>1
  <2>3. /\ report.rag.cases = summary.rag /\ report.chat.cases = summary.chat
        /\ report.memory.cases = summary.memory
        /\ Len(summary["rag"]) = Len(RagCases) /\ Len(summary["chat"]) = Len(ChatCases)
        /\ Len(summary["memory"]) = Len(MemoryCases)
    BY <2>2, CasesAre DEF Names
  <2>4. RateReasons = {}
    BY <2>1 DEF FailureReasons
  <2>5. /\ ~Below(Hits(summary["rag"]), Len(summary["rag"]), MinDocuments)
        /\ ~Below(ChunkHits(summary.rag), Cardinality(ChunkCases(summary.rag)), MinChunks)
        /\ ~Below(Hits(summary["chat"]), Len(summary["chat"]), MinChat)
        /\ ~Below(Hits(summary["memory"]), Len(summary["memory"]), MinMemory)
    BY <2>4 DEF RateReasons
  <2> QED
    BY <2>1, <2>2, <2>3, <2>5
<1> QED
  BY <1>1, SuiteAlways, PTL

-----------------------------------------------------------------------------
(* A memory case that names no message id.                                 *)

\* All of its messages count, whatever ids they get: the summary is due by their number.
LEMMA DueByCount ==
    ASSUME EvalTypeOK, NEW i \in DOMAIN MemoryCases, MemoryCases[i].boundary = 0
    PROVE  SummaryDue(MemoryCases[i]) <=> CountDue(MemoryCases[i])
<1> DEFINE case == MemoryCases[i]
<1>1. /\ case.history \in Nat /\ case.trigger \in Int /\ case.window \in Int
      /\ nextId \in Nat /\ nextId > 0
  BY MemoryCaseTyped DEF EvalTypeOK
<1> HIDE DEF case
<1>2. {n \in nextId .. nextId + case.history + 1 : n > 0} = nextId .. nextId + case.history + 1
  BY <1>1
<1>3. /\ nextId \in Int /\ nextId + case.history + 1 \in Int
      /\ nextId <= nextId + case.history + 1
      /\ (nextId + case.history + 1) - nextId + 1 = case.history + 2
  BY <1>1
<1>4. Cardinality(nextId .. nextId + case.history + 1) = case.history + 2
  BY <1>3, FS_Interval
<1>5. Unsummarised(case) = case.history + 2
  <2>1. case.boundary = 0
    BY DEF case
  <2> QED
    BY <1>2, <1>4, <2>1 DEF Unsummarised
<1>6. SummaryDue(case) <=> CountDue(case)
  BY <1>1, <1>5 DEF SummaryDue, CountDue
<1> QED
  BY <1>6 DEF case

LEMMA KeysSettled ==
    ASSUME EvalTypeOK, NEW i \in DOMAIN MemoryCases, MemoryCases[i].boundary = 0
    PROVE  /\ CallsMade(MemoryCases[i]) = SettledCalls(MemoryCases[i])
           /\ MemoryCases[i].seeds \union Written(MemoryCases[i]) = SettledKeys(MemoryCases[i])
<1>1. CallsMade(MemoryCases[i]) = SettledCalls(MemoryCases[i])
  BY DueByCount DEF CallsMade, SettledCalls
<1> QED
  BY <1>1 DEF Written, SettledKeys

\* Its user has then the rows it has stored, and no others.
LEMMA RowsSettled ==
    ASSUME EvalTypeOK, RowsInv, NEW i \in DOMAIN MemoryCases, MemoryCases[i].boundary = 0
    PROVE  {m \in Left(MemoryCases[i]) : m[1] = MemoryCases[i].user}
              = SettledRows(MemoryCases[i])
<1> DEFINE user == MemoryCases[i].user
<1>1. Left(MemoryCases[i])
        = memories \union {row \in {user} \X SettledKeys(MemoryCases[i]) : user # NoUser}
  BY KeysSettled DEF Left, MemoryUpserted
<1>2. {m \in memories : m[1] = user} \subseteq SettledRows(MemoryCases[i])
  BY DEF RowsInv
<1>3. \A row \in SettledRows(MemoryCases[i]) : row[1] = user
  BY DEF SettledRows
<1>4. SettledRows(MemoryCases[i])
        = {row \in {user} \X SettledKeys(MemoryCases[i]) : user # NoUser}
  BY DEF SettledRows
<1> HIDE DEF user
<1> QED
  BY <1>1, <1>2, <1>3, <1>4 DEF user

LEMMA KeysLeft ==
    ASSUME EvalTypeOK, RowsInv, NEW i \in DOMAIN MemoryCases, MemoryCases[i].boundary = 0
    PROVE  KeysOf(MemoryCases[i].user, Left(MemoryCases[i]))
              = KeysOf(MemoryCases[i].user, SettledRows(MemoryCases[i]))
<1> DEFINE user == MemoryCases[i].user
           rows == Left(MemoryCases[i])
<1>1. {m \in rows : m[1] = user} = SettledRows(MemoryCases[i])
  BY RowsSettled
<1> HIDE DEF user, rows
<1>2. \A k \in Keys : <<user, k>> \in rows <=> <<user, k>> \in SettledRows(MemoryCases[i])
  <2> SUFFICES ASSUME NEW k \in Keys
               PROVE  <<user, k>> \in rows <=> <<user, k>> \in {m \in rows : m[1] = user}
    BY <1>1
  <2>1. <<user, k>>[1] = user
    OBVIOUS
  <2> QED
    BY <2>1
<1>3. KeysOf(user, rows) = KeysOf(user, SettledRows(MemoryCases[i]))
  BY <1>2 DEF KeysOf
<1> QED
  BY <1>3 DEF user, rows

\* Whatever its prompt shows, it is what it would show beside memories of the case alone.
LEMMA ShownOwn ==
    ASSUME EvalTypeOK, RowsInv, NEW i \in DOMAIN MemoryCases, MemoryCases[i].boundary = 0,
           NEW shown \in Shown(MemoryCases[i])
    PROVE  \E keys \in OwnKeys(MemoryCases[i]) : shown \in Seen(MemoryCases[i], keys)
<1> DEFINE case == MemoryCases[i]
           stored == KeysOf(case.user, MemoryUpserted(case.user, case.seeds))
<1>1. CASE ~Remembers(case)
  <2>1. case.seeds \in OwnKeys(case)
    BY DEF OwnKeys
  <2>2. Shown(case) = Seen(case, case.seeds)
    BY <1>1 DEF Shown, Seen
  <2> QED
    BY <2>1, <2>2
<1>2. CASE Remembers(case)
  <2>1. case.user # NoUser /\ case.seeds \subseteq Keys
    BY <1>2, MemoryCaseTyped DEF Remembers
  <2>2. case.seeds \subseteq stored
    BY <2>1 DEF KeysOf, MemoryUpserted
  <2>3. ASSUME NEW k \in stored
        PROVE  k \in case.seeds \union case.writes
    <3>1. <<case.user, k>> \in memories \/ k \in case.seeds
      BY DEF KeysOf, MemoryUpserted
    <3>2. CASE <<case.user, k>> \in memories
      <4>1. <<case.user, k>> \in SettledRows(case)
        BY <3>2 DEF RowsInv
      <4>2. k \in SettledKeys(case)
        BY <4>1 DEF SettledRows
      <4> QED
        BY <4>2 DEF SettledKeys
    <3> QED
      BY <3>1, <3>2
  <2>4. stored \in OwnKeys(case)
    BY <2>2, <2>3 DEF OwnKeys
  <2> QED
    BY <2>4 DEF Shown
<1> QED
  BY <1>1, <1>2

LEMMA FitSettled ==
    ASSUME EvalTypeOK, RowsInv, NEW i \in DOMAIN MemoryCases, Repeatable(MemoryCases[i]),
           NEW shown \in Shown(MemoryCases[i])
    PROVE  <<0, shown>> \in MemoryCases[i].fits <=> SettledFit(MemoryCases[i])
<1> DEFINE case == MemoryCases[i]
<1>1. \A before, later \in OwnKeys(case) : \A s \in Seen(case, before), t \in Seen(case, later) :
          <<0, s>> \in case.fits <=> <<0, t>> \in case.fits
  BY DEF Repeatable, OwnKeys
<1>2. PICK keys \in OwnKeys(case) : shown \in Seen(case, keys)
  BY ShownOwn DEF Repeatable
<1>3. ASSUME <<0, shown>> \in case.fits PROVE SettledFit(case)
  BY <1>2, <1>3 DEF SettledFit
<1>4. ASSUME SettledFit(case) PROVE <<0, shown>> \in case.fits
  <2>1. PICK own \in OwnKeys(case) : \E s \in Seen(case, own) : <<0, s>> \in case.fits
    BY <1>4 DEF SettledFit
  <2>2. PICK s \in Seen(case, own) : <<0, s>> \in case.fits
    BY <2>1
  <2> QED
    BY <1>1, <1>2, <2>2
<1> QED
  BY <1>3, <1>4

LEMMA VerdictSettled ==
    ASSUME EvalTypeOK, RowsInv, NEW i \in DOMAIN MemoryCases, Repeatable(MemoryCases[i]),
           NEW shown \in Shown(MemoryCases[i])
    PROVE  MemoryVerdict(MemoryCases[i], shown) <=> SettledVerdict(MemoryCases[i])
<1> DEFINE case == MemoryCases[i]
<1>1. /\ case.boundary = 0 /\ case.endsAt = 0
      /\ SummaryDue(case) <=> CountDue(case)
      /\ CallsMade(case) = SettledCalls(case)
      /\ KeysOf(case.user, Left(case)) = KeysOf(case.user, SettledRows(case))
      /\ <<0, shown>> \in case.fits <=> SettledFit(case)
  BY DueByCount, KeysSettled, KeysLeft, FitSettled DEF Repeatable
<1> HIDE DEF case
<1>2. Hidden(case) = 0
  BY <1>1 DEF Hidden
<1>3. ~(case.boundary > 0) /\ ~(case.endsAt > 0)
  BY <1>1
<1>4. (case.endsAt > 0 => Boundary(case) = case.endsAt)
  BY <1>3
<1>5. (case.boundary > 0 \/ (SummaryDue(case) /\ case.script >= 2))
        = (CountDue(case) /\ case.script >= 2)
  BY <1>1, <1>3
<1>6. (case.boundary > 0 \/ (SummaryDue(case) /\ case.script >= 2)) \in case.present
        <=> (CountDue(case) /\ case.script >= 2) \in case.present
  BY <1>5
<1>7. MemoryVerdict(case, shown) <=> SettledVerdict(case)
  BY <1>1, <1>2, <1>4, <1>6 DEF MemoryVerdict, SettledVerdict
<1> QED
  BY <1>7 DEF case

\* Rows that a case adds are its user's, and among those it settles with.
LEMMA RowsMore ==
    ASSUME OwnUsers, RowsInv, NEW j \in DOMAIN MemoryCases, NEW keys,
           memories' = MemoryUpserted(MemoryCases[j].user, keys),
           MemoryCases[j].boundary = 0 => keys \subseteq SettledKeys(MemoryCases[j])
    PROVE  RowsInv'
<1> SUFFICES ASSUME NEW i \in DOMAIN MemoryCases, MemoryCases[i].boundary = 0,
                    NEW m \in memories', m[1] = MemoryCases[i].user
             PROVE  m \in SettledRows(MemoryCases[i])
  BY DEF RowsInv, SettledRows, SettledKeys, SettledCalls, CountDue
<1>1. CASE m \in memories
  BY <1>1 DEF RowsInv
<1>2. CASE m \notin memories
  <2>1. m \in {MemoryCases[j].user} \X keys /\ MemoryCases[j].user # NoUser
    BY <1>2 DEF MemoryUpserted
  <2>2. MemoryCases[i].user = MemoryCases[j].user
    BY <2>1
  <2>3. i = j
    BY <2>1, <2>2 DEF OwnUsers
  <2> QED
    BY <2>1, <2>3 DEF SettledRows
<1> QED
  BY <1>1, <1>2

LEMMA RowsSame ==
    ASSUME RowsInv, memories' = memories
    PROVE  RowsInv'
  BY DEF RowsInv, SettledRows, SettledKeys, SettledCalls, CountDue

LEMMA VerdictsSame ==
    ASSUME VerdictsInv, verdicts' = verdicts, usersMissing' = usersMissing
    PROVE  VerdictsInv'
<1>1. \A case : SettledVerdict(case)' <=> SettledVerdict(case)
  BY DEF SettledVerdict, Refused
<1> QED
  BY <1>1 DEF VerdictsInv

LEMMA MemoryCaseStep ==
    ASSUME OwnUsers, RerunInv, MemoryCase
    PROVE  RowsInv' /\ VerdictsInv'
<1> DEFINE case == Next("memory")
<1>1. EvalTypeOK /\ RowsInv /\ VerdictsInv /\ Pending("memory")
  BY DEF RerunInv, MemoryCase
<1>2. PICK j \in DOMAIN MemoryCases : j = Len(results) + 1 /\ case = MemoryCases[j]
  BY <1>1, NextCase
<1>3. usersMissing' = usersMissing
  BY DEF MemoryCase
<1>4. CASE SeedRaises(case)
  <2>1. UNCHANGED <<memories, verdicts>>
    BY <1>4 DEF MemoryCase
  <2> QED
    BY <1>1, <1>3, <2>1, RowsSame, VerdictsSame
<1>5. CASE ~SeedRaises(case)
  <2>1. PICK shown \in Shown(case) :
           /\ memories' = IF Refused(case) THEN memories ELSE Left(case)
           /\ verdicts' = [verdicts EXCEPT ![j] = @ \union {MemoryVerdict(case, shown)}]
    BY <1>2, <1>5 DEF MemoryCase
  <2>2. RowsInv'
    <3>1. CASE Refused(case)
      BY <1>1, <2>1, <3>1, RowsSame
    <3>2. CASE ~Refused(case)
      <4>1. memories' = MemoryUpserted(MemoryCases[j].user,
                                       MemoryCases[j].seeds \union Written(MemoryCases[j]))
        BY <1>2, <2>1, <3>2 DEF Left
      <4>2. MemoryCases[j].boundary = 0 =>
               MemoryCases[j].seeds \union Written(MemoryCases[j])
                  \subseteq SettledKeys(MemoryCases[j])
        BY <1>1, KeysSettled
      <4> QED
        BY <1>1, <4>1, <4>2, RowsMore
    <3> QED
      BY <3>1, <3>2
  <2>3. ASSUME NEW i \in DOMAIN MemoryCases, Repeatable(MemoryCases[i]), NEW v \in verdicts'[i]
        PROVE  v <=> SettledVerdict(MemoryCases[i])'
    <3>1. SettledVerdict(MemoryCases[i])' <=> SettledVerdict(MemoryCases[i])
      BY <1>3 DEF SettledVerdict, SettledFit, Seen, Refused, SettledCalls, CountDue, SettledRows,
                  SettledKeys
    <3>2. verdicts \in [DOMAIN MemoryCases -> SUBSET BOOLEAN]
      BY <1>1 DEF EvalTypeOK
    <3>3. CASE v \in verdicts[i]
      BY <1>1, <2>3, <3>1, <3>3 DEF VerdictsInv
    <3>4. CASE v \notin verdicts[i]
      <4>1. i = j /\ v = MemoryVerdict(MemoryCases[i], shown)
        <5>1. i # j => verdicts'[i] = verdicts[i]
          BY <2>1, <3>2
        <5>2. verdicts'[j] = verdicts[j] \union {MemoryVerdict(case, shown)}
          BY <2>1, <3>2
        <5> QED
          BY <1>2, <2>3, <3>4, <5>1, <5>2
      <4>2. MemoryVerdict(MemoryCases[i], shown) <=> SettledVerdict(MemoryCases[i])
        BY <1>1, <1>2, <2>1, <2>3, <4>1, VerdictSettled
      <4> QED
        BY <3>1, <4>1, <4>2
    <3> QED
      BY <3>3, <3>4
  <2>4. VerdictsInv'
    BY <2>3 DEF VerdictsInv
  <2> QED
    BY <2>2, <2>4
<1> QED
  BY <1>4, <1>5

LEMMA NextRerun == OwnUsers /\ RerunInv /\ [EvalNext]_evalVars => RerunInv'
<1> SUFFICES ASSUME OwnUsers, RerunInv, [EvalNext]_evalVars
             PROVE  RowsInv' /\ VerdictsInv'
  BY NextTyped DEF RerunInv
<1>1. EvalTypeOK /\ RowsInv /\ VerdictsInv
  BY DEF RerunInv
<1>2. CASE MemoryCase
  BY <1>2, MemoryCaseStep
<1>3. CASE \E k \in Names : CaseFails(k)
  <2>1. PICK k \in Names : CaseFails(k)
    BY <1>3
  <2>2. /\ verdicts' = verdicts /\ usersMissing' = usersMissing
        /\ \/ memories' = memories
           \/ k = "memory" /\ \E keys \in SUBSET (Next(k).seeds \union Written(Next(k))) :
                                 memories' = MemoryUpserted(Next(k).user, keys)
    BY <2>1 DEF CaseFails
  <2>3. CASE memories' = memories
    BY <1>1, <2>2, <2>3, RowsSame, VerdictsSame
  <2>4. CASE k = "memory" /\ \E keys \in SUBSET (Next(k).seeds \union Written(Next(k))) :
                                memories' = MemoryUpserted(Next(k).user, keys)
    <3>1. Pending("memory")
      BY <2>1, <2>4 DEF CaseFails
    <3>2. PICK j \in DOMAIN MemoryCases : Next("memory") = MemoryCases[j]
      BY <1>1, <3>1, NextCase
    <3>3. PICK keys \in SUBSET (MemoryCases[j].seeds \union Written(MemoryCases[j])) :
             memories' = MemoryUpserted(MemoryCases[j].user, keys)
      BY <2>4, <3>2
    <3>4. MemoryCases[j].boundary = 0 => keys \subseteq SettledKeys(MemoryCases[j])
      BY <1>1, <3>3, KeysSettled
    <3> QED
      BY <1>1, <2>2, <3>3, <3>4, RowsMore, VerdictsSame
  <2> QED
    BY <2>2, <2>3, <2>4
<1>4. CASE \/ Begin \/ Preflight \/ RagCase \/ ChatCase \/ \E i \in 1 .. 3 : Reports(i)
           \/ Judge \/ RunFails \/ OthersChat \/ \E f \in Files : DocumentChanges(f)
           \/ UNCHANGED evalVars
  <2>1. UNCHANGED <<memories, verdicts, usersMissing>>
    BY <1>4 DEF Begin, Preflight, RagCase, ChatCase, Reports, Judge, RunFails, OthersChat,
                DocumentChanges, evalVars, database
  <2> QED
    BY <1>1, <2>1, RowsSame, VerdictsSame
<1> QED
  BY <1>2, <1>3, <1>4 DEF EvalNext

\* A memory case that names no message id, and whose prompt may show the memories the case
\* itself stores or not, is judged alike by every run against one database in which nothing
\* fails in it, whatever ids others have used up, whatever rows earlier runs have left and
\* wherever they ended, as long as no two cases of the dataset have the same user.
THEOREM RerunsAgree == ASSUME OwnUsers PROVE EvalSpec => []RerunAgrees
<1>1. EvalInit => RerunInv
  <2> SUFFICES ASSUME EvalInit
               PROVE  RowsInv /\ VerdictsInv
    BY InitTyped DEF RerunInv
  <2> QED
    BY DEF EvalInit, RowsInv, VerdictsInv
<1>2. RerunInv /\ [EvalNext]_evalVars => RerunInv'
  BY NextRerun
<1>3. RerunInv => RerunAgrees
  <2> SUFFICES ASSUME RerunInv, NEW i \in DOMAIN MemoryCases,
                      Repeatable(MemoryCases[i])
               PROVE  Cardinality(verdicts[i]) <= 1
    BY DEF RerunAgrees
  <2>1. verdicts[i] \subseteq BOOLEAN
    BY DEF RerunInv, EvalTypeOK
  <2>2. \A v, w \in verdicts[i] : v = w
    <3> SUFFICES ASSUME NEW v \in verdicts[i], NEW w \in verdicts[i]
                 PROVE  v = w
      OBVIOUS
    <3>1. (v <=> SettledVerdict(MemoryCases[i])) /\ (w <=> SettledVerdict(MemoryCases[i]))
      BY DEF RerunInv, VerdictsInv
    <3>2. v \in BOOLEAN /\ w \in BOOLEAN
      BY <2>1
    <3> QED
      BY <3>1, <3>2
  <2>3. CASE verdicts[i] = {}
    BY <2>3, FS_EmptySet
  <2>4. CASE verdicts[i] # {}
    <3>1. PICK v \in verdicts[i] : verdicts[i] = {v}
      BY <2>2, <2>4
    <3>2. Cardinality({v}) = 1
      BY FS_Singleton
    <3> QED
      BY <3>1, <3>2
  <2> QED
    BY <2>3, <2>4
<1> QED
  BY <1>1, <1>2, <1>3, PTL DEF EvalSpec
=============================================================================
