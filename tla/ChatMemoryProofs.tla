-------------------------- MODULE ChatMemoryProofs --------------------------
(***************************************************************************)
(* What holds of ChatMemory for every window, trigger and number of        *)
(* requests: its types, and that no refresh swallows the newest messages;  *)
(* and, as long as one request at a time runs, that the summary tells what *)
(* its boundary says, every prompt holds the newest messages and a refresh *)
(* that goes through catches up.                                           *)
(***************************************************************************)
EXTENDS ChatMemory, TLAPS

\* A summary that leaves the newest Window of the stored messages alone.
Fits(s) ==
    /\ \A m \in s.tells : m + Window <= stored
    /\ s.boundary = 0 \/ s.boundary + Window <= stored

\* Every summary a request holds fits, for it was made from a list of the history that
\* can only have grown since; and it is generated only when it is due.
Outside ==
    /\ Fits(row)
    /\ \A r \in Requests :
          /\ history[r] <= stored
          /\ Fits(seen[r])
          /\ Fits(draft[r])
          /\ pc[r] = "generate" => Due(history[r], seen[r])

IInv == TypeOK /\ Outside

\* A conversation without a summary: nothing is told, nothing is behind the boundary.
LEMMA NoSummaryFits ==
    ASSUME stored \in Nat
    PROVE  NoSummary \in Summary /\ Fits(NoSummary)
  BY MemoryAssumption DEF NoSummary, Summary, Fits

\* The summary that is due of a listed history fits what is stored.
LEMMA RefreshedFits ==
    ASSUME stored \in Nat, NEW n \in Nat, n <= stored, NEW s \in Summary, Fits(s), Due(n, s)
    PROVE  Refreshed(n, s) \in Summary /\ Fits(Refreshed(n, s))
<1>1. Window \in Nat /\ Trigger \in Nat
  BY MemoryAssumption
<1>2. s.boundary \in Nat /\ s.tells \subseteq Nat
  BY DEF Summary
<1>3. n - s.boundary > Window
  BY DEF Due
<1>4. n - Window \in Nat /\ (n - Window) + Window <= stored
  BY <1>1, <1>2, <1>3
<1>5. /\ s.boundary + 1 .. n - Window \subseteq Nat
      /\ \A m \in s.boundary + 1 .. n - Window : m + Window <= stored
  BY <1>1, <1>2, <1>4
<1>6. \A m \in s.tells : m + Window <= stored
  BY DEF Fits
<1>7. s.tells \union (s.boundary + 1 .. n - Window) \in SUBSET Nat
  BY <1>2, <1>5
<1>8. \A m \in s.tells \union (s.boundary + 1 .. n - Window) : m + Window <= stored
  BY <1>5, <1>6
<1> QED
  BY <1>4, <1>7, <1>8 DEF Refreshed, Summary, Fits

\* The invariant holds at the start.
LEMMA InitIInv == Init => IInv
<1> SUFFICES ASSUME Init PROVE IInv
  OBVIOUS
<1>1. stored \in Nat
  BY MemoryAssumption DEF Init
<1>2. TypeOK
  BY <1>1, NoSummaryFits DEF Init, TypeOK, Pc, Prompt, NoPrompt
<1>3. Outside
  BY <1>1, NoSummaryFits DEF Init, Outside
<1> QED
  BY <1>2, <1>3 DEF IInv

\* What ends a request's memory keeps the types and the summaries of the others.
LEMMA EndsKeeps ==
    ASSUME IInv, NEW r \in Requests, NEW p \in EndPc, Ends(r, p), stored' = stored, overlapped' = overlapped,
           row' \in Summary, Fits(row')
    PROVE  IInv'
<1>1. /\ pc' \in [Requests -> Pc]
      /\ history' \in [Requests -> Nat]
      /\ seen' \in [Requests -> Summary]
      /\ draft' \in [Requests -> Summary]
      /\ prompt' \in [Requests -> Prompt]
  BY NoSummaryFits DEF IInv, TypeOK, Ends, Goto, Pc, EndPc, NoPrompt, Prompt
<1>2. TypeOK'
  BY <1>1 DEF IInv, TypeOK
<1>3. ASSUME NEW q \in Requests
      PROVE  (history[q] <= stored /\ Fits(seen[q]) /\ Fits(draft[q])
              /\ (pc[q] = "generate" => Due(history[q], seen[q])))'
  <2>1. CASE q = r
    BY <2>1, NoSummaryFits DEF IInv, TypeOK, Ends, Goto, Fits, EndPc
  <2>2. CASE q # r
    BY <2>2 DEF IInv, TypeOK, Outside, Ends, Goto, Fits, Due
  <2> QED
    BY <2>1, <2>2
<1>4. Outside'
  BY <1>3 DEF Outside, Fits
<1> QED
  BY <1>2, <1>4 DEF IInv

\* What only grows the history and leaves every summary alone keeps them fitting.
LEMMA StoredGrows ==
    ASSUME IInv, NEW n \in Nat, stored' = stored + n, UNCHANGED <<row, seen, draft, history, overlapped>>,
           pc' \in [Requests -> Pc], prompt' \in [Requests -> Prompt],
           \A q \in Requests : pc'[q] = "generate" => pc[q] = "generate"
    PROVE  IInv'
<1>1. TypeOK'
  BY DEF IInv, TypeOK
<1>2. ASSUME NEW s \in Summary, Fits(s)
      PROVE  /\ \A m \in s.tells : m + Window <= stored'
             /\ s.boundary = 0 \/ s.boundary + Window <= stored'
  BY <1>2, MemoryAssumption DEF Fits, Summary, IInv, TypeOK
<1>3. Outside'
  <2>1. Fits(row)'
    BY <1>2 DEF IInv, TypeOK, Outside, Fits
  <2>2. ASSUME NEW q \in Requests
        PROVE  (history[q] <= stored /\ Fits(seen[q]) /\ Fits(draft[q])
                /\ (pc[q] = "generate" => Due(history[q], seen[q])))'
    <3>1. /\ seen[q] \in Summary /\ Fits(seen[q])
          /\ draft[q] \in Summary /\ Fits(draft[q])
      BY DEF IInv, TypeOK, Outside
    <3>2. (Fits(seen[q]) /\ Fits(draft[q]))'
      BY <1>2, <3>1 DEF Fits
    <3>3. (history[q] <= stored)'
      BY DEF IInv, TypeOK, Outside
    <3>4. (pc[q] = "generate" => Due(history[q], seen[q]))'
      BY DEF IInv, Outside, Due
    <3> QED
      BY <3>2, <3>3, <3>4
  <2> QED
    BY <2>1, <2>2 DEF Outside
<1> QED
  BY <1>1, <1>3 DEF IInv

\* Every step keeps the inductive invariant.
LEMMA NextIInv == IInv /\ [Next]_vars => IInv'
<1> SUFFICES ASSUME IInv, [Next]_vars PROVE IInv'
  OBVIOUS
<1> USE DEF IInv, TypeOK
<1>1. ASSUME NEW r \in Requests, Start(r) PROVE IInv'
  BY <1>1 DEF Start, Goto, Pc, WorkingPc, Outside, Fits, Due
<1>2. ASSUME NEW r \in Requests, LoadContext(r), UNCHANGED overlapped PROVE IInv'
  <2>1. prompt' \in [Requests -> Prompt]
    BY <1>2 DEF LoadContext, Prompt
  <2>2. TypeOK'
    BY <1>2, <2>1 DEF LoadContext, Goto, Pc, WorkingPc
  <2>3. Outside'
    BY <1>2 DEF LoadContext, Goto, Outside, Fits, Due
  <2> QED
    BY <2>2, <2>3
<1>3. ASSUME NEW r \in Requests, LoadRecords(r), UNCHANGED overlapped PROVE IInv'
  <2>1. TypeOK'
    BY <1>3 DEF LoadRecords, Goto, Pc, WorkingPc
  <2>2. Outside'
    BY <1>3 DEF LoadRecords, Goto, Outside, Fits, Due
  <2> QED
    BY <2>1, <2>2
<1>4. ASSUME NEW r \in Requests, ReadSummary(r), UNCHANGED overlapped PROVE IInv'
  <2>1. [of |-> history[r], told |-> row.tells, raw |-> RawHistory(history[r], row)] \in Prompt
    <3>1. history[r] \in Nat /\ row.tells \in SUBSET Nat /\ row.boundary \in Nat
      BY DEF Summary
    <3>2. RawHistory(history[r], row) \in SUBSET Nat
      BY <3>1 DEF RawHistory
    <3> QED
      BY <3>1, <3>2 DEF Prompt
  <2>2. TypeOK'
    BY <1>4, <2>1 DEF ReadSummary, Goto, Pc, WorkingPc
  <2>3. Outside'
    BY <1>4 DEF ReadSummary, Goto, Outside, Fits, Due
  <2> QED
    BY <2>2, <2>3
<1>5. ASSUME NEW r \in Requests, MemorySkipped(r), UNCHANGED overlapped PROVE IInv'
  BY <1>5 DEF MemorySkipped, Goto, Pc, WorkingPc, Outside, Fits, Due
<1>6. ASSUME NEW r \in Requests, Persist(r), UNCHANGED overlapped PROVE IInv'
  <2>1. /\ pc' \in [Requests -> Pc]
        /\ prompt' \in [Requests -> Prompt]
        /\ \A q \in Requests : pc'[q] = "generate" => pc[q] = "generate"
    BY <1>6 DEF Persist, Goto, Pc, WorkingPc, NoPrompt, Prompt
  <2> QED
    BY <1>6, <2>1, StoredGrows DEF Persist
<1>7. ASSUME NEW r \in Requests, ListRecords(r), UNCHANGED overlapped PROVE IInv'
  <2>1. CASE stored < Trigger
    BY <1>7, <2>1, EndsKeeps DEF ListRecords, EndPc, Outside
  <2>2. CASE ~ (stored < Trigger)
    <3>1. TypeOK'
      BY <1>7, <2>2 DEF ListRecords, Goto, Pc, WorkingPc
    <3>2. Outside'
      BY <1>7, <2>2 DEF ListRecords, Goto, Outside, Fits, Due
    <3> QED
      BY <3>1, <3>2
  <2> QED
    BY <2>1, <2>2
<1>8. ASSUME NEW r \in Requests, GetSummary(r), UNCHANGED overlapped PROVE IInv'
  <2>1. CASE Due(history[r], row)
    <3>1. TypeOK'
      BY <1>8, <2>1 DEF GetSummary, Goto, Pc, WorkingPc
    <3>2. Outside'
      BY <1>8, <2>1 DEF GetSummary, Goto, Outside, Fits, Due
    <3> QED
      BY <3>1, <3>2
  <2>2. CASE ~ Due(history[r], row)
    BY <1>8, <2>2, EndsKeeps DEF GetSummary, EndPc, Outside
  <2> QED
    BY <2>1, <2>2
<1>9. ASSUME NEW r \in Requests, Generate(r), UNCHANGED overlapped PROVE IInv'
  <2>1. /\ Refreshed(history[r], seen[r]) \in Summary
        /\ Fits(Refreshed(history[r], seen[r]))
    BY <1>9, RefreshedFits DEF Generate, Outside
  <2>2. TypeOK'
    BY <1>9, <2>1 DEF Generate, Goto, Pc, WorkingPc
  <2>3. Outside'
    BY <1>9, <2>1 DEF Generate, Goto, Outside, Fits, Due
  <2> QED
    BY <2>2, <2>3
<1>10. ASSUME NEW r \in Requests, RefreshSkipped(r), UNCHANGED overlapped PROVE IInv'
  BY <1>10, EndsKeeps DEF RefreshSkipped, EndPc, Outside
<1>11. ASSUME NEW r \in Requests, UpsertLoad(r), UNCHANGED overlapped PROVE IInv'
  <2>1. TypeOK'
    BY <1>11 DEF UpsertLoad, Goto, Pc, WorkingPc
  <2>2. Outside'
    BY <1>11 DEF UpsertLoad, Goto, Outside, Fits, Due
  <2> QED
    BY <2>1, <2>2
<1>12. ASSUME NEW r \in Requests, UpsertCommit(r), UNCHANGED overlapped PROVE IInv'
  <2>1. /\ draft[r] \in Summary /\ Fits(draft[r])
        /\ row \in Summary /\ Fits(row)
    BY DEF Outside
  <2>2. /\ [draft[r] EXCEPT !.boundary = row.boundary] \in Summary
        /\ Fits([draft[r] EXCEPT !.boundary = row.boundary])
    BY <2>1 DEF Summary, Fits
  <2>3. row' \in Summary /\ Fits(row')
    BY <1>12, <2>1, <2>2 DEF UpsertCommit
  <2>4. Ends(r, "refreshed") \/ Ends(r, "skipped")
    BY <1>12 DEF UpsertCommit
  <2> QED
    BY <1>12, <2>3, <2>4, EndsKeeps DEF UpsertCommit, EndPc
<1>13. ASSUME NEW r \in Requests, Abandon(r), UNCHANGED overlapped PROVE IInv'
  BY <1>13, EndsKeeps DEF Abandon, EndPc, Outside
<1>14. CASE UNCHANGED vars
  BY <1>14 DEF vars, Outside, Fits, Due
<1> QED
  BY <1>1, <1>2, <1>3, <1>4, <1>5, <1>6, <1>7, <1>8, <1>9, <1>10, <1>11, <1>12, <1>13,
     <1>14 DEF Next, Proceeds

\* The variables of the conversation's memory keep their types.
THEOREM TypeCorrect == Spec => []TypeOK
<1>1. Spec => []IInv
  BY InitIInv, NextIInv, PTL DEF Spec
<1>2. IInv => TypeOK
  BY DEF IInv
<1> QED
  BY <1>1, <1>2, PTL

\* Whatever the window, the trigger and the number of requests that refresh the summary
\* at the same time, skip it or are cut off: the newest messages stay outside it.
THEOREM NewestStayOutside == Spec => []NewestOutside
<1>1. Spec => []IInv
  BY InitIInv, NextIInv, PTL DEF Spec
<1>2. IInv => NewestOutside
  <2> SUFFICES ASSUME IInv, NEW m \in Newest(Window)
               PROVE  m \notin row.tells /\ row.boundary < m
    BY DEF NewestOutside
  <2>1. stored \in Nat /\ row.boundary \in Nat /\ row.tells \subseteq Nat /\ Window \in Nat
    BY MemoryAssumption DEF IInv, TypeOK, Summary
  <2>2. m \in Nat /\ m >= 1 /\ m + Window > stored
    BY <2>1 DEF Newest
  <2>3. Fits(row)
    BY DEF IInv, Outside
  <2> QED
    BY <2>1, <2>2, <2>3 DEF Fits
<1> QED
  BY <1>1, <1>2, PTL
-----------------------------------------------------------------------------
(* One request at a time                                                   *)

\* What the only request at work holds: what it has read is what is there.
Sole(r) ==
    /\ pc[r] \in {"load_records", "read_summary"} =>
          prompt[r].raw = 1 .. stored /\ prompt[r].told = {}
    /\ pc[r] = "read_summary" => history[r] = stored
    /\ pc[r] = "persist" =>
          /\ Newest(Window) \subseteq prompt[r].raw
          /\ prompt[r].told \intersect prompt[r].raw = {}
    /\ pc[r] \in {"generate", "upsert_commit"} => seen[r] = row
    /\ pc[r] \in {"upsert_load", "upsert_commit"} => draft[r].tells = 1 .. draft[r].boundary

Alone ==
    ~ overlapped =>
        /\ row.tells = 1 .. row.boundary
        /\ \A q, r \in Requests : pc[q] \in WorkingPc /\ pc[r] \in WorkingPc => q = r
        /\ \A r \in Requests : Sole(r)

\* The others do not run, so only what the request itself holds is to be shown.
LEMMA SoleSuffices ==
    ASSUME IInv, Alone, ~ overlapped, NEW r \in Requests, pc[r] \in WorkingPc,
           \A q \in Requests : q # r => pc'[q] = pc[q],
           row'.tells = 1 .. row'.boundary, Sole(r)'
    PROVE  Alone'
<1>1. ASSUME NEW q \in Requests, q # r
      PROVE  pc'[q] \notin WorkingPc /\ Sole(q)'
  <2>1. pc'[q] \notin WorkingPc
    BY <1>1 DEF Alone
  <2> QED
    BY <2>1 DEF Sole, WorkingPc
<1> QED
  BY <1>1 DEF Alone

\* A request whose memory ends holds nothing.
LEMMA EndedSole ==
    ASSUME IInv, Alone, ~ overlapped, NEW r \in Requests, pc[r] \in WorkingPc,
           NEW p \in EndPc, Ends(r, p), row'.tells = 1 .. row'.boundary
    PROVE  Alone'
<1>1. pc'[r] = p /\ \A q \in Requests : q # r => pc'[q] = pc[q]
  BY DEF IInv, TypeOK, Ends, Goto
<1>2. Sole(r)'
  BY <1>1 DEF Sole, EndPc
<1> QED
  BY <1>1, <1>2, SoleSuffices

\* A refresh of a truthful summary is truthful: it adds what lies between the boundaries.
LEMMA RefreshedHonest ==
    ASSUME NEW n \in Nat, NEW s \in Summary, s.tells = 1 .. s.boundary, Due(n, s)
    PROVE  Refreshed(n, s).tells = 1 .. Refreshed(n, s).boundary
<1>1. Window \in Nat /\ s.boundary \in Nat /\ n - s.boundary > Window
  BY MemoryAssumption DEF Due, Summary
<1>2. (1 .. s.boundary) \union (s.boundary + 1 .. n - Window) = 1 .. n - Window
  BY <1>1
<1> QED
  BY <1>2 DEF Refreshed

\* A request that is alone keeps to what it read, action by action.
LEMMA ProceedsAlone ==
    ASSUME IInv, NewestOutside, Alone, ~ overlapped, NEW r \in Requests, Proceeds(r)
    PROVE  Alone'
<1>a. row.tells = 1 .. row.boundary /\ Sole(r)
  BY DEF Alone
<1>b. /\ stored \in Nat /\ Window \in Nat /\ row \in Summary /\ row.boundary \in Nat
      /\ pc \in [Requests -> Pc] /\ history \in [Requests -> Nat] /\ seen \in [Requests -> Summary]
      /\ draft \in [Requests -> Summary] /\ prompt \in [Requests -> Prompt]
  BY MemoryAssumption DEF IInv, TypeOK, Summary
<1>g. \A p : Goto(r, p) => pc'[r] = p /\ \A q \in Requests : q # r => pc'[q] = pc[q]
  BY <1>b DEF Goto
<1>w. \A p \in {"load_context", "load_records", "read_summary", "persist", "list_records",
                "get_summary", "generate", "upsert_load", "upsert_commit"} : p \in WorkingPc
  BY DEF WorkingPc
<1>e. {"refreshed", "skipped", "failed"} = EndPc
  BY DEF EndPc
<1>1. CASE LoadContext(r)
  <2>1. prompt'[r] = [of |-> stored, told |-> {}, raw |-> 1 .. stored]
    BY <1>1, <1>b DEF LoadContext
  <2>2. Sole(r)'
    BY <1>1, <1>g, <2>1 DEF LoadContext, Sole
  <2> QED
    BY <1>1, <1>a, <1>g, <1>w, <2>2, SoleSuffices DEF LoadContext
<1>2. CASE LoadRecords(r)
  <2>1. Sole(r)'
    BY <1>2, <1>a, <1>b, <1>g DEF LoadRecords, Sole
  <2> QED
    BY <1>2, <1>a, <1>g, <1>w, <2>1, SoleSuffices DEF LoadRecords
<1>3. CASE ReadSummary(r)
  <2>1. history[r] = stored
    BY <1>3, <1>a DEF ReadSummary, Sole
  <2>2. prompt'[r] = [of |-> stored, told |-> row.tells, raw |-> RawHistory(stored, row)]
    BY <1>3, <1>b, <2>1 DEF ReadSummary
  <2>3. ASSUME NEW m \in Newest(Window)
        PROVE  m \in RawHistory(stored, row)
    <3>1. m \in 1 .. stored /\ m + Window > stored
      BY DEF Newest
    <3>2. row.boundary < m
      BY DEF NewestOutside
    <3>3. m \in row.boundary + 1 .. stored
      BY <1>b, <3>1, <3>2
    <3> QED
      BY <3>1, <3>3 DEF RawHistory
  <2>4. row.tells \intersect RawHistory(stored, row) = {}
    <3>1. RawHistory(stored, row) \subseteq row.boundary + 1 .. stored
      BY DEF RawHistory
    <3> QED
      BY <1>a, <1>b, <3>1
  <2>5. Newest(Window)' = Newest(Window)
    BY <1>3 DEF ReadSummary, Newest
  <2>6. /\ Newest(Window)' \subseteq prompt'[r].raw
        /\ prompt'[r].told \intersect prompt'[r].raw = {}
    BY <2>2, <2>3, <2>4, <2>5
  <2>7. Sole(r)'
    BY <1>3, <1>g, <2>6 DEF ReadSummary, Sole
  <2> QED
    BY <1>3, <1>a, <1>g, <1>w, <2>7, SoleSuffices DEF ReadSummary
<1>4. CASE MemorySkipped(r)
  <2>1. prompt[r].raw = 1 .. stored /\ prompt[r].told = {}
    BY <1>4, <1>a DEF MemorySkipped, Sole
  <2>2. Newest(Window)' = Newest(Window) /\ Newest(Window) \subseteq 1 .. stored
    BY <1>4 DEF MemorySkipped, Newest
  <2>3. Sole(r)'
    BY <1>4, <1>g, <2>1, <2>2 DEF MemorySkipped, Sole
  <2> QED
    BY <1>4, <1>a, <1>g, <1>w, <2>3, SoleSuffices DEF MemorySkipped
<1>5. CASE Persist(r)
  <2>1. Sole(r)'
    BY <1>5, <1>g DEF Persist, Sole
  <2> QED
    BY <1>5, <1>a, <1>g, <1>w, <2>1, SoleSuffices DEF Persist
<1>6. CASE ListRecords(r)
  <2>1. CASE stored < Trigger
    BY <1>6, <1>a, <1>e, <1>w, <2>1, EndedSole DEF ListRecords
  <2>2. CASE ~ (stored < Trigger)
    <3>1. Sole(r)'
      BY <1>6, <1>g, <2>2 DEF ListRecords, Sole
    <3> QED
      BY <1>6, <1>a, <1>g, <1>w, <2>2, <3>1, SoleSuffices DEF ListRecords
  <2> QED
    BY <2>1, <2>2
<1>7. CASE GetSummary(r)
  <2>1. CASE Due(history[r], row)
    <3>1. Sole(r)'
      BY <1>7, <1>b, <1>g, <2>1 DEF GetSummary, Sole
    <3> QED
      BY <1>7, <1>a, <1>g, <1>w, <2>1, <3>1, SoleSuffices DEF GetSummary
  <2>2. CASE ~ Due(history[r], row)
    BY <1>7, <1>a, <1>e, <1>w, <2>2, EndedSole DEF GetSummary
  <2> QED
    BY <2>1, <2>2
<1>8. CASE Generate(r)
  <2>1. seen[r] = row /\ Due(history[r], seen[r])
    BY <1>8, <1>a DEF Generate, Sole, IInv, Outside
  <2>2. draft'[r] = Refreshed(history[r], row) /\ Due(history[r], row)
    BY <1>8, <1>b, <2>1 DEF Generate
  <2>3. draft'[r].tells = 1 .. draft'[r].boundary
    BY <1>a, <1>b, <2>2, RefreshedHonest
  <2>4. Sole(r)'
    BY <1>8, <1>g, <2>3 DEF Generate, Sole
  <2> QED
    BY <1>8, <1>a, <1>g, <1>w, <2>4, SoleSuffices DEF Generate
<1>9. CASE RefreshSkipped(r)
  BY <1>9, <1>a, <1>e, <1>w, EndedSole DEF RefreshSkipped
<1>10. CASE UpsertLoad(r)
  <2>1. Sole(r)'
    BY <1>10, <1>a, <1>b, <1>g DEF UpsertLoad, Sole
  <2> QED
    BY <1>10, <1>a, <1>g, <1>w, <2>1, SoleSuffices DEF UpsertLoad
<1>11. CASE UpsertCommit(r)
  <2>1. seen[r] = row /\ draft[r].tells = 1 .. draft[r].boundary /\ draft[r] \in Summary
    BY <1>11, <1>a, <1>b DEF UpsertCommit, Sole
  <2>2. row'.tells = 1 .. row'.boundary
    <3>1. CASE draft[r].boundary = row.boundary
      <4>1. [draft[r] EXCEPT !.boundary = row.boundary].tells = draft[r].tells
              /\ [draft[r] EXCEPT !.boundary = row.boundary].boundary = row.boundary
        BY <2>1 DEF Summary
      <4> QED
        BY <1>11, <1>a, <2>1, <3>1, <4>1 DEF UpsertCommit
    <3>2. CASE draft[r].boundary # row.boundary
      BY <1>11, <1>a, <2>1, <3>2 DEF UpsertCommit
    <3> QED
      BY <3>1, <3>2
  <2>3. Ends(r, "refreshed") \/ Ends(r, "skipped")
    BY <1>11 DEF UpsertCommit
  <2> QED
    BY <1>11, <1>e, <1>w, <2>2, <2>3, EndedSole DEF UpsertCommit
<1>12. CASE Abandon(r)
  BY <1>12, <1>a, <1>e, EndedSole DEF Abandon
<1> QED
  BY <1>1, <1>2, <1>3, <1>4, <1>5, <1>6, <1>7, <1>8, <1>9, <1>10, <1>11, <1>12 DEF Proceeds

\* Nobody has begun.
LEMMA InitAlone == Init => Alone
<1> SUFFICES ASSUME Init PROVE Alone
  OBVIOUS
<1>1. row.tells = {} /\ row.boundary = 0
  BY DEF Init, NoSummary
<1>2. row.tells = 1 .. row.boundary
  BY <1>1
<1>3. \A r \in Requests : pc[r] = "new"
  BY DEF Init
<1> QED
  BY <1>2, <1>3 DEF Alone, Sole, WorkingPc

\* A step is that of the one request that works, its start, or makes two overlap.
LEMMA NextAlone == IInv /\ NewestOutside /\ Alone /\ [Next]_vars => Alone'
<1> SUFFICES ASSUME IInv, NewestOutside, Alone, [Next]_vars, ~ overlapped'
             PROVE  Alone'
  BY DEF Alone
<1>1. CASE UNCHANGED vars
  BY <1>1 DEF vars, Alone, Sole, Newest
<1>2. ASSUME NEW r \in Requests, Start(r)
      PROVE  Alone'
  <2>1. ~ overlapped /\ \A q \in Requests : pc[q] \notin WorkingPc
    BY <1>2 DEF Start
  <2>2. pc'[r] = "load_context" /\ \A q \in Requests : q # r => pc'[q] = pc[q]
    BY <1>2 DEF Start, Goto, IInv, TypeOK
  <2>3. row' = row /\ row.tells = 1 .. row.boundary
    BY <1>2, <2>1 DEF Start, Alone
  <2>4. \A q \in Requests : Sole(q)'
    BY <2>1, <2>2 DEF Sole, WorkingPc
  <2> QED
    BY <2>1, <2>2, <2>3, <2>4 DEF Alone
<1>3. ASSUME NEW r \in Requests, Proceeds(r), UNCHANGED overlapped
      PROVE  Alone'
  BY <1>3, ProceedsAlone
<1> QED
  BY <1>1, <1>2, <1>3 DEF Next

\* As long as no two requests overlap, the one at work has read what is still there.
THEOREM AloneAlways == Spec => []Alone
<1>1. IInv /\ [Next]_vars => IInv'
  BY NextIInv
<1>2. Spec => []NewestOutside
  BY NewestStayOutside
<1> QED
  BY <1>1, <1>2, InitIInv, InitAlone, NextAlone, PTL DEF Spec

\* As long as one request at a time runs, the summary tells every message up to its
\* boundary, whatever refresh was skipped or cut off before.
THEOREM HonestSummary == Spec => []SummaryHonest
<1>1. Alone => SummaryHonest
  BY DEF Alone, SummaryHonest
<1> QED
  BY <1>1, AloneAlways, PTL

\* As long as one request at a time runs, every prompt holds the newest messages raw and
\* repeats none that the summary tells.
THEOREM NewestInPrompt == Spec => []PromptNewest
<1>1. Alone => PromptNewest
  BY DEF Alone, Sole, PromptNewest
<1> QED
  BY <1>1, AloneAlways, PTL

-----------------------------------------------------------------------------
(* A refresh catches up                                                    *)

\* What the only request at work refreshes from: the whole stored history.
Listed(r) ==
    /\ pc[r] \in {"get_summary", "generate", "upsert_load", "upsert_commit"} =>
          history[r] = stored
    /\ pc[r] \in {"upsert_load", "upsert_commit"} => draft[r].boundary = stored - Window

UpToDate == ~ overlapped => \A r \in Requests : Listed(r)

\* The request that steps is the only one at work: the others have nothing to list.
LEMMA ListedSuffices ==
    ASSUME IInv, Alone, ~ overlapped, NEW r \in Requests, pc[r] \in WorkingPc,
           NEW p \in Pc, Goto(r, p), Listed(r)'
    PROVE  UpToDate'
<1>1. ASSUME NEW q \in Requests, q # r
      PROVE  pc'[q] \notin WorkingPc
  BY <1>1 DEF Alone, Goto, IInv, TypeOK
<1>2. \A q \in Requests : q # r => Listed(q)'
  BY <1>1 DEF Listed, WorkingPc
<1> QED
  BY <1>2 DEF UpToDate

\* Action by action: the list is taken after the exchange is stored, and the boundary of
\* the draft is set from it.
LEMMA ProceedsUpToDate ==
    ASSUME IInv, Alone, UpToDate, ~ overlapped, NEW r \in Requests, Proceeds(r)
    PROVE  UpToDate'
<1>a. Listed(r)
  BY DEF UpToDate
<1>b. /\ pc \in [Requests -> Pc] /\ history \in [Requests -> Nat]
      /\ draft \in [Requests -> Summary] /\ stored \in Nat
  BY DEF IInv, TypeOK
<1>g. \A p : Goto(r, p) => pc'[r] = p
  BY <1>b DEF Goto
<1>p. WorkingPc \subseteq Pc /\ EndPc \subseteq Pc
  BY DEF Pc
<1>e. ASSUME NEW p \in EndPc, Ends(r, p), pc[r] \in WorkingPc
      PROVE  UpToDate'
  <2>1. Goto(r, p) /\ pc'[r] = p
    BY <1>e, <1>g DEF Ends
  <2>2. Listed(r)'
    BY <2>1 DEF Listed, EndPc
  <2> QED
    BY <1>e, <1>p, <2>1, <2>2, ListedSuffices
<1>1. CASE LoadContext(r) \/ LoadRecords(r) \/ ReadSummary(r) \/ MemorySkipped(r) \/ Persist(r)
  <2>1. PICK p \in {"load_records", "read_summary", "persist", "list_records"} : Goto(r, p)
    BY <1>1 DEF LoadContext, LoadRecords, ReadSummary, MemorySkipped, Persist
  <2>2. pc[r] \in WorkingPc /\ p \in Pc
    BY <1>1, <1>p DEF LoadContext, LoadRecords, ReadSummary, MemorySkipped, Persist, WorkingPc
  <2>3. Listed(r)'
    BY <2>1, <1>g DEF Listed
  <2> QED
    BY <2>1, <2>2, <2>3, ListedSuffices
<1>2. CASE ListRecords(r)
  <2>1. CASE stored < Trigger
    BY <1>2, <1>e, <2>1 DEF ListRecords, WorkingPc, EndPc
  <2>2. CASE ~ (stored < Trigger)
    <3>1. Goto(r, "get_summary") /\ history'[r] = stored /\ stored' = stored
      BY <1>2, <1>b, <2>2 DEF ListRecords
    <3>2. Listed(r)'
      BY <3>1, <1>g DEF Listed
    <3> QED
      BY <1>2, <1>p, <3>1, <3>2, ListedSuffices DEF ListRecords, WorkingPc
  <2> QED
    BY <2>1, <2>2
<1>3. CASE GetSummary(r)
  <2>1. CASE Due(history[r], row)
    <3>1. Goto(r, "generate") /\ history' = history /\ stored' = stored
      BY <1>3, <2>1 DEF GetSummary
    <3>2. Listed(r)'
      BY <3>1, <1>3, <1>a, <1>g DEF Listed, GetSummary
    <3> QED
      BY <1>3, <1>p, <3>1, <3>2, ListedSuffices DEF GetSummary, WorkingPc
  <2>2. CASE ~ Due(history[r], row)
    BY <1>3, <1>e, <2>2 DEF GetSummary, WorkingPc, EndPc
  <2> QED
    BY <2>1, <2>2
<1>4. CASE Generate(r)
  <2>1. /\ Goto(r, "upsert_load") /\ history' = history /\ stored' = stored
        /\ draft'[r] = Refreshed(history[r], seen[r])
    BY <1>4, <1>b DEF Generate
  <2>2. draft'[r].boundary = stored - Window /\ history[r] = stored
    BY <1>4, <1>a, <2>1 DEF Generate, Refreshed, Listed
  <2>3. Listed(r)'
    BY <2>1, <2>2, <1>g DEF Listed
  <2> QED
    BY <1>4, <1>p, <2>1, <2>3, ListedSuffices DEF Generate, WorkingPc
<1>5. CASE RefreshSkipped(r)
  BY <1>5, <1>e DEF RefreshSkipped, WorkingPc, EndPc
<1>6. CASE UpsertLoad(r)
  <2>1. Goto(r, "upsert_commit") /\ UNCHANGED <<history, stored, draft>>
    BY <1>6 DEF UpsertLoad
  <2>2. Listed(r)'
    BY <1>6, <1>a, <2>1, <1>g DEF Listed, UpsertLoad
  <2> QED
    BY <1>6, <1>p, <2>1, <2>2, ListedSuffices DEF UpsertLoad, WorkingPc
<1>7. CASE UpsertCommit(r)
  <2>1. Ends(r, "refreshed") \/ Ends(r, "skipped")
    BY <1>7 DEF UpsertCommit
  <2> QED
    BY <1>7, <1>e, <2>1 DEF UpsertCommit, WorkingPc, EndPc
<1>8. CASE Abandon(r)
  BY <1>8, <1>e DEF Abandon, EndPc
<1> QED
  BY <1>1, <1>2, <1>3, <1>4, <1>5, <1>6, <1>7, <1>8 DEF Proceeds

\* Every step of one request at a time keeps it so.
LEMMA NextUpToDate == IInv /\ Alone /\ UpToDate /\ [Next]_vars => UpToDate'
<1> SUFFICES ASSUME IInv, Alone, UpToDate, [Next]_vars, ~ overlapped'
             PROVE  UpToDate'
  BY DEF UpToDate
<1>1. CASE UNCHANGED vars
  BY <1>1 DEF vars, UpToDate, Listed
<1>2. ASSUME NEW r \in Requests, Start(r)
      PROVE  UpToDate'
  <2>1. ~ overlapped /\ UNCHANGED <<stored, history, draft>>
    BY <1>2 DEF Start
  <2>2. pc'[r] = "load_context" /\ \A q \in Requests : q # r => pc'[q] = pc[q]
    BY <1>2 DEF Start, Goto, IInv, TypeOK
  <2> QED
    BY <2>1, <2>2 DEF UpToDate, Listed
<1>3. ASSUME NEW r \in Requests, Proceeds(r), UNCHANGED overlapped
      PROVE  UpToDate'
  BY <1>3, ProceedsUpToDate
<1> QED
  BY <1>1, <1>2, <1>3 DEF Next

\* The steps on which a refresh goes through, and what each leaves unsummarised.
LEMMA RefreshedCaughtUp ==
    ASSUME IInv, Alone, UpToDate, ~ overlapped, [Next]_vars,
           NEW r \in Requests, pc[r] # "refreshed", pc'[r] = "refreshed"
    PROVE  \/ stored' - row'.boundary < Trigger
           \/ stored' - row'.boundary <= Window
           \/ Window = 0
<1>a. /\ stored \in Nat /\ Window \in Nat /\ Trigger \in Nat /\ row \in Summary
      /\ row.boundary \in Nat /\ pc \in [Requests -> Pc]
  BY MemoryAssumption DEF IInv, TypeOK, Summary
<1>b. draft[r] \in Summary /\ Listed(r) /\ Sole(r)
  BY DEF IInv, TypeOK, UpToDate, Alone
<1>g. \A q \in Requests : \A p : Goto(q, p) => pc'[q] = p /\ (q # r => pc'[r] = pc[r])
  BY <1>a DEF Goto
<1>1. ListRecords(r) \/ GetSummary(r) \/ UpsertCommit(r)
  <2>1. PICK q \in Requests : Start(q) \/ Proceeds(q)
    BY DEF Next, vars
  <2>2. PICK p : Goto(q, p)
    BY <2>1 DEF Start, Proceeds, LoadContext, LoadRecords, ReadSummary, MemorySkipped, Persist,
                ListRecords, GetSummary, Generate, RefreshSkipped, UpsertLoad, UpsertCommit,
                Abandon, Ends
  <2>3. q = r
    BY <2>2, <1>g
  <2>4. /\ ~ Goto(r, "load_context") /\ ~ Goto(r, "load_records") /\ ~ Goto(r, "read_summary")
        /\ ~ Goto(r, "persist") /\ ~ Goto(r, "list_records") /\ ~ Goto(r, "upsert_load")
        /\ ~ Goto(r, "upsert_commit") /\ ~ Goto(r, "skipped") /\ ~ Goto(r, "failed")
    BY <1>g
  <2> QED
    BY <2>1, <2>3, <2>4 DEF Start, Proceeds, LoadContext, LoadRecords, ReadSummary, MemorySkipped,
                            Persist, Generate, RefreshSkipped, UpsertLoad, Abandon, Ends
<1>2. CASE ListRecords(r)
  <2>1. ~ Goto(r, "get_summary")
    BY <1>g
  <2>2. stored < Trigger /\ stored' = stored /\ row' = row
    BY <1>2, <2>1 DEF ListRecords
  <2> QED
    BY <1>a, <2>2
<1>3. CASE GetSummary(r)
  <2>1. ~ Goto(r, "generate")
    BY <1>g
  <2>2. ~ Due(stored, row) /\ stored' = stored /\ row' = row
    BY <1>3, <2>1, <1>b DEF GetSummary, Listed
  <2> QED
    BY <1>a, <2>2 DEF Due
<1>4. CASE UpsertCommit(r)
  <2>1. /\ draft[r].boundary = stored - Window /\ seen[r] = row /\ stored' = stored
    BY <1>4, <1>b DEF UpsertCommit, Listed, Sole
  <2>2. ~ Ends(r, "skipped")
    BY <1>g DEF Ends
  <2>3. row'.boundary = draft[r].boundary
    <3>1. CASE row.exists /\ draft[r].boundary = row.boundary
      <4>1. row' = [draft[r] EXCEPT !.boundary = row.boundary]
        BY <1>4, <2>1, <3>1 DEF UpsertCommit
      <4>2. [draft[r] EXCEPT !.boundary = row.boundary].boundary = row.boundary
        BY <1>b DEF Summary
      <4> QED
        BY <3>1, <4>1, <4>2
    <3>2. CASE row.exists /\ draft[r].boundary # row.boundary
      BY <1>4, <2>1, <3>2 DEF UpsertCommit
    <3>3. CASE ~ row.exists
      BY <1>4, <2>1, <3>3 DEF UpsertCommit
    <3> QED
      BY <3>1, <3>2, <3>3
  <2> QED
    BY <1>a, <2>1, <2>3
<1> QED
  BY <1>1, <1>2, <1>3, <1>4

\* As long as one request at a time runs, a refresh that goes through leaves fewer
\* unsummarised messages than the trigger, or no more than the window, however many
\* refreshes were skipped or cut off before.
THEOREM CatchesUpAtOnce == Spec => RefreshCatchesUp
<1>1. Init => UpToDate
  BY DEF Init, UpToDate, Listed
<1>2. ASSUME IInv, Alone, UpToDate, [Next]_vars
      PROVE  [~ overlapped => \A r \in Requests : pc[r] # "refreshed" /\ pc'[r] = "refreshed" =>
                 \/ stored' - row'.boundary < Trigger
                 \/ stored' - row'.boundary <= Window
                 \/ Window = 0]_vars
  BY <1>2, RefreshedCaughtUp
<1>3. IInv /\ [Next]_vars => IInv'
  BY NextIInv
<1> QED
  BY <1>1, <1>2, <1>3, InitIInv, NextUpToDate, AloneAlways, PTL DEF Spec, RefreshCatchesUp
=============================================================================
