----------------------------- MODULE Retrieval -----------------------------
(***************************************************************************)
(* DocumentRetriever.retrieve_chunks: one search of the knowledge base.    *)
(* The candidates the database ranks are put in the order a model answers, *)
(* when that is enabled, and the chunks of the prompt are chosen from      *)
(* them.  One step is one call of a provider or the database, or one turn  *)
(* of a loop.  A score, and a relevance, is a small number.                *)
(***************************************************************************)
EXTENDS Integers, Sequences, FiniteSets, SequencesExt

CONSTANTS
    Chunks,              \* the stored chunks, each a document and an index
    TopK,                \* retrieval_top_k, or the top_k of the search tool
    MinScore,            \* retrieval_min_score
    MaxPerDocument,      \* retrieval_max_chunks_per_document, or the tool's top_k
    CandidateLimit,      \* retrieval_candidate_limit
    RerankEnabled,       \* retrieval_rerank_enabled
    MaxScore,            \* bound: scores are 0 .. MaxScore
    MaxRelevance,        \* bound: relevances are 0 .. MaxRelevance
    MaxRankings          \* bound: how many items an answer of the model has

ASSUME RetrievalAssumption ==
    /\ IsFiniteSet(Chunks)
    /\ TopK \in Int /\ MaxPerDocument \in Int /\ CandidateLimit \in Int
    /\ MinScore \in Nat
    /\ RerankEnabled \in BOOLEAN
    /\ MaxScore \in Nat /\ MaxRelevance \in Nat /\ MaxRankings \in Nat

VARIABLES
    score,        \* how similar each chunk is to the query
    visible,      \* the embedded chunks of the owner's ready documents
    candidates,   \* what the database has answered
    rankings,     \* what the model has answered, sorted
    order,        \* the candidates in the order in which they are considered
    at,           \* the place a loop has reached
    selected,     \* the chunks chosen
    outcome,      \* what _record_retrieval has recorded
    stage

retrievalVars == <<score, visible, candidates, rankings, order, at, selected, outcome, stage>>

DocumentOf(c) == c[1]

-----------------------------------------------------------------------------
Limit == IF TopK > CandidateLimit THEN TopK ELSE CandidateLimit

\* Nothing is searched for a blank query, or where a limit leaves nothing to find.
Skip ==
    /\ stage = "start"
    /\ stage' = "done"
    /\ outcome' = "skipped"
    /\ UNCHANGED <<score, visible, candidates, rankings, order, at, selected>>

EmbedQuery ==
    /\ stage = "start"
    /\ TopK > 0 /\ CandidateLimit > 0 /\ MaxPerDocument > 0
    /\ stage' = "search"
    /\ UNCHANGED <<score, visible, candidates, rankings, order, at, selected, outcome>>

\* The visible chunks from the most similar one on; ties are broken by an id.
Ranked(s) == \A i, j \in 1 .. Len(s) : i < j => score[s[i]] >= score[s[j]]
NoneBetter(s) ==
    \A c \in visible \ ToSet(s) : \A i \in 1 .. Len(s) : score[c] <= score[s[i]]

Search ==
    /\ stage = "search"
    /\ \E s \in SetToAllKPermutations(visible) :
          /\ Len(s) = (IF Cardinality(visible) < Limit THEN Cardinality(visible) ELSE Limit)
          /\ Ranked(s)
          /\ NoneBetter(s)
          /\ candidates' = s
    /\ stage' = "rerank"
    /\ UNCHANGED <<score, visible, rankings, order, at, selected, outcome>>

\* The provider of the embedding, the database, or the model by an error that is not a
\* ChatProviderError.
Fail ==
    /\ \/ stage = "start" /\ TopK > 0 /\ CandidateLimit > 0 /\ MaxPerDocument > 0
       \/ stage = "search"
       \/ stage = "rerank" /\ RerankEnabled /\ Len(candidates) > 1
    /\ stage' = "failed"
    /\ outcome' = "error"
    /\ UNCHANGED <<score, visible, candidates, rankings, order, at, selected>>

\* No reranking, or a failure, a tool call or no JSON in answer: the order stays.
KeepOrder ==
    /\ stage = "rerank"
    /\ order' = candidates
    /\ at' = 1
    /\ stage' = "select"
    /\ UNCHANGED <<score, visible, candidates, rankings, selected, outcome>>

\* Mutant of Sorts: the model is trusted to have sorted its answer.
SortsAsGiven(places, answer) == \A i \in DOMAIN answer : places[i] = i

\* sorted(..., reverse=True), which is stable: the places of the items in their new order.
Sorts(places, answer) ==
    \A i, j \in DOMAIN answer : i < j =>
        LET a == answer[places[i]].relevance
            b == answer[places[j]].relevance
        IN  a > b \/ (a = b /\ places[i] < places[j])

\* The model answers with indexes, which may be repeated, missing or out of range.
Item == [index : -1 .. Cardinality(Chunks), relevance : 0 .. MaxRelevance]

RerankAnswer ==
    /\ stage = "rerank"
    /\ RerankEnabled
    /\ Len(candidates) > 1
    /\ \E n \in 0 .. MaxRankings :
          \E answer \in [1 .. n -> Item], places \in Bijection(1 .. n, 1 .. n) :
             /\ \A i \in 1 .. n : answer[i].index <= Len(candidates)
             /\ Sorts(places, answer)
             /\ rankings' = [i \in 1 .. n |-> answer[places[i]]]
    /\ at' = 1
    /\ stage' = "rank"
    /\ UNCHANGED <<score, visible, candidates, order, selected, outcome>>

Usable(index) ==
    /\ 0 <= index /\ index < Len(candidates)
    /\ \A j \in 1 .. at - 1 : rankings[j].index # index

\* A turn of the loop over the items.
RankItem ==
    /\ stage = "rank"
    /\ at <= Len(rankings)
    /\ order' = IF Usable(rankings[at].index)
                THEN Append(order, candidates[rankings[at].index + 1])
                ELSE order
    /\ at' = at + 1
    /\ UNCHANGED <<score, visible, candidates, rankings, selected, outcome, stage>>

\* A turn of the loop over the candidates: those that no item names follow in the order
\* they had.
RankRest ==
    LET place == at - Len(rankings)
    IN  /\ stage = "rank"
        /\ place \in 1 .. Len(candidates)
        /\ order' = IF \E j \in 1 .. Len(rankings) : rankings[j].index = place - 1
                    THEN order
                    ELSE Append(order, candidates[place])
        /\ at' = at + 1
        /\ UNCHANGED <<score, visible, candidates, rankings, selected, outcome, stage>>

Reranked ==
    /\ stage = "rank"
    /\ at > Len(rankings) + Len(candidates)
    /\ at' = 1
    /\ stage' = "select"
    /\ UNCHANGED <<score, visible, candidates, rankings, order, selected, outcome>>

CountOf(d) == Cardinality({i \in 1 .. Len(selected) : DocumentOf(selected[i]) = d})

\* Mutant of Wanted: one more of each document.
WantedOneMore(c) == score[c] >= MinScore /\ CountOf(DocumentOf(c)) <= MaxPerDocument

Wanted(c) == score[c] >= MinScore /\ CountOf(DocumentOf(c)) < MaxPerDocument

\* One turn of select_retrieved_chunks.
SelectItem ==
    /\ stage = "select"
    /\ at <= Len(order)
    /\ Len(selected) < TopK
    /\ selected' = IF Wanted(order[at]) THEN Append(selected, order[at]) ELSE selected
    /\ at' = at + 1
    /\ UNCHANGED <<score, visible, candidates, rankings, order, outcome, stage>>

Return ==
    /\ stage = "select"
    /\ at > Len(order) \/ Len(selected) >= TopK
    /\ outcome' = IF selected = <<>> THEN "miss" ELSE "hit"
    /\ stage' = "done"
    /\ UNCHANGED <<score, visible, candidates, rankings, order, at, selected>>

RetrievalInit ==
    /\ score \in [Chunks -> 0 .. MaxScore]
    /\ visible \in SUBSET Chunks
    /\ candidates = <<>>
    /\ rankings = <<>>
    /\ order = <<>>
    /\ at = 0
    /\ selected = <<>>
    /\ outcome = "none"
    /\ stage = "start"

RetrievalNext ==
    \/ Skip \/ EmbedQuery \/ Search \/ Fail
    \/ KeepOrder \/ RerankAnswer \/ RankItem \/ RankRest \/ Reranked
    \/ SelectItem \/ Return

RetrievalSpec == RetrievalInit /\ [][RetrievalNext]_retrievalVars

-----------------------------------------------------------------------------
RetrievalTypeOK ==
    /\ score \in [Chunks -> 0 .. MaxScore]
    /\ visible \subseteq Chunks
    /\ candidates \in Seq(Chunks)
    /\ rankings \in Seq(Item)
    /\ at \in Nat
    /\ order \in Seq(Chunks)
    /\ selected \in Seq(Chunks)
    /\ outcome \in {"none", "skipped", "hit", "miss", "error"}
    /\ stage \in {"start", "search", "rerank", "rank", "select", "done", "failed"}

Ordered == stage = "select" \/ outcome \in {"hit", "miss"}

Place(c) == (CHOOSE i \in 1 .. Len(candidates) : candidates[i] = c) - 1
Named(c) == {j \in 1 .. Len(rankings) : rankings[j].index = Place(c)}

\* Every candidate comes once, in the order of the best relevance the answer gives each,
\* however the answer is sorted and whatever it repeats, omits or invents; those it leaves
\* out come last, in the order of the database.
RerankFollowsAnswer ==
    Ordered =>
        /\ ToSet(order) = ToSet(candidates)
        /\ \A p, q \in 1 .. Len(order) : p < q =>
              /\ order[p] # order[q]
              /\ \A k \in Named(order[q]) :
                    \E j \in Named(order[p]) : rankings[j].relevance >= rankings[k].relevance
              /\ Named(order[p]) = {} => Place(order[p]) < Place(order[q])

\* The chunks selected that stand before a place in the order.
SelectedBefore(p) == {order[i] : i \in 1 .. p - 1} \cap ToSet(selected)

\* The chunks returned are the first of the order that may be: each is similar enough, no
\* document has more than its share, and a candidate that is similar enough is left out
\* only because its document had its share, or the prompt was full, before it.
SelectedBest ==
    outcome \in {"hit", "miss"} =>
        \A p \in 1 .. Len(order) :
            order[p] \in ToSet(selected) <=>
                /\ score[order[p]] >= MinScore
                /\ Cardinality({c \in SelectedBefore(p) : DocumentOf(c) = DocumentOf(order[p])})
                      < MaxPerDocument
                /\ Cardinality(SelectedBefore(p)) < TopK
=============================================================================
