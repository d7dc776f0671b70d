-------------------------- MODULE AlgorithmProofs --------------------------
(***************************************************************************)
(* What holds of the sequential algorithms of the documents: of            *)
(* TextChunker for every chunk size, every overlap and every text, and of  *)
(* Retrieval for every set of chunks, every limit, every score and every   *)
(* answer of the model that ranks.                                         *)
(***************************************************************************)
EXTENDS TextChunker, Retrieval, SequenceTheorems, FiniteSetTheorems, TLAPS

-----------------------------------------------------------------------------
(* TextChunker.                                                            *)

\* What the loop knows between two turns of the last chunk it has kept: where the next one
\* may start, and that the text goes on behind it.
LoopInv ==
    Len(chunks) > 0 /\ pc = "cut" =>
        /\ chunks[Len(chunks)].from < start
        /\ chunks[Len(chunks)].to <= start + Overlap
        /\ chunks[Len(chunks)].to < Length

ChunkerInv == ChunkerTypeOK /\ LoopInv /\ InkCovered /\ ChunksInOrder /\ EveryChunkAdds

\* Half a chunk, rounded down and at least one character, is at most a chunk.
LEMMA HalfBounds == Half \in Nat /\ 1 <= Half /\ Half <= ChunkSize
  BY ChunkerAssumption, SMT DEF Half

\* A chunk ends within the text and behind the middle of a chunk, or with the text.
LEMMA ChunkEndBounds ==
    ASSUME ChunkerTypeOK, start < Length, NEW e \in 0 .. Length, ChunkEnd(start, e)
    PROVE  /\ start < e
           /\ e <= start + ChunkSize
           /\ e = Length \/ start + Half <= e
           /\ e = Length \/ start + Half < e \/ e = start + ChunkSize
  <1>1. Length \in Nat /\ start \in Nat
    BY DEF ChunkerTypeOK, Length
  <1>2. EndLimit(start) \in Nat /\ EndLimit(start) <= start + ChunkSize
        /\ EndLimit(start) <= Length /\ start < EndLimit(start)
        /\ (EndLimit(start) = Length \/ EndLimit(start) = start + ChunkSize)
    BY <1>1, ChunkerAssumption DEF EndLimit
  <1>3. ASSUME NEW sep \in {Paragraph, Line, Word}, EndsBehind(sep, start, e)
        PROVE  start + Half < e /\ e <= EndLimit(start)
    <2>1. Len(sep) \in Nat /\ Len(sep) >= 1
      <3>1. sep = <<"break", "break">> \/ sep = <<"break">> \/ sep = <<"space">>
        BY <1>3 DEF Paragraph, Line, Word
      <3>2. Len(<<"break", "break">>) = 2 /\ Len(<<"break">>) = 1 /\ Len(<<"space">>) = 1
        OBVIOUS
      <3> QED
        BY <3>1, <3>2
    <2>2. PICK o \in Splits(sep, start) : e = o + Len(sep)
      BY <1>3 DEF EndsBehind
    <2>3. o \in 0 .. Length /\ start + Half <= o /\ o + Len(sep) <= EndLimit(start)
      BY <2>2 DEF Splits, SplitsAt
    <2> QED
      BY <1>1, <1>2, <2>1, <2>2, <2>3, HalfBounds
  <1>4. \/ e = Length /\ EndLimit(start) = Length
        \/ EndsBehind(Paragraph, start, e)
        \/ EndsBehind(Line, start, e)
        \/ EndsBehind(Word, start, e)
        \/ e = EndLimit(start)
    BY DEF ChunkEnd
  <1> QED
    BY <1>1, <1>2, <1>3, <1>4, HalfBounds, ChunkerAssumption

\* The next chunk starts further on, behind no character that has not been cut, and repeats
\* at most the overlap.
LEMMA NextStartBounds ==
    ASSUME NEW s \in Nat, NEW e \in Nat, s < e
    PROVE  /\ NextStart(s, e) \in Nat
           /\ s < NextStart(s, e)
           /\ NextStart(s, e) <= e
           /\ e <= NextStart(s, e) + Overlap
  BY ChunkerAssumption DEF NextStart

\* An offset below one bound is below a larger one.
LEMMA BelowBound ==
    ASSUME NEW m \in Nat, NEW k \in Nat, k <= m, NEW o \in 0 .. k - 1
    PROVE  o < m
  OBVIOUS

\* The invariant is inductive: one turn of the loop keeps every part of it.
LEMMA ChunkerInvariant == ChunkerSpec => []ChunkerInv
<1>1. ChunkerInit => ChunkerInv
  <2> SUFFICES ASSUME ChunkerInit PROVE ChunkerInv
    OBVIOUS
  <2>1. text \in Seq(Char)
    <3>1. PICK n \in 0 .. MaxLength : text \in [1 .. n -> Char]
      BY DEF ChunkerInit
    <3> QED
      BY <3>1, ChunkerAssumption
  <2>2. Len(chunks) = 0 /\ chunks \in Seq([index : Nat, from : Nat, to : Nat])
    BY DEF ChunkerInit
  <2>3. Length \in Nat
    BY <2>1 DEF Length
  <2> QED
    BY <2>1, <2>2, <2>3 DEF ChunkerInit, ChunkerInv, ChunkerTypeOK, LoopInv, InkCovered, ChunksInOrder, EveryChunkAdds
<1>2. ChunkerInv /\ [ChunkerNext]_chunkerVars => ChunkerInv'
  <2> SUFFICES ASSUME ChunkerInv, [ChunkerNext]_chunkerVars PROVE ChunkerInv'
    OBVIOUS
  <2>1. Length \in Nat /\ start \in Nat /\ start <= Length /\ Overlap \in Nat
    BY ChunkerAssumption DEF ChunkerInv, ChunkerTypeOK, Length
  <2>2. CASE Cut
    <3>1. PICK e \in 0 .. Length :
              /\ ChunkEnd(start, e)
              /\ chunks' = Kept(start, e)
              /\ IF e = Length
                 THEN pc' = "done" /\ UNCHANGED start
                 ELSE start' = NextStart(start, e) /\ UNCHANGED pc
      BY <2>2 DEF Cut
    <3>2. pc = "cut" /\ start < Length /\ text' = text /\ Length' = Length
      BY <2>2 DEF Cut, Length
    <3>3. /\ start < e
          /\ e <= start + ChunkSize
          /\ e = Length \/ start + Half <= e
          /\ e = Length \/ start + Half < e \/ e = start + ChunkSize
      BY <3>1, <3>2, ChunkEndBounds DEF ChunkerInv
    <3>4. e \in Nat /\ e <= Length
      BY <2>1, <3>1
    <3>5. /\ start' \in Nat /\ start <= start' /\ start' <= Length
          /\ pc' = "cut" => start < start' /\ start' <= e /\ e <= start' + Overlap /\ e < Length
          /\ pc' \in {"cut", "done"}
      BY <2>1, <3>1, <3>2, <3>3, <3>4, NextStartBounds
    <3> DEFINE c == [index |-> Len(chunks), from |-> start, to |-> e]
               n == Len(chunks)
    <3>6. chunks \in Seq([index : Nat, from : Nat, to : Nat]) /\ n \in Nat /\ n = Len(chunks)
      BY DEF ChunkerInv, ChunkerTypeOK
    <3>7. c \in [index : Nat, from : Nat, to : Nat] /\ c.index = n /\ c.from = start /\ c.to = e
      BY <2>1, <3>4, <3>6
    <3>8. chunks' \in Seq([index : Nat, from : Nat, to : Nat])
      <4>1. Append(chunks, c) \in Seq([index : Nat, from : Nat, to : Nat])
        BY <3>6, <3>7, AppendProperties
      <4> QED
        BY <3>1, <3>6, <4>1 DEF Kept
    <3>9. /\ \A i \in 1 .. n : chunks[i].from \in Nat /\ chunks[i].to \in Nat
          /\ Len(chunks') \in {n, n + 1}
          /\ \A i \in 1 .. n : chunks'[i] = chunks[i]
          /\ Len(chunks') = n + 1 => chunks'[n + 1] = c
          /\ Len(chunks') = n + 1 \/ \A o \in start .. e - 1 : ~InkAt(o)
      <4>1. ASSUME NEW i \in 1 .. n PROVE chunks[i].from \in Nat /\ chunks[i].to \in Nat
        <5>1. chunks[i] \in [index : Nat, from : Nat, to : Nat]
          BY <3>6, ElementOfSeq
        <5> QED
          BY <5>1
      <4> HIDE DEF c, n
      <4>2. CASE \E o \in start .. e - 1 : InkAt(o)
        <5>1. chunks' = Append(chunks, c)
          BY <3>1, <4>2 DEF Kept, c
        <5> QED
          BY <5>1, <3>6, <3>7, <4>1
      <4>3. CASE ~ \E o \in start .. e - 1 : InkAt(o)
        BY <3>1, <3>6, <4>1, <4>3 DEF Kept
      <4> QED
        BY <4>2, <4>3
    <3> HIDE DEF c, n
    <3>10. n > 0 => /\ chunks[n].from < start
                    /\ chunks[n].to <= start + Overlap
                    /\ chunks[n].to < Length
      BY <3>2 DEF ChunkerInv, LoopInv, n
    <3>11. ChunkerTypeOK'
      BY <3>2, <3>5, <3>8 DEF ChunkerInv, ChunkerTypeOK
    <3>12. LoopInv'
      <4> SUFFICES ASSUME Len(chunks') > 0, pc' = "cut"
                   PROVE  /\ chunks'[Len(chunks')].from < start'
                          /\ chunks'[Len(chunks')].to <= start' + Overlap
                          /\ chunks'[Len(chunks')].to < Length
        BY <3>2 DEF LoopInv
      <4>0. start < start' /\ start' <= e /\ e <= start' + Overlap /\ e < Length
        BY <3>5
      <4>1. CASE Len(chunks') = n + 1
        <5>1. chunks'[Len(chunks')].from = start /\ chunks'[Len(chunks')].to = e
          BY <4>1, <3>7, <3>9
        <5> QED
          BY <5>1, <4>0
      <4>2. CASE Len(chunks') = n
        <5>1. n > 0 /\ n \in 1 .. n
          BY <4>2, <3>6
        <5>2. chunks'[Len(chunks')] = chunks[n] /\ chunks[n].from \in Nat /\ chunks[n].to \in Nat
          BY <5>1, <4>2, <3>9
        <5>3. chunks[n].from < start /\ chunks[n].to <= start + Overlap /\ chunks[n].to < Length
          BY <5>1, <3>10
        <5>4. start \in Nat /\ start' \in Nat /\ Overlap \in Nat /\ Length \in Nat
          BY <2>1, <3>5
        <5>5. chunks[n].from < start' /\ chunks[n].to <= start' + Overlap
          BY <5>2, <5>3, <5>4, <4>0
        <5> QED
          BY <5>2, <5>3, <5>5
      <4> QED
        BY <4>1, <4>2, <3>9
    <3>13. InkCovered'
      <4> SUFFICES ASSUME NEW o \in 0 .. (IF pc' = "done" THEN Length ELSE start') - 1, InkAt(o)
                   PROVE  \E i \in 1 .. Len(chunks') : chunks'[i].from <= o /\ o < chunks'[i].to
        BY <3>2 DEF InkCovered, InkAt
      <4>1. CASE o < start
        <5>1. o \in 0 .. start - 1
          BY <4>1, <2>1, <3>4, <3>5
        <5>2. PICK i \in 1 .. n : chunks[i].from <= o /\ o < chunks[i].to
          BY <5>1, <3>2, <3>6 DEF ChunkerInv, InkCovered
        <5>3. i \in 1 .. Len(chunks') /\ chunks'[i] = chunks[i]
          BY <5>2, <3>6, <3>9
        <5> QED
          BY <5>2, <5>3
      <4>2. CASE start <= o
        <5>1. o < e
          <6>1. CASE pc' = "done"
            BY <6>1, <3>1, <3>2, <3>4, <2>1
          <6>2. CASE pc' = "cut"
            <7>1. start' \in Nat /\ start' <= e
              BY <6>2, <3>5
            <7>2. o \in 0 .. start' - 1
              BY <6>2
            <7> QED
              BY <7>1, <7>2, <3>4, BelowBound
          <6> QED
            BY <6>1, <6>2, <3>5
        <5>2. Len(chunks') = n + 1
          BY <5>1, <4>2, <2>1, <3>4, <3>9
        <5>3. n + 1 \in 1 .. Len(chunks') /\ chunks'[n + 1].from <= o /\ o < chunks'[n + 1].to
          BY <5>1, <5>2, <4>2, <3>6, <3>7, <3>9
        <5> QED
          BY <5>3
      <4> QED
        BY <4>1, <4>2, <2>1, <3>5
    <3>14. ChunksInOrder'
      <4> SUFFICES ASSUME NEW i \in 1 .. Len(chunks')
                   PROVE  /\ chunks'[i].index = i - 1
                          /\ chunks'[i].from < chunks'[i].to
                          /\ chunks'[i].to <= chunks'[i].from + ChunkSize
                          /\ i > 1 => /\ chunks'[i - 1].from < chunks'[i].from
                                      /\ chunks'[i - 1].to <= chunks'[i].from + Overlap
        BY DEF ChunksInOrder
      <4>1. CASE i \in 1 .. n
        <5>1. i \in 1 .. Len(chunks) /\ (i > 1 => i - 1 \in 1 .. n)
          BY <4>1, <3>6
        <5>2. /\ chunks[i].index = i - 1
              /\ chunks[i].from < chunks[i].to
              /\ chunks[i].to <= chunks[i].from + ChunkSize
              /\ i > 1 => /\ chunks[i - 1].from < chunks[i].from
                          /\ chunks[i - 1].to <= chunks[i].from + Overlap
          BY <5>1 DEF ChunkerInv, ChunksInOrder
        <5> QED
          BY <4>1, <5>1, <5>2, <3>9
      <4>2. CASE i = n + 1 /\ Len(chunks') = n + 1
        BY <4>2, <2>1, <3>3, <3>6, <3>7, <3>9, <3>10
      <4> QED
        BY <4>1, <4>2, <3>6, <3>9
    <3>15. EveryChunkAdds'
      <4> SUFFICES ASSUME Overlap <= Half, NEW i \in 2 .. Len(chunks')
                   PROVE  chunks'[i - 1].to < chunks'[i].to
        BY DEF EveryChunkAdds, Half
      <4>1. CASE i \in 2 .. n
        <5>1. i \in 2 .. Len(chunks) /\ i \in 1 .. n /\ i - 1 \in 1 .. n
          BY <4>1, <3>6
        <5>2. chunks[i - 1].to < chunks[i].to
          BY <5>1 DEF ChunkerInv, EveryChunkAdds
        <5> QED
          BY <5>1, <5>2, <3>9
      <4>2. CASE i = n + 1 /\ Len(chunks') = n + 1
        <5>1. n > 0 /\ chunks'[i - 1] = chunks[n] /\ chunks'[i].to = e
          BY <4>2, <3>6, <3>7, <3>9
        <5>2. chunks[n].to \in Nat
          BY <5>1, <3>6, <3>9, SMTT(30)
        <5> QED
          BY <5>1, <5>2, <2>1, <3>3, <3>4, <3>10, HalfBounds, ChunkerAssumption
      <4> QED
        BY <4>1, <4>2, <3>6, <3>9
    <3> QED
      BY <3>11, <3>12, <3>13, <3>14, <3>15 DEF ChunkerInv
  <2>3. CASE Stop
    BY <2>1, <2>3 DEF Stop, ChunkerInv, ChunkerTypeOK, LoopInv, InkCovered, ChunksInOrder, EveryChunkAdds, Length, InkAt
  <2>4. CASE UNCHANGED chunkerVars
    BY <2>4 DEF chunkerVars, ChunkerInv, ChunkerTypeOK, LoopInv, InkCovered, ChunksInOrder, EveryChunkAdds, Length, InkAt
  <2> QED
    BY <2>2, <2>3, <2>4 DEF ChunkerNext
<1> QED
  BY <1>1, <1>2, PTL DEF ChunkerSpec

\* The state of the loop of chunk_text keeps its type.
THEOREM TypeCorrect == ChunkerSpec => []ChunkerTypeOK
<1>1. ChunkerInv => ChunkerTypeOK
  BY DEF ChunkerInv
<1> QED
  BY <1>1, ChunkerInvariant, PTL

\* chunk_text loses no character that can be read, whatever the size, the overlap and the
\* separators.
THEOREM NothingLost == ChunkerSpec => []InkCovered
<1>1. ChunkerInv => InkCovered
  BY DEF ChunkerInv
<1> QED
  BY <1>1, ChunkerInvariant, PTL

\* The chunks of chunk_text are numbered, bounded and in order; up to an overlap of half a
\* chunk, none lies within the one before it.
THEOREM ChunksUseful == ChunkerSpec => [](ChunksInOrder /\ EveryChunkAdds)
<1>1. ChunkerInv => ChunksInOrder /\ EveryChunkAdds
  BY DEF ChunkerInv
<1> QED
  BY <1>1, ChunkerInvariant, PTL

-----------------------------------------------------------------------------
(* Retrieval.                                                              *)

\* What the loop over the answer's items, and then that over the candidates, has done when
\* it has reached at: each candidate stands in the order at most once, one that is named
\* where it is named first, one that is not where the database has put it.
Placed ==
    /\ \A p, q \in 1 .. Len(order) : p < q =>
          /\ order[p] # order[q]
          /\ \A k \in Named(order[q]) : \E j \in Named(order[p]) : j < k
          /\ Named(order[p]) = {} => Place(order[p]) < Place(order[q])
    /\ ToSet(order) \subseteq ToSet(candidates)

Ranking ==
    /\ at >= 1
    /\ \A p \in 1 .. Len(order) :
          \/ \E j \in Named(order[p]) : j < at
          \/ Named(order[p]) = {} /\ Place(order[p]) + 1 < at - Len(rankings)
    /\ \A i \in 1 .. Len(candidates) :
          \/ \E j \in 1 .. Len(rankings) : j < at /\ rankings[j].index = i - 1
          \/ i < at - Len(rankings)
          => candidates[i] \in ToSet(order)

\* What the loop of select_retrieved_chunks has done when it has reached at.
Chosen(p) ==
    /\ score[order[p]] >= MinScore
    /\ Cardinality({c \in SelectedBefore(p) : DocumentOf(c) = DocumentOf(order[p])})
          < MaxPerDocument
    /\ Cardinality(SelectedBefore(p)) < TopK

Selecting ==
    /\ at >= 1
    /\ at <= Len(order) + 1
    /\ \A i, j \in 1 .. Len(selected) : i # j => selected[i] # selected[j]
    /\ \A i \in 1 .. Len(selected) : \E p \in 1 .. at - 1 : selected[i] = order[p]
    /\ \A p \in 1 .. at - 1 : order[p] \in ToSet(selected) <=> Chosen(p)
    /\ Len(selected) <= TopK

SearchInv ==
    /\ RetrievalTypeOK
    /\ \A i, j \in 1 .. Len(candidates) : i # j => candidates[i] # candidates[j]
    /\ \A i, j \in 1 .. Len(rankings) : i < j => rankings[i].relevance >= rankings[j].relevance
    /\ stage \in {"search", "rerank", "rank", "select"} => TopK > 0
    /\ stage \in {"start", "search", "rerank"} => rankings = <<>> /\ order = <<>>
    /\ stage \in {"start", "search", "rerank", "rank"} => selected = <<>>
    /\ stage = "rank" => Placed /\ Ranking
    /\ stage = "select" => Placed /\ ToSet(order) = ToSet(candidates) /\ Selecting
    /\ outcome \in {"hit", "miss"} =>
          /\ stage = "done"
          /\ Placed /\ ToSet(order) = ToSet(candidates) /\ Selecting
          /\ at > Len(order) \/ Len(selected) >= TopK

\* Types.
LEMMA ItemFields == \A item \in Item : item.index \in Int /\ item.relevance \in Nat
  BY RetrievalAssumption DEF Item

LEMMA AppendTo ==
    ASSUME NEW S, NEW s \in Seq(S), NEW x \in S
    PROVE  /\ Append(s, x) \in Seq(S)
           /\ Len(Append(s, x)) = Len(s) + 1
           /\ \A i \in 1 .. Len(s) : Append(s, x)[i] = s[i]
           /\ Append(s, x)[Len(s) + 1] = x
           /\ ToSet(Append(s, x)) = ToSet(s) \union {x}
<1>1. Append(s, x) \in Seq(S) /\ Len(Append(s, x)) = Len(s) + 1
  OBVIOUS
<1>2. /\ \A i \in 1 .. Len(s) : Append(s, x)[i] = s[i]
      /\ Append(s, x)[Len(s) + 1] = x
  OBVIOUS
<1>3. DOMAIN Append(s, x) = 1 .. Len(s) + 1 /\ DOMAIN s = 1 .. Len(s) /\ Len(s) \in Nat
  OBVIOUS
<1>4. 1 .. Len(s) + 1 = (1 .. Len(s)) \union {Len(s) + 1}
  BY <1>3
<1> QED
  BY <1>1, <1>2, <1>3, <1>4 DEF ToSet

\* ToSet of a list, by its places.
LEMMA InToSet ==
    ASSUME NEW S, NEW s \in Seq(S)
    PROVE  /\ ToSet(s) = {s[i] : i \in 1 .. Len(s)}
           /\ \A i \in 1 .. Len(s) : s[i] \in ToSet(s)
           /\ \A x \in ToSet(s) : \E i \in 1 .. Len(s) : x = s[i]
<1>1. DOMAIN s = 1 .. Len(s)
  OBVIOUS
<1> QED
  BY <1>1 DEF ToSet

LEMMA PlaceIs ==
    ASSUME SearchInv, NEW i \in 1 .. Len(candidates)
    PROVE  Place(candidates[i]) = i - 1
<1>1. \A j \in 1 .. Len(candidates) : candidates[j] = candidates[i] <=> j = i
  BY DEF SearchInv
<1>2. (CHOOSE j \in 1 .. Len(candidates) : candidates[j] = candidates[i]) = i
  BY <1>1
<1> QED
  BY <1>2 DEF Place

\* The elements of a list without repetition are as many as their places.
LEMMA CountDistinct ==
    ASSUME NEW S, NEW s \in Seq(S),
           \A i, j \in 1 .. Len(s) : i # j => s[i] # s[j],
           NEW I \in SUBSET (1 .. Len(s))
    PROVE  /\ IsFiniteSet({s[i] : i \in I})
           /\ Cardinality({s[i] : i \in I}) = Cardinality(I)
           /\ Cardinality(I) \in Nat
<1> DEFINE T == {s[i] : i \in I}
           f == [i \in I |-> s[i]]
<1>1. IsFiniteSet(1 .. Len(s))
  <2>1. Len(s) \in Int
    OBVIOUS
  <2> QED
    BY <2>1, FS_Interval
<1>2. IsFiniteSet(I)
  BY <1>1, FS_Subset
<1>3. f \in Bijection(I, T)
  <2>1. f \in [I -> T]
    OBVIOUS
  <2>2. \A i, j \in I : f[i] = f[j] => i = j
    OBVIOUS
  <2>3. \A t \in T : \E i \in I : f[i] = t
    OBVIOUS
  <2> HIDE DEF T, f
  <2> QED
    BY <2>1, <2>2, <2>3 DEF Bijection, Injection, Surjection, IsInjective
<1>4. IsFiniteSet(T) /\ Cardinality(T) = Cardinality(I)
  BY <1>2, <1>3, FS_Bijection DEF ExistsBijection
<1> QED
  BY <1>2, <1>4, FS_CardinalityType

\* What the code counts per document, and the length of the list, count the chunks chosen.
LEMMA ChosenCounted ==
    ASSUME NEW S, selected \in Seq(S),
           \A i, j \in 1 .. Len(selected) : i # j => selected[i] # selected[j]
    PROVE  /\ Cardinality(ToSet(selected)) = Len(selected)
           /\ \A d : CountOf(d) = Cardinality({c \in ToSet(selected) : DocumentOf(c) = d})
           /\ \A d : CountOf(d) \in Nat
<1>1. Len(selected) \in Nat /\ DOMAIN selected = 1 .. Len(selected)
  OBVIOUS
<1>2. Cardinality(1 .. Len(selected)) = Len(selected)
  BY <1>1, FS_Interval
<1>3. ToSet(selected) = {selected[i] : i \in 1 .. Len(selected)}
  BY <1>1 DEF ToSet
<1>4. Cardinality(ToSet(selected)) = Cardinality(1 .. Len(selected))
  <2> DEFINE I == 1 .. Len(selected)
  <2>1. I \in SUBSET (1 .. Len(selected))
    OBVIOUS
  <2> HIDE DEF I
  <2>2. Cardinality({selected[i] : i \in I}) = Cardinality(I)
    BY <2>1, CountDistinct
  <2> QED
    BY <1>3, <2>2 DEF I
<1>5. ASSUME NEW d
      PROVE  CountOf(d) = Cardinality({c \in ToSet(selected) : DocumentOf(c) = d})
             /\ CountOf(d) \in Nat
  <2> DEFINE I == {i \in 1 .. Len(selected) : DocumentOf(selected[i]) = d}
  <2>1. {c \in ToSet(selected) : DocumentOf(c) = d} = {selected[i] : i \in I}
    BY <1>3
  <2>2. I \in SUBSET (1 .. Len(selected))
    OBVIOUS
  <2> HIDE DEF I
  <2>3. Cardinality({selected[i] : i \in I}) = Cardinality(I) /\ Cardinality(I) \in Nat
    BY <2>2, CountDistinct
  <2> QED
    BY <2>1, <2>3 DEF CountOf, I
<1> QED
  BY <1>2, <1>4, <1>5

\* A turn of select_retrieved_chunks looks at the chunk as SelectedBest does.
LEMMA WantedChosen ==
    ASSUME SearchInv, Selecting, at <= Len(order), Len(selected) < TopK
    PROVE  Wanted(order[at]) <=> Chosen(at)
<1>1. selected \in Seq(Chunks) /\ order \in Seq(Chunks) /\ at \in Nat
  BY DEF SearchInv, RetrievalTypeOK
<1>2. SelectedBefore(at) = ToSet(selected)
  BY <1>1 DEF SelectedBefore, Selecting, ToSet
<1>3. /\ Cardinality(ToSet(selected)) = Len(selected)
      /\ CountOf(DocumentOf(order[at]))
           = Cardinality({c \in ToSet(selected) : DocumentOf(c) = DocumentOf(order[at])})
  BY <1>1, ChosenCounted DEF Selecting
<1> QED
  BY <1>2, <1>3 DEF Wanted, Chosen

\* What comes later in the order is none of a place's concern.
LEMMA ChosenStays ==
    ASSUME NEW p \in Nat, order' = order, score' = score,
           \A q \in 1 .. p - 1 : order[q] \in ToSet(selected)' <=> order[q] \in ToSet(selected)
    PROVE  Chosen(p)' <=> Chosen(p)
<1>1. SelectedBefore(p)' = SelectedBefore(p)
  BY DEF SelectedBefore
<1> QED
  BY <1>1 DEF Chosen

\* One turn more.
LEMMA SelectItemKeeps ==
    ASSUME SearchInv, SelectItem
    PROVE  Selecting'
<1>1. /\ selected \in Seq(Chunks) /\ order \in Seq(Chunks) /\ at \in Nat /\ at >= 1
      /\ at <= Len(order) /\ Len(selected) < TopK /\ TopK \in Int
      /\ Placed /\ Selecting
      /\ at' = at + 1 /\ order' = order /\ score' = score
  BY RetrievalAssumption DEF SearchInv, RetrievalTypeOK, SelectItem, Selecting
<1>2. \A p, q \in 1 .. Len(order) : p # q => order[p] # order[q]
  BY <1>1 DEF Placed
<1>3. order[at] \notin ToSet(selected)
  <2> SUFFICES ASSUME NEW i \in 1 .. Len(selected), selected[i] = order[at]
               PROVE  FALSE
    BY <1>1 DEF ToSet
  <2>1. PICK p \in 1 .. at - 1 : selected[i] = order[p]
    BY <1>1 DEF Selecting
  <2>2. p \in 1 .. Len(order) /\ at \in 1 .. Len(order) /\ p # at
    BY <1>1
  <2>3. order[p] # order[at]
    BY <1>2, <2>2
  <2> QED
    BY <2>1, <2>3
<1>4. Wanted(order[at]) <=> Chosen(at)
  BY <1>1, WantedChosen
<1>5. order[at] \in Chunks
  BY <1>1
<1>6. CASE Wanted(order[at])
  <2>1. selected' = Append(selected, order[at])
    BY <1>6 DEF SelectItem
  <2>2. /\ selected' \in Seq(Chunks) /\ Len(selected') = Len(selected) + 1
        /\ \A i \in 1 .. Len(selected) : selected'[i] = selected[i]
        /\ selected'[Len(selected) + 1] = order[at]
        /\ ToSet(selected)' = ToSet(selected) \union {order[at]}
    BY <1>1, <1>5, <2>1, AppendTo
  <2>3. \A q \in 1 .. at - 1 : order[q] \in ToSet(selected)' <=> order[q] \in ToSet(selected)
    BY <1>1, <1>2, <2>2
  <2>4. \A i \in 1 .. Len(selected) : selected[i] \in ToSet(selected)
    BY <1>1 DEF ToSet
  <2>5. \A i, j \in 1 .. Len(selected') : i # j => selected'[i] # selected'[j]
    BY <1>1, <1>3, <2>2, <2>4 DEF Selecting
  <2>6. \A i \in 1 .. Len(selected') : \E p \in 1 .. at' - 1 : selected'[i] = order[p]
    <3>1. ASSUME NEW i \in 1 .. Len(selected) PROVE \E p \in 1 .. at' - 1 : selected'[i] = order[p]
      <4>1. PICK p \in 1 .. at - 1 : selected[i] = order[p]
        BY <1>1 DEF Selecting
      <4> QED
        BY <1>1, <2>2, <4>1
    <3>2. at \in 1 .. at' - 1
      BY <1>1
    <3> QED
      BY <1>1, <2>2, <3>1, <3>2
  <2>7. \A p \in 1 .. at : order[p] \in ToSet(selected)' <=> Chosen(p)'
    <3> SUFFICES ASSUME NEW p \in 1 .. at
                 PROVE  order[p] \in ToSet(selected)' <=> Chosen(p)'
      OBVIOUS
    <3>1. Chosen(p)' <=> Chosen(p)
      BY <1>1, <2>3, ChosenStays
    <3>2. CASE p = at
      BY <1>4, <1>6, <2>2, <3>1, <3>2
    <3>3. CASE p # at
      BY <1>1, <2>3, <3>1, <3>3 DEF Selecting
    <3> QED
      BY <3>2, <3>3
  <2> QED
    BY <1>1, <2>2, <2>5, <2>6, <2>7 DEF Selecting
<1>7. CASE ~ Wanted(order[at])
  <2>1. selected' = selected
    BY <1>7 DEF SelectItem
  <2>2. ToSet(selected)' = ToSet(selected)
    BY <2>1
  <2>3. \A p \in 1 .. at : order[p] \in ToSet(selected)' <=> Chosen(p)'
    <3> SUFFICES ASSUME NEW p \in 1 .. at
                 PROVE  order[p] \in ToSet(selected)' <=> Chosen(p)'
      OBVIOUS
    <3>1. Chosen(p)' <=> Chosen(p)
      BY <1>1, <2>2, ChosenStays
    <3>2. CASE p = at
      BY <1>3, <1>4, <1>7, <2>2, <3>1, <3>2
    <3>3. CASE p # at
      BY <1>1, <2>2, <3>1, <3>3 DEF Selecting
    <3> QED
      BY <3>2, <3>3
  <2> QED
    BY <1>1, <2>1, <2>3 DEF Selecting
<1> QED
  BY <1>6, <1>7

-----------------------------------------------------------------------------
(* The loops of parse_rerank_response.                                     *)

\* Where an element of the order stands among the candidates.
LEMMA OrderPlace ==
    ASSUME SearchInv, Placed, NEW p \in 1 .. Len(order)
    PROVE  \E i \in 1 .. Len(candidates) :
              order[p] = candidates[i] /\ Place(order[p]) = i - 1
<1>1. candidates \in Seq(Chunks) /\ order \in Seq(Chunks)
  BY DEF SearchInv, RetrievalTypeOK
<1>2. order[p] \in ToSet(candidates)
  BY <1>1, InToSet DEF Placed
<1>3. PICK i \in 1 .. Len(candidates) : order[p] = candidates[i]
  BY <1>1, <1>2, InToSet
<1> QED
  BY <1>3, PlaceIs

LEMMA PlacedSame ==
    ASSUME Placed, candidates' = candidates, rankings' = rankings, order' = order
    PROVE  Placed'
<1>1. \A c : Named(c)' = Named(c) /\ Place(c)' = Place(c)
  BY DEF Named, Place
<1>2. ToSet(order)' = ToSet(order) /\ ToSet(candidates)' = ToSet(candidates)
  OBVIOUS
<1> QED
  BY <1>1, <1>2 DEF Placed

\* One chunk more at the end of the order, named later than every one before it, or not at
\* all and behind every one that is not.
LEMMA PlacedMore ==
    ASSUME SearchInv, Placed, NEW i \in 1 .. Len(candidates),
           candidates' = candidates, rankings' = rankings,
           order' = Append(order, candidates[i]),
           \A p \in 1 .. Len(order) :
              /\ order[p] # candidates[i]
              /\ \A k \in Named(candidates[i]) : \E j \in Named(order[p]) : j < k
              /\ Named(order[p]) = {} => Place(order[p]) < i - 1
    PROVE  Placed'
<1>1. candidates \in Seq(Chunks) /\ order \in Seq(Chunks) /\ candidates[i] \in Chunks
  BY DEF SearchInv, RetrievalTypeOK
<1>2. /\ Len(order') = Len(order) + 1 /\ Len(order) \in Nat
      /\ \A p \in 1 .. Len(order) : order'[p] = order[p]
      /\ order'[Len(order) + 1] = candidates[i]
      /\ ToSet(order)' = ToSet(order) \union {candidates[i]}
  BY <1>1, AppendTo
<1>3. \A c : Named(c)' = Named(c) /\ Place(c)' = Place(c)
  BY DEF Named, Place
<1>4. candidates[i] \in ToSet(candidates) /\ ToSet(candidates)' = ToSet(candidates)
  BY <1>1 DEF ToSet
<1>5. Place(candidates[i]) = i - 1
  BY PlaceIs
<1>6. ASSUME NEW p \in 1 .. Len(order'), NEW q \in 1 .. Len(order'), p < q
      PROVE  /\ order'[p] # order'[q]
             /\ \A k \in Named(order'[q]) : \E j \in Named(order'[p]) : j < k
             /\ Named(order'[p]) = {} => Place(order'[p]) < Place(order'[q])
  <2>1. p \in 1 .. Len(order) /\ order'[p] = order[p]
    BY <1>2, <1>6
  <2>2. CASE q \in 1 .. Len(order)
    <3>1. order'[q] = order[q]
      BY <1>2, <2>2
    <3> QED
      BY <1>6, <2>1, <2>2, <3>1 DEF Placed
  <2>3. CASE q \notin 1 .. Len(order)
    <3>1. order'[q] = candidates[i]
      BY <1>2, <2>3
    <3> QED
      BY <1>5, <2>1, <3>1
  <2> QED
    BY <2>2, <2>3
<1> QED
  BY <1>2, <1>3, <1>4, <1>6 DEF Placed

\* What has been looked at so far stays so.
LEMMA RankingMore ==
    ASSUME SearchInv, Ranking, stage = "rank", at <= Len(rankings) + Len(candidates),
           candidates' = candidates, rankings' = rankings, at' = at + 1,
           \/ order' = order
           \/ \E i \in 1 .. Len(candidates) :
                 /\ order' = Append(order, candidates[i])
                 /\ \/ \E j \in Named(candidates[i]) : j < at'
                    \/ Named(candidates[i]) = {} /\ i < at' - Len(rankings),
           \A i \in 1 .. Len(candidates) :
              \/ at \in 1 .. Len(rankings) /\ rankings[at].index = i - 1
              \/ i = at - Len(rankings)
              => candidates[i] \in ToSet(order)'
    PROVE  Ranking'
<1>1. /\ candidates \in Seq(Chunks) /\ order \in Seq(Chunks) /\ at \in Nat /\ at >= 1
      /\ rankings \in Seq(Item) /\ Len(rankings) \in Nat /\ Len(order) \in Nat
      /\ Len(candidates) \in Nat
  BY DEF SearchInv, RetrievalTypeOK, Ranking
<1>2. \A c : Named(c)' = Named(c) /\ Place(c)' = Place(c)
  BY DEF Named, Place
<1>3. /\ ToSet(order) \subseteq ToSet(order)'
      /\ \A p \in 1 .. Len(order') :
            \/ p \in 1 .. Len(order) /\ order'[p] = order[p]
            \/ \/ \E j \in Named(order'[p]) : j < at'
               \/ Named(order'[p]) = {} /\ Place(order'[p]) + 1 < at' - Len(rankings)
  <2>1. CASE order' = order
    BY <2>1
  <2>2. ASSUME NEW i \in 1 .. Len(candidates), order' = Append(order, candidates[i]),
               \/ \E j \in Named(candidates[i]) : j < at'
               \/ Named(candidates[i]) = {} /\ i < at' - Len(rankings)
        PROVE <1>3!:
    <3>1. /\ Len(order') = Len(order) + 1
          /\ \A p \in 1 .. Len(order) : order'[p] = order[p]
          /\ order'[Len(order) + 1] = candidates[i]
          /\ ToSet(order)' = ToSet(order) \union {candidates[i]}
      BY <1>1, <2>2, AppendTo
    <3>2. Place(candidates[i]) + 1 = i
      BY <1>1, PlaceIs
    <3>3. \A p \in 1 .. Len(order') : p \in 1 .. Len(order) \/ p = Len(order) + 1
      BY <1>1, <3>1
    <3> QED
      BY <2>2, <3>1, <3>2, <3>3
  <2> QED
    BY <2>1, <2>2
<1>4. ASSUME NEW p \in 1 .. Len(order')
      PROVE  \/ \E j \in Named(order'[p]) : j < at'
             \/ Named(order'[p]) = {} /\ Place(order'[p]) + 1 < at' - Len(rankings)
  <2>1. CASE p \in 1 .. Len(order) /\ order'[p] = order[p]
    <3>1. CASE \E j \in Named(order[p]) : j < at
      <4>1. \A j \in Named(order[p]) : j \in Nat
        BY DEF Named
      <4> QED
        BY <1>1, <2>1, <3>1, <4>1
    <3>2. CASE Named(order[p]) = {} /\ Place(order[p]) + 1 < at - Len(rankings)
      <4>1. Placed
        BY DEF SearchInv
      <4>2. PICK i \in 1 .. Len(candidates) : Place(order[p]) = i - 1
        BY <2>1, <4>1, OrderPlace
      <4>3. Place(order[p]) \in Int
        BY <1>1, <4>2
      <4> QED
        BY <1>1, <2>1, <3>2, <4>3
    <3> QED
      BY <2>1, <3>1, <3>2 DEF Ranking
  <2> QED
    BY <1>3, <2>1
<1>5. ASSUME NEW i \in 1 .. Len(candidates),
             \/ \E j \in 1 .. Len(rankings) : j < at' /\ rankings[j].index = i - 1
             \/ i < at' - Len(rankings)
      PROVE  candidates[i] \in ToSet(order)'
  <2>1. \/ \E j \in 1 .. Len(rankings) : j < at /\ rankings[j].index = i - 1
        \/ at \in 1 .. Len(rankings) /\ rankings[at].index = i - 1
        \/ i < at - Len(rankings)
        \/ i = at - Len(rankings)
    <3>1. CASE i < at' - Len(rankings)
      <4>1. i \in Int /\ at' = at + 1 /\ at \in Int /\ Len(rankings) \in Int
        BY <1>1
      <4>2. \A x, y, z \in Int : x < (y + 1) - z => x < y - z \/ x = y - z
        OBVIOUS
      <4>3. i < (at + 1) - Len(rankings)
        BY <3>1, <4>1
      <4> QED
        BY <4>1, <4>2, <4>3
    <3>2. CASE \E j \in 1 .. Len(rankings) : j < at' /\ rankings[j].index = i - 1
      <4>1. PICK j \in 1 .. Len(rankings) : j < at' /\ rankings[j].index = i - 1
        BY <3>2
      <4>2. j < at \/ j = at
        BY <1>1, <4>1
      <4> QED
        BY <4>1, <4>2
    <3> QED
      BY <1>5, <3>1, <3>2
  <2> QED
    BY <1>3, <2>1 DEF Ranking
<1>6. at' >= 1
  BY <1>1
<1> QED
  BY <1>2, <1>4, <1>5, <1>6 DEF Ranking

\* An item of the answer.
LEMMA RankItemKeeps ==
    ASSUME SearchInv, RankItem
    PROVE  Placed' /\ Ranking'
<1>1. /\ stage = "rank" /\ at \in 1 .. Len(rankings) /\ Len(rankings) \in Nat
      /\ at <= Len(rankings) + Len(candidates)
      /\ at' = at + 1 /\ candidates' = candidates /\ rankings' = rankings
      /\ Placed /\ Ranking /\ rankings \in Seq(Item) /\ Len(candidates) \in Nat
      /\ candidates \in Seq(Chunks) /\ order \in Seq(Chunks)
  <2>1. /\ rankings \in Seq(Item) /\ candidates \in Seq(Chunks) /\ order \in Seq(Chunks)
        /\ at \in Nat
    BY DEF SearchInv, RetrievalTypeOK
  <2>2. /\ stage = "rank" /\ at <= Len(rankings) /\ at' = at + 1 /\ candidates' = candidates
        /\ rankings' = rankings
    BY DEF RankItem
  <2>3. Placed /\ Ranking /\ at >= 1
    BY <2>2 DEF SearchInv, Ranking
  <2>4. Len(rankings) \in Nat /\ Len(candidates) \in Nat
    BY <2>1
  <2> QED
    BY <2>1, <2>2, <2>3, <2>4
<1>2. \A j \in 1 .. Len(rankings) : rankings[j].index \in Int
  BY <1>1, ItemFields
<1>3. CASE Usable(rankings[at].index)
  <2>1. PICK i \in 1 .. Len(candidates) : i = rankings[at].index + 1
    BY <1>1, <1>2, <1>3 DEF Usable
  <2>2. order' = Append(order, candidates[i])
    BY <1>3, <2>1 DEF RankItem
  <2>3. Place(candidates[i]) = rankings[at].index
    BY <1>1, <1>2, <2>1, PlaceIs
  <2>4. at \in Named(candidates[i])
    BY <1>1, <2>3 DEF Named
  <2>5. \A k \in Named(candidates[i]) : k \in Nat /\ k >= at
    <3> SUFFICES ASSUME NEW k \in 1 .. Len(rankings), rankings[k].index = rankings[at].index
                 PROVE  k >= at
      BY <2>3 DEF Named
    <3> QED
      BY <1>1, <1>3 DEF Usable
  <2>6. ASSUME NEW p \in 1 .. Len(order)
        PROVE  \E j \in Named(order[p]) : j < at
    <3>1. PICK l \in 1 .. Len(candidates) : Place(order[p]) = l - 1
      BY <1>1, OrderPlace
    <3>2. ~ (Place(order[p]) + 1 < at - Len(rankings))
      BY <1>1, <3>1
    <3> QED
      BY <1>1, <3>2 DEF Ranking
  <2>7. ASSUME NEW p \in 1 .. Len(order)
        PROVE  /\ order[p] # candidates[i]
               /\ \A k \in Named(candidates[i]) : \E j \in Named(order[p]) : j < k
               /\ Named(order[p]) = {} => Place(order[p]) < i - 1
    <3>1. PICK j \in Named(order[p]) : j < at
      BY <2>6
    <3>2. j \in Nat
      BY DEF Named
    <3> QED
      BY <1>1, <2>5, <3>1, <3>2
  <2>8. Placed'
    BY <1>1, <2>2, <2>7, PlacedMore
  <2>9. candidates[i] \in ToSet(order)'
    BY <1>1, <2>2, AppendTo
  <2>10. ASSUME NEW l \in 1 .. Len(candidates),
                \/ at \in 1 .. Len(rankings) /\ rankings[at].index = l - 1
                \/ l = at - Len(rankings)
         PROVE candidates[l] \in ToSet(order)'
    <3>1. l = i
      BY <1>1, <1>2, <2>1, <2>10
    <3> QED
      BY <2>9, <3>1
  <2>11. \E j \in Named(candidates[i]) : j < at'
    BY <1>1, <2>4
  <2> QED
    BY <1>1, <2>2, <2>8, <2>10, <2>11, RankingMore
<1>4. CASE ~ Usable(rankings[at].index)
  <2>1. order' = order
    BY <1>4 DEF RankItem
  <2>2. Placed'
    BY <1>1, <2>1, PlacedSame
  <2>3. ASSUME NEW l \in 1 .. Len(candidates), rankings[at].index = l - 1
        PROVE  candidates[l] \in ToSet(order)
    <3>1. 0 <= l - 1 /\ l - 1 < Len(candidates)
      BY <1>1
    <3>2. PICK j \in 1 .. at - 1 : rankings[j].index = l - 1
      BY <1>4, <2>3, <3>1 DEF Usable
    <3>3. j \in 1 .. Len(rankings) /\ j < at
      BY <1>1
    <3> QED
      BY <1>1, <3>2, <3>3 DEF Ranking
  <2>4. ASSUME NEW l \in 1 .. Len(candidates),
                \/ at \in 1 .. Len(rankings) /\ rankings[at].index = l - 1
                \/ l = at - Len(rankings)
         PROVE candidates[l] \in ToSet(order)'
    <3>1. rankings[at].index = l - 1
      BY <1>1, <2>4
    <3> QED
      BY <2>1, <2>3, <3>1
  <2> QED
    BY <1>1, <2>1, <2>2, <2>4, RankingMore
<1> QED
  BY <1>3, <1>4

\* A candidate, in the order of the database.
LEMMA RankRestKeeps ==
    ASSUME SearchInv, RankRest
    PROVE  Placed' /\ Ranking'
<1>1. /\ stage = "rank" /\ at \in Nat /\ Len(rankings) \in Nat
      /\ at - Len(rankings) \in 1 .. Len(candidates)
      /\ at <= Len(rankings) + Len(candidates) /\ at > Len(rankings)
      /\ at' = at + 1 /\ candidates' = candidates /\ rankings' = rankings
      /\ Placed /\ Ranking /\ rankings \in Seq(Item) /\ Len(candidates) \in Nat
      /\ candidates \in Seq(Chunks) /\ order \in Seq(Chunks)
  <2>1. /\ rankings \in Seq(Item) /\ candidates \in Seq(Chunks) /\ order \in Seq(Chunks)
        /\ at \in Nat
    BY DEF SearchInv, RetrievalTypeOK
  <2>2. /\ stage = "rank" /\ at - Len(rankings) \in 1 .. Len(candidates) /\ at' = at + 1
        /\ candidates' = candidates /\ rankings' = rankings
    BY DEF RankRest
  <2>3. Placed /\ Ranking
    BY <2>2 DEF SearchInv
  <2>4. Len(rankings) \in Nat /\ Len(candidates) \in Nat
    BY <2>1
  <2> QED
    BY <2>1, <2>2, <2>3, <2>4
<1>2. PICK i \in 1 .. Len(candidates) : i = at - Len(rankings)
  BY <1>1
<1>3. Place(candidates[i]) = i - 1
  BY PlaceIs
<1>4. \A l \in 1 .. Len(candidates) :
         (at \in 1 .. Len(rankings) /\ rankings[at].index = l - 1) \/ l = at - Len(rankings)
         => l = i
  BY <1>1, <1>2
<1>5. CASE \E j \in 1 .. Len(rankings) : rankings[j].index = i - 1
  <2>1. order' = order
    BY <1>2, <1>5 DEF RankRest
  <2>2. Placed'
    BY <1>1, <2>1, PlacedSame
  <2>3. candidates[i] \in ToSet(order)
    <3>1. PICK j \in 1 .. Len(rankings) : rankings[j].index = i - 1
      BY <1>5
    <3>2. j < at
      BY <1>1
    <3> QED
      BY <1>1, <3>1, <3>2 DEF Ranking
  <2> QED
    BY <1>1, <1>4, <2>1, <2>2, <2>3, RankingMore
<1>6. CASE ~ \E j \in 1 .. Len(rankings) : rankings[j].index = i - 1
  <2>1. order' = Append(order, candidates[i])
    BY <1>2, <1>6 DEF RankRest
  <2>2. Named(candidates[i]) = {}
    BY <1>3, <1>6 DEF Named
  <2>3. ASSUME NEW p \in 1 .. Len(order)
        PROVE  /\ order[p] # candidates[i]
               /\ \A k \in Named(candidates[i]) : \E j \in Named(order[p]) : j < k
               /\ Named(order[p]) = {} => Place(order[p]) < i - 1
    <3>1. Named(order[p]) # {} \/ Place(order[p]) + 1 < i
      BY <1>1, <1>2 DEF Ranking
    <3>2. order[p] # candidates[i]
      BY <1>3, <2>2, <3>1
    <3>3. Named(order[p]) = {} => Place(order[p]) < i - 1
      <4>1. PICK l \in 1 .. Len(candidates) : Place(order[p]) = l - 1
        BY <1>1, OrderPlace
      <4>3. Place(order[p]) \in Int
        BY <1>1, <4>1
      <4> QED
        BY <3>1, <4>3
    <3> QED
      BY <2>2, <3>2, <3>3
  <2>4. Placed'
    BY <1>1, <2>1, <2>3, PlacedMore
  <2>5. candidates[i] \in ToSet(order)'
    BY <1>1, <2>1, AppendTo
  <2>6. i < at' - Len(rankings)
    BY <1>1, <1>2
  <2> QED
    BY <1>1, <1>4, <2>1, <2>2, <2>4, <2>5, <2>6, RankingMore
<1> QED
  BY <1>5, <1>6

-----------------------------------------------------------------------------
(* The steps.                                                              *)

\* The list the database answers names no chunk twice.
LEMMA SearchDistinct ==
    ASSUME SearchInv, NEW s \in SetToAllKPermutations(visible)
    PROVE  /\ s \in Seq(Chunks)
           /\ \A i, j \in 1 .. Len(s) : i # j => s[i] # s[j]
<1>1. PICK S \in SUBSET visible : s \in SetToSeqs(S)
  BY DEF SetToAllKPermutations
<1>2. IsFiniteSet(S) /\ S \subseteq Chunks
  BY RetrievalAssumption, FS_Subset DEF SearchInv, RetrievalTypeOK
<1>3. Cardinality(S) \in Nat
  BY <1>2, FS_CardinalityType
<1>4. s \in [1 .. Cardinality(S) -> S]
      /\ \A i, j \in 1 .. Cardinality(S) : i # j => s[i] # s[j]
  BY <1>1 DEF SetToSeqs
<1>5. s \in [1 .. Cardinality(S) -> Chunks]
  BY <1>2, <1>4
<1>6. s \in Seq(Chunks)
  BY <1>3, <1>5
<1>7. Len(s) = Cardinality(S)
  BY <1>3, <1>4
<1> QED
  BY <1>4, <1>6, <1>7

\* The items of the answer, sorted.
LEMMA SortedItems ==
    ASSUME RerankAnswer
    PROVE  /\ rankings' \in Seq(Item)
           /\ \A i, j \in 1 .. Len(rankings') :
                 i < j => rankings'[i].relevance >= rankings'[j].relevance
<1>1. PICK n \in 0 .. MaxRankings :
         \E answer \in [1 .. n -> Item], places \in Bijection(1 .. n, 1 .. n) :
            Sorts(places, answer) /\ rankings' = [i \in 1 .. n |-> answer[places[i]]]
  BY DEF RerankAnswer
<1>2. PICK answer \in [1 .. n -> Item], places \in Bijection(1 .. n, 1 .. n) :
         Sorts(places, answer) /\ rankings' = [i \in 1 .. n |-> answer[places[i]]]
  BY <1>1
<1>3. \A i \in 1 .. n : places[i] \in 1 .. n
  BY DEF Bijection, Injection
<1>4. n \in Nat /\ rankings' \in [1 .. n -> Item]
  BY <1>2, <1>3
<1>5. rankings' \in Seq(Item) /\ Len(rankings') = n
  BY <1>4
<1>6. ASSUME NEW i \in 1 .. n, NEW j \in 1 .. n, i < j
      PROVE  rankings'[i].relevance >= rankings'[j].relevance
  <2>1. answer[places[i]] \in Item /\ answer[places[j]] \in Item
    BY <1>3
  <2>2. answer[places[i]].relevance \in Nat /\ answer[places[j]].relevance \in Nat
    BY <2>1, ItemFields
  <2>3. DOMAIN answer = 1 .. n
    OBVIOUS
  <2>4. \/ answer[places[i]].relevance > answer[places[j]].relevance
        \/ answer[places[i]].relevance = answer[places[j]].relevance
    BY <1>2, <1>6, <2>3 DEF Sorts
  <2> QED
    BY <1>2, <2>2, <2>4
<1> QED
  BY <1>5, <1>6

LEMMA NextTyped == RetrievalTypeOK /\ SearchInv /\ [RetrievalNext]_retrievalVars => RetrievalTypeOK'
<1> SUFFICES ASSUME RetrievalTypeOK, SearchInv, [RetrievalNext]_retrievalVars
             PROVE  RetrievalTypeOK'
  OBVIOUS
<1> USE DEF RetrievalTypeOK
<1>1. CASE Skip \/ EmbedQuery \/ Fail
  BY <1>1 DEF Skip, EmbedQuery, Fail
<1>2. CASE Search
  BY <1>2, SearchDistinct DEF Search
<1>3. CASE KeepOrder
  BY <1>3 DEF KeepOrder
<1>4. CASE RerankAnswer
  BY <1>4, SortedItems DEF RerankAnswer
<1>5. CASE RankItem
  <2>1. order' \in Seq(Chunks)
    <3>1. CASE Usable(rankings[at].index)
      <4>1. rankings[at].index + 1 \in 1 .. Len(candidates)
        <5>1. at \in 1 .. Len(rankings)
          BY <1>5 DEF RankItem, SearchInv, Ranking
        <5>2. rankings[at].index \in Int
          BY <5>1, ItemFields
        <5> QED
          BY <3>1, <5>2 DEF Usable
      <4>2. candidates[rankings[at].index + 1] \in Chunks
        BY <4>1
      <4> QED
        BY <1>5, <3>1, <4>2 DEF RankItem
    <3>2. CASE ~ Usable(rankings[at].index)
      BY <1>5, <3>2 DEF RankItem
    <3> QED
      BY <3>1, <3>2
  <2> QED
    BY <1>5, <2>1 DEF RankItem
<1>6. CASE RankRest
  <2>1. order' \in Seq(Chunks)
    <3>1. at - Len(rankings) \in 1 .. Len(candidates)
      BY <1>6 DEF RankRest
    <3>2. candidates[at - Len(rankings)] \in Chunks
      BY <3>1
    <3>3. order' = order \/ order' = Append(order, candidates[at - Len(rankings)])
      BY <1>6 DEF RankRest
    <3>4. Append(order, candidates[at - Len(rankings)]) \in Seq(Chunks)
      BY <3>2
    <3> QED
      BY <3>3, <3>4
  <2> QED
    BY <1>6, <2>1 DEF RankRest
<1>7. CASE Reranked
  BY <1>7 DEF Reranked
<1>8. CASE SelectItem
  <2>1. at \in 1 .. Len(order)
    BY <1>8 DEF SelectItem, SearchInv, Selecting
  <2>2. order[at] \in Chunks
    BY <2>1
  <2>3. selected' \in Seq(Chunks)
    BY <1>8, <2>2 DEF SelectItem
  <2> QED
    BY <1>8, <2>3 DEF SelectItem
<1>9. CASE Return
  BY <1>9 DEF Return
<1>10. CASE UNCHANGED retrievalVars
  BY <1>10 DEF retrievalVars
<1> QED
  BY <1>1, <1>2, <1>3, <1>4, <1>5, <1>6, <1>7, <1>8, <1>9, <1>10 DEF RetrievalNext

\* The order is the database's.
LEMMA KeepOrderPlaced ==
    ASSUME SearchInv, KeepOrder
    PROVE  Placed' /\ ToSet(order)' = ToSet(candidates)' /\ Selecting'
<1>1. /\ candidates \in Seq(Chunks) /\ order' = candidates /\ candidates' = candidates
      /\ rankings' = <<>> /\ selected' = <<>> /\ at' = 1 /\ TopK > 0
  BY DEF SearchInv, RetrievalTypeOK, KeepOrder
<1>2. \A c : Named(c)' = {} /\ Place(c)' = Place(c)
  BY <1>1 DEF Named, Place
<1>3. ASSUME NEW p \in 1 .. Len(candidates), NEW q \in 1 .. Len(candidates), p < q
      PROVE  /\ candidates[p] # candidates[q]
             /\ Place(candidates[p]) < Place(candidates[q])
  <2>1. Place(candidates[p]) = p - 1 /\ Place(candidates[q]) = q - 1
    BY PlaceIs
  <2> QED
    BY <1>1, <1>3, <2>1 DEF SearchInv
<1>4. Placed'
  BY <1>1, <1>2, <1>3 DEF Placed
<1>5. Len(selected') = 0 /\ Len(order') \in Nat
  BY <1>1
<1>6. Selecting'
  BY <1>1, <1>5, RetrievalAssumption DEF Selecting
<1> QED
  BY <1>1, <1>4, <1>6

\* The loops have put every candidate in the order.
LEMMA RerankedComplete ==
    ASSUME SearchInv, Reranked
    PROVE  Placed' /\ ToSet(order)' = ToSet(candidates)' /\ Selecting'
<1>1. /\ candidates \in Seq(Chunks) /\ rankings \in Seq(Item) /\ order \in Seq(Chunks)
      /\ at \in Nat /\ selected = <<>> /\ TopK > 0 /\ Placed /\ Ranking
  BY DEF SearchInv, RetrievalTypeOK, Reranked
<1>2. /\ candidates' = candidates /\ rankings' = rankings /\ order' = order
      /\ selected' = <<>> /\ at' = 1 /\ at > Len(rankings) + Len(candidates)
  BY <1>1 DEF Reranked
<1>3. Placed'
  BY <1>1, <1>2, PlacedSame
<1>4. ASSUME NEW i \in 1 .. Len(candidates)
      PROVE  candidates[i] \in ToSet(order)
  <2>1. Len(candidates) \in Nat /\ Len(rankings) \in Nat
    BY <1>1
  <2>2. i < at - Len(rankings)
    BY <1>1, <1>2, <2>1
  <2> QED
    BY <1>1, <2>2 DEF Ranking
<1>5. ASSUME NEW x \in ToSet(candidates)
      PROVE  x \in ToSet(order)
  <2>1. \E i \in 1 .. Len(candidates) : x = candidates[i]
    BY <1>1, InToSet
  <2> QED
    BY <1>4, <2>1
<1>6. ToSet(order)' = ToSet(candidates)'
  <2>1. ToSet(order) \subseteq ToSet(candidates)
    BY <1>1 DEF Placed
  <2>2. ToSet(order) = ToSet(candidates)
    BY <1>5, <2>1
  <2> QED
    BY <1>2, <2>2
<1>7. Len(selected') = 0 /\ Len(order') \in Nat
  BY <1>1, <1>2
<1>8. Selecting'
  BY <1>1, <1>2, <1>7, RetrievalAssumption DEF Selecting
<1> QED
  BY <1>3, <1>6, <1>8

LEMMA InitSearch == RetrievalInit => SearchInv
<1> SUFFICES ASSUME RetrievalInit
             PROVE  SearchInv
  OBVIOUS
<1>1. RetrievalTypeOK
  BY DEF RetrievalInit, RetrievalTypeOK
<1>2. Len(candidates) = 0 /\ Len(rankings) = 0
  BY DEF RetrievalInit
<1> QED
  BY <1>1, <1>2 DEF RetrievalInit, SearchInv

\* What the lists say while they stay.
LEMMA ListsSame ==
    ASSUME SearchInv,
           candidates' = candidates, rankings' = rankings, order' = order,
           score' = score, selected' = selected
    PROVE  /\ Placed => Placed'
           /\ at' = at => (Selecting => Selecting')
           /\ at' = at => (Ranking => Ranking')
           /\ \A i, j \in 1 .. Len(candidates') : i # j => candidates'[i] # candidates'[j]
           /\ \A i, j \in 1 .. Len(rankings') :
                 i < j => rankings'[i].relevance >= rankings'[j].relevance
           /\ ToSet(order)' = ToSet(order) /\ ToSet(candidates)' = ToSet(candidates)
<1>1. \A c : Named(c)' = Named(c) /\ Place(c)' = Place(c)
  BY DEF Named, Place
<1>2. \A p : SelectedBefore(p)' = SelectedBefore(p)
  BY DEF SelectedBefore
<1>3. \A p : Chosen(p)' <=> Chosen(p)
  BY <1>2 DEF Chosen
<1>4. ToSet(order)' = ToSet(order) /\ ToSet(candidates)' = ToSet(candidates)
      /\ ToSet(selected)' = ToSet(selected)
  OBVIOUS
<1>5. ASSUME at' = at, Selecting PROVE Selecting'
  BY <1>3, <1>4, <1>5 DEF Selecting
<1>6. ASSUME at' = at, Ranking PROVE Ranking'
  BY <1>1, <1>4, <1>6 DEF Ranking
<1> QED
  BY <1>4, <1>5, <1>6, PlacedSame DEF SearchInv

\* Each step keeps it.
LEMMA NextSearch == SearchInv /\ [RetrievalNext]_retrievalVars => SearchInv'
<1> SUFFICES ASSUME SearchInv, [RetrievalNext]_retrievalVars
             PROVE  SearchInv'
  OBVIOUS
<1>1. RetrievalTypeOK'
  BY NextTyped DEF SearchInv
<1>2. CASE Skip \/ EmbedQuery \/ Fail
  <2>1. /\ candidates' = candidates /\ rankings' = rankings /\ order' = order
        /\ score' = score /\ selected' = selected
        /\ stage' \notin {"rank", "select"} /\ outcome' \notin {"hit", "miss"}
    BY <1>2 DEF Skip, EmbedQuery, Fail, SearchInv
  <2>2. stage' \in {"start", "search", "rerank", "rank", "select"} => stage = "start" /\ TopK > 0
    BY <1>2 DEF Skip, EmbedQuery, Fail
  <2> QED
    BY <1>1, <2>1, <2>2, ListsSame DEF SearchInv
<1>3. CASE Search
  <2>1. /\ rankings' = rankings /\ order' = order /\ selected' = selected
        /\ stage = "search" /\ stage' = "rerank" /\ outcome' = outcome
        /\ candidates' \in SetToAllKPermutations(visible)
    BY <1>3 DEF Search
  <2>2. \A i, j \in 1 .. Len(candidates') : i # j => candidates'[i] # candidates'[j]
    BY <2>1, SearchDistinct
  <2> QED
    BY <1>1, <2>1, <2>2 DEF SearchInv
<1>4. CASE KeepOrder
  <2>1. /\ rankings' = rankings /\ candidates' = candidates
        /\ stage = "rerank" /\ stage' = "select" /\ outcome' = outcome
    BY <1>4 DEF KeepOrder
  <2>2. Placed' /\ ToSet(order)' = ToSet(candidates)' /\ Selecting'
    BY <1>4, KeepOrderPlaced
  <2> QED
    BY <1>1, <2>1, <2>2 DEF SearchInv
<1>5. CASE RerankAnswer
  <2>1. /\ candidates' = candidates /\ order' = order /\ selected' = selected
        /\ stage = "rerank" /\ stage' = "rank" /\ outcome' = outcome /\ at' = 1
    BY <1>5 DEF RerankAnswer
  <2>2. /\ rankings' \in Seq(Item)
        /\ \A i, j \in 1 .. Len(rankings') :
              i < j => rankings'[i].relevance >= rankings'[j].relevance
    BY <1>5, SortedItems
  <2>3. order' = <<>> /\ Len(order') = 0 /\ candidates \in Seq(Chunks)
    BY <2>1 DEF SearchInv, RetrievalTypeOK
  <2>4. Placed'
    <3>1. ToSet(order)' = {}
      BY <2>3 DEF ToSet
    <3> QED
      BY <2>3, <3>1 DEF Placed
  <2>5. Ranking'
    <3>1. Len(rankings') \in Nat /\ Len(candidates') \in Nat
      BY <2>1, <2>2, <2>3
    <3>2. \A i \in 1 .. Len(candidates') :
             ~ \/ \E j \in 1 .. Len(rankings') : j < at' /\ rankings'[j].index = i - 1
               \/ i < at' - Len(rankings')
      BY <2>1, <3>1
    <3> QED
      BY <2>1, <2>3, <3>2 DEF Ranking
  <2> QED
    BY <1>1, <2>1, <2>2, <2>4, <2>5 DEF SearchInv
<1>6. CASE RankItem
  <2>1. /\ candidates' = candidates /\ rankings' = rankings /\ selected' = selected
        /\ stage = "rank" /\ stage' = "rank" /\ outcome' = outcome
    BY <1>6 DEF RankItem
  <2>2. Placed' /\ Ranking'
    BY <1>6, RankItemKeeps
  <2> QED
    BY <1>1, <2>1, <2>2 DEF SearchInv
<1>7. CASE RankRest
  <2>1. /\ candidates' = candidates /\ rankings' = rankings /\ selected' = selected
        /\ stage = "rank" /\ stage' = "rank" /\ outcome' = outcome
    BY <1>7 DEF RankRest
  <2>2. Placed' /\ Ranking'
    BY <1>7, RankRestKeeps
  <2> QED
    BY <1>1, <2>1, <2>2 DEF SearchInv
<1>8. CASE Reranked
  <2>1. /\ candidates' = candidates /\ rankings' = rankings /\ selected' = selected
        /\ stage = "rank" /\ stage' = "select" /\ outcome' = outcome
    BY <1>8 DEF Reranked
  <2>2. Placed' /\ ToSet(order)' = ToSet(candidates)' /\ Selecting'
    BY <1>8, RerankedComplete
  <2> QED
    BY <1>1, <2>1, <2>2 DEF SearchInv
<1>9. CASE SelectItem
  <2>1. /\ candidates' = candidates /\ rankings' = rankings /\ order' = order
        /\ stage = "select" /\ stage' = "select" /\ outcome' = outcome
    BY <1>9 DEF SelectItem
  <2>2. Selecting' /\ Placed' /\ ToSet(order)' = ToSet(candidates)'
    BY <1>9, <2>1, SelectItemKeeps, PlacedSame DEF SearchInv
  <2> QED
    BY <1>1, <2>1, <2>2 DEF SearchInv
<1>10. CASE Return
  <2>1. /\ candidates' = candidates /\ rankings' = rankings /\ order' = order
        /\ score' = score /\ selected' = selected /\ at' = at
        /\ stage = "select" /\ stage' = "done"
        /\ at > Len(order) \/ Len(selected) >= TopK
    BY <1>10 DEF Return
  <2>2. Placed /\ ToSet(order) = ToSet(candidates) /\ Selecting
    BY <2>1 DEF SearchInv
  <2>3. /\ Placed' /\ ToSet(order)' = ToSet(candidates)' /\ Selecting'
        /\ \A i, j \in 1 .. Len(candidates') : i # j => candidates'[i] # candidates'[j]
        /\ \A i, j \in 1 .. Len(rankings') :
              i < j => rankings'[i].relevance >= rankings'[j].relevance
    BY <2>1, <2>2, ListsSame
  <2> QED
    BY <1>1, <2>1, <2>3 DEF SearchInv
<1>11. CASE UNCHANGED retrievalVars
  <2>1. /\ candidates' = candidates /\ rankings' = rankings /\ order' = order
        /\ score' = score /\ selected' = selected /\ at' = at /\ stage' = stage
        /\ outcome' = outcome
    BY <1>11 DEF retrievalVars
  <2>2. /\ (Placed => Placed') /\ (Selecting => Selecting') /\ (Ranking => Ranking')
        /\ \A i, j \in 1 .. Len(candidates') : i # j => candidates'[i] # candidates'[j]
        /\ \A i, j \in 1 .. Len(rankings') :
              i < j => rankings'[i].relevance >= rankings'[j].relevance
        /\ ToSet(order)' = ToSet(order) /\ ToSet(candidates)' = ToSet(candidates)
    BY <2>1, ListsSame
  <2> QED
    BY <1>1, <2>1, <2>2 DEF SearchInv
<1> QED
  BY <1>2, <1>3, <1>4, <1>5, <1>6, <1>7, <1>8, <1>9, <1>10, <1>11 DEF RetrievalNext

LEMMA SearchAlways == RetrievalSpec => []SearchInv
  BY InitSearch, NextSearch, PTL DEF RetrievalSpec

-----------------------------------------------------------------------------
\* Type correctness: the loops never read beyond the lists they walk, so that what is
\* ordered and what is selected are chunks.
THEOREM SearchTypes == RetrievalSpec => []RetrievalTypeOK
<1>1. SearchInv => RetrievalTypeOK
  BY DEF SearchInv
<1> QED
  BY <1>1, SearchAlways, PTL

LEMMA FollowsInv == SearchInv => RerankFollowsAnswer
<1> SUFFICES ASSUME SearchInv, Ordered
             PROVE  /\ ToSet(order) = ToSet(candidates)
                    /\ \A p, q \in 1 .. Len(order) : p < q =>
                          /\ order[p] # order[q]
                          /\ \A k \in Named(order[q]) :
                                \E j \in Named(order[p]) :
                                   rankings[j].relevance >= rankings[k].relevance
                          /\ Named(order[p]) = {} => Place(order[p]) < Place(order[q])
  BY DEF RerankFollowsAnswer
<1>1. Placed /\ ToSet(order) = ToSet(candidates)
  BY DEF SearchInv, Ordered
<1>2. ASSUME NEW p \in 1 .. Len(order), NEW q \in 1 .. Len(order), p < q,
             NEW k \in Named(order[q])
      PROVE  \E j \in Named(order[p]) : rankings[j].relevance >= rankings[k].relevance
  <2>1. PICK j \in Named(order[p]) : j < k
    BY <1>1, <1>2 DEF Placed
  <2>2. j \in 1 .. Len(rankings) /\ k \in 1 .. Len(rankings)
    BY DEF Named
  <2>3. rankings[j].relevance >= rankings[k].relevance
    BY <2>1, <2>2 DEF SearchInv
  <2> QED
    BY <2>3
<1> QED
  BY <1>1, <1>2 DEF Placed

\* The order in which parse_rerank_response returns the candidates is the one of the best
\* relevance the model's answer gives each, for every answer: no repeated, missing or
\* invented index drops a candidate or lets one come twice.
THEOREM AnswerFollowed == RetrievalSpec => []RerankFollowsAnswer
  BY FollowsInv, SearchAlways, PTL

LEMMA BestInv == SearchInv => SelectedBest
<1> SUFFICES ASSUME SearchInv, outcome \in {"hit", "miss"}, NEW p \in 1 .. Len(order)
             PROVE  order[p] \in ToSet(selected) <=> Chosen(p)
  BY DEF SelectedBest, Chosen
<1>1. /\ Placed /\ Selecting
      /\ at > Len(order) \/ Len(selected) >= TopK
      /\ selected \in Seq(Chunks) /\ order \in Seq(Chunks) /\ at \in Nat
  BY DEF SearchInv, RetrievalTypeOK
<1>2. CASE p \in 1 .. at - 1
  BY <1>1, <1>2 DEF Selecting
<1>3. CASE p \notin 1 .. at - 1
  <2>1. p >= at /\ Len(selected) >= TopK
    BY <1>1, <1>3
  <2>2. \A q \in 1 .. Len(order) : q < p => order[q] # order[p]
    BY <1>1 DEF Placed
  <2>3. ASSUME NEW i \in 1 .. Len(selected)
        PROVE  selected[i] # order[p] /\ selected[i] \in {order[q] : q \in 1 .. p - 1}
    <3>1. PICK q \in 1 .. at - 1 : selected[i] = order[q]
      BY <1>1 DEF Selecting
    <3>2. q \in 1 .. p - 1 /\ q \in 1 .. Len(order)
      BY <1>1, <2>1
    <3> QED
      BY <2>2, <3>1, <3>2
  <2>4. order[p] \notin ToSet(selected)
    BY <1>1, <2>3, InToSet
  <2>5. SelectedBefore(p) = ToSet(selected)
    BY <1>1, <2>3, InToSet DEF SelectedBefore
  <2>6. Cardinality(SelectedBefore(p)) = Len(selected)
    BY <1>1, <2>5, ChosenCounted DEF Selecting
  <2>7. ~ Chosen(p)
    <3>1. Len(selected) \in Nat
      BY <1>1
    <3> QED
      BY <2>1, <2>6, <3>1, RetrievalAssumption DEF Chosen
  <2> QED
    BY <2>4, <2>7
<1> QED
  BY <1>2, <1>3

\* The chunks returned are the first of the order that the minimum score, the share of
\* each document and the size of the prompt allow, whatever the limits are: none is passed
\* over for a worse one, and none is returned that a limit excludes.
THEOREM BestSelected == RetrievalSpec => []SelectedBest
  BY BestInv, SearchAlways, PTL
=============================================================================
