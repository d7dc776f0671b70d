---------------------------- MODULE TextChunker ----------------------------
(***************************************************************************)
(* TextChunker.chunk_text: how the text of a document is cut into chunks.  *)
(* Offsets count from 0, as in the code; the character at offset o is      *)
(* text[o + 1].  A character is ink, a space or a line break: a cut looks  *)
(* for the last two, and a chunk without ink is not kept.  One step is one *)
(* turn of the loop.                                                       *)
(***************************************************************************)
EXTENDS Naturals, Sequences

CONSTANTS
    ChunkSize,   \* document_chunk_size_chars
    Overlap,     \* document_chunk_overlap_chars
    MaxLength    \* bound: how long a text may be

\* What TextChunker.__init__ accepts.
ASSUME ChunkerAssumption ==
    /\ ChunkSize \in Nat
    /\ Overlap \in Nat
    /\ Overlap < ChunkSize
    /\ MaxLength \in Nat

VARIABLES
    text,     \* the text, normalised
    start,    \* where the next chunk starts
    chunks,   \* the chunks kept so far
    pc        \* "cut" or "done"

chunkerVars == <<text, start, chunks, pc>>

Char == {"ink", "space", "break"}
Length == Len(text)
InkAt(o) == text[o + 1] = "ink"

\* normalize_document_text strips the text: it begins and ends with ink.
Normalised(t) == Len(t) > 0 => t[1] = "ink" /\ t[Len(t)] = "ink"

\* The separators, as the characters they are made of.
Paragraph == <<"break", "break">>
Line == <<"break">>
Word == <<"space">>

-----------------------------------------------------------------------------
EndLimit(s) == IF s + ChunkSize < Length THEN s + ChunkSize ELSE Length

\* How much of a chunk is filled before a separator may end it.
Half == IF ChunkSize \div 2 > 1 THEN ChunkSize \div 2 ELSE 1

\* Whether the separator stands at an offset between the two bounds of rfind.
SplitsAt(sep, o, s) ==
    /\ s + Half <= o
    /\ o + Len(sep) <= EndLimit(s)
    /\ \A i \in 1 .. Len(sep) : text[o + i] = sep[i]

Splits(sep, s) == {o \in 0 .. Length : SplitsAt(sep, o, s)}

\* rfind: the last of them, the chunk ending behind it.
EndsBehind(sep, s, e) ==
    \E o \in Splits(sep, s) : e = o + Len(sep) /\ \A p \in Splits(sep, s) : p <= o

\* Mutant of ChunkEnd: the chunk ends before the last word that begins within it, and
\* the word is sought beyond the limit too.
ChunkEndUnlimited(s, e) ==
    \/ \E o \in s + Half .. Length - 1 :
          /\ text[o + 1] = "space"
          /\ e = o
          /\ \A p \in o + 1 .. Length - 1 : text[p + 1] # "space"
    \/ /\ \A o \in s + Half .. Length - 1 : text[o + 1] # "space"
       /\ e = EndLimit(s)

\* _determine_chunk_end: e is the end of the chunk that starts at s.
ChunkEnd(s, e) ==
    IF EndLimit(s) = Length THEN e = Length
    ELSE \/ EndsBehind(Paragraph, s, e)
         \/ Splits(Paragraph, s) = {} /\ EndsBehind(Line, s, e)
         \/ Splits(Paragraph, s) = {} /\ Splits(Line, s) = {} /\ EndsBehind(Word, s, e)
         \/ /\ Splits(Paragraph, s) = {} /\ Splits(Line, s) = {} /\ Splits(Word, s) = {}
            /\ e = EndLimit(s)

\* Mutant of NextStart: the overlap is always taken.
NextStartBack(s, e) == IF e < Overlap THEN 0 ELSE e - Overlap

\* Mutant of NextStart: where the overlap would not get on, a whole chunk is skipped.
NextStartPast(s, e) == IF e <= s + Overlap THEN s + ChunkSize ELSE e - Overlap

\* Where the next chunk starts: the overlap is given up when it would not get on.
NextStart(s, e) == IF e <= s + Overlap THEN e ELSE e - Overlap

Kept(s, e) ==
    IF \E o \in s .. e - 1 : InkAt(o)
    THEN Append(chunks, [index |-> Len(chunks), from |-> s, to |-> e])
    ELSE chunks

Cut ==
    /\ pc = "cut"
    /\ start < Length
    /\ \E e \in 0 .. Length :
          /\ ChunkEnd(start, e)
          /\ chunks' = Kept(start, e)
          /\ IF e = Length
             THEN pc' = "done" /\ UNCHANGED start
             ELSE start' = NextStart(start, e) /\ UNCHANGED pc
    /\ UNCHANGED text

\* An empty text has no chunk.
Stop ==
    /\ pc = "cut"
    /\ start >= Length
    /\ pc' = "done"
    /\ UNCHANGED <<text, start, chunks>>

ChunkerInit ==
    /\ text \in UNION {[1 .. n -> Char] : n \in 0 .. MaxLength}
    /\ Normalised(text)
    /\ start = 0
    /\ chunks = <<>>
    /\ pc = "cut"

ChunkerNext == Cut \/ Stop

ChunkerSpec == ChunkerInit /\ [][ChunkerNext]_chunkerVars

\* The loop runs on.
ChunkerFairSpec == ChunkerSpec /\ WF_chunkerVars(ChunkerNext)

-----------------------------------------------------------------------------
ChunkerTypeOK ==
    /\ text \in Seq(Char)
    /\ start \in 0 .. Length
    /\ chunks \in Seq([index : Nat, from : Nat, to : Nat])
    /\ pc \in {"cut", "done"}

\* No character that can be read is lost: every ink character before the point the loop
\* has reached, and in the end every one, is in a chunk, whatever the separators and
\* the overlap do.
InkCovered ==
    \A o \in 0 .. (IF pc = "done" THEN Length ELSE start) - 1 :
        InkAt(o) => \E i \in 1 .. Len(chunks) : chunks[i].from <= o /\ o < chunks[i].to

\* Chunks are numbered in order, are no longer than ChunkSize, and each starts behind
\* the one before and repeats at most Overlap characters of it.
ChunksInOrder ==
    \A i \in 1 .. Len(chunks) :
        /\ chunks[i].index = i - 1
        /\ chunks[i].from < chunks[i].to
        /\ chunks[i].to <= chunks[i].from + ChunkSize
        /\ i > 1 => /\ chunks[i - 1].from < chunks[i].from
                    /\ chunks[i - 1].to <= chunks[i].from + Overlap

\* While the overlap is at most half a chunk, no chunk lies within the one before it: each
\* adds text the others do not have, and is worth its embedding.
EveryChunkAdds ==
    Overlap <= Half =>
        \A i \in 2 .. Len(chunks) : chunks[i - 1].to < chunks[i].to

\* The loop ends, also where the overlap is longer than what a separator leaves of a
\* chunk.
EventuallyDone == pc = "cut" ~> pc = "done"
=============================================================================
