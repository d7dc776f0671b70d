---------------------------- MODULE MCDocuments -----------------------------
(***************************************************************************)
(* The sequential algorithms of the documents for TLC: a text cut into     *)
(* chunks when it is uploaded, and the chunks chosen when it is searched.  *)
(* One behaviour shows the one or the other; the subject says which.       *)
(*                                                                         *)
(* Three documents, one of them with two chunks: more chunks than the      *)
(* prompt takes, whether or not a document has more than its share.        *)
(***************************************************************************)
EXTENDS TextChunker, Retrieval

VARIABLE subject

FourChunks == {<<"d1", 0>>, <<"d1", 1>>, <<"d2", 0>>, <<"d3", 0>>}

\* The part that is not the subject rests: an empty text is cut, nothing is searched.
ChunkerRests == text = <<>> /\ start = 0 /\ chunks = <<>> /\ pc = "done"
RetrievalRests == score = [c \in FourChunks |-> 0] /\ visible = {} /\ RetrievalInit

algorithmVars == <<chunkerVars, retrievalVars, subject>>

AlgorithmInit ==
    \/ subject = "chunker" /\ ChunkerInit /\ RetrievalRests
    \/ subject = "search" /\ ChunkerRests /\ RetrievalInit

AlgorithmNext ==
    /\ \/ subject = "chunker" /\ ChunkerNext /\ UNCHANGED retrievalVars
       \/ subject = "search" /\ RetrievalNext /\ UNCHANGED chunkerVars
    /\ UNCHANGED subject

AlgorithmSpec ==
    /\ AlgorithmInit
    /\ [][AlgorithmNext]_algorithmVars
    /\ WF_algorithmVars(AlgorithmNext)
=============================================================================
