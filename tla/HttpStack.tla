------------------------------ MODULE HttpStack ------------------------------
(***************************************************************************)
(* One HTTP request on its way through the middleware of create_app, from  *)
(* the outside in:                                                         *)
(*                                                                         *)
(*   ServerErrorMiddleware (Starlette) -> RateLimitMiddleware              *)
(*     -> RequestSizeLimitMiddleware -> ObservabilityMiddleware            *)
(*     -> the FastAPI application                                          *)
(*                                                                         *)
(* RateLimiter models when a request is over the limit; here it may be or  *)
(* not.  The application is external: it reads the body or not, answers    *)
(* in one message or in many, or raises; a streaming answer is cut short   *)
(* without an exception when the client leaves (StreamingResponse).        *)
(*                                                                         *)
(* Bounds: MaxChunks chunks of a request body, MaxParts body messages of a *)
(* response.                                                               *)
(***************************************************************************)
EXTENDS Naturals, Sequences

CONSTANTS
    RateLimitEnabled,   \* whether RateLimitMiddleware is installed
    MaxBytes,           \* request_max_body_bytes
    ChunkBytes,         \* sizes a chunk of the body may have
    MaxChunks,
    MaxParts,
    Statuses,           \* statuses the application answers with
    BodyErrorAnswered   \* whether FastAPI may answer 400 to an error while reading a body

ASSUME HttpAssumption ==
    /\ MaxBytes \in Nat
    /\ ChunkBytes \subseteq Nat
    /\ MaxChunks \in Nat
    /\ MaxParts \in Nat \ {0}
    /\ Statuses \subseteq 200 .. 599
    /\ RateLimitEnabled \in BOOLEAN
    /\ BodyErrorAnswered \in BOOLEAN

VARIABLES
    pc,         \* where the request stands
    length,     \* the Content-Length header: "none", "within", "over"
    chunks,     \* chunks of the body read so far
    received,   \* received_bytes
    streaming,  \* whether the application answers with a StreamingResponse
    status,     \* _observability_status_code of the scope, 0 while it is not set
    parts,      \* body messages the application has sent
    finalized,  \* finalize has run
    records,    \* the statuses record_http_request was called with
    reply,      \* what went out: the status, with X-Request-ID or not, to its end or not
    client      \* whether the client still listens

httpVars == <<pc, length, chunks, received, streaming, status, parts, finalized, records,
          reply, client>>

NoReply == [status |-> 0, id |-> FALSE, whole |-> FALSE]
Reply == [status : {0} \union (200 .. 599), id : BOOLEAN, whole : BOOLEAN]
Pc == {"arrived", "sized", "reading", "handling", "answering", "answered", "ended"}

-----------------------------------------------------------------------------
\* finalize(status_code) records the request, the first time it is called.
Finalizes(code) ==
    /\ records' = IF finalized THEN records ELSE Append(records, code)
    /\ finalized' = TRUE

\* A middleware outside the ObservabilityMiddleware, or Starlette, answers by itself.
AnswersOutside(code) ==
    reply' = [status |-> code, id |-> FALSE, whole |-> client = "listening"]

\* RateLimitMiddleware
RefuseRate ==
    /\ pc = "arrived"
    /\ RateLimitEnabled
    /\ AnswersOutside(429)
    /\ pc' = "ended"
    /\ UNCHANGED <<length, chunks, received, streaming, status, parts, finalized, records, client>>

PassRate ==
    /\ pc = "arrived"
    /\ pc' = "sized"
    /\ UNCHANGED <<length, chunks, received, streaming, status, parts, finalized, records,
                   reply, client>>

\* RequestSizeLimitMiddleware, by the header
RefuseDeclared ==
    /\ pc = "sized"
    /\ length = "over"
    /\ AnswersOutside(413)
    /\ pc' = "ended"
    /\ UNCHANGED <<length, chunks, received, streaming, status, parts, finalized, records, client>>

\* A body that declares its length is no longer than that, which the server sees to.
Admit ==
    /\ pc = "sized"
    /\ length # "over"
    /\ \E s \in BOOLEAN : streaming' = s
    /\ pc' = "reading"
    /\ UNCHANGED <<length, chunks, received, status, parts, finalized, records, reply, client>>

TooLarge(n) == n > MaxBytes

\* receive_wrapper counts a chunk the application reads.
ReadChunk(n) ==
    /\ pc = "reading"
    /\ chunks < MaxChunks
    /\ length = "within" => received + n <= MaxBytes
    /\ chunks' = chunks + 1
    /\ received' = received + n
    /\ ~TooLarge(received')
    /\ UNCHANGED <<pc, length, streaming, status, parts, finalized, records, reply, client>>

\* RequestBodyTooLargeError passes the ObservabilityMiddleware, which records a failed
\* request, and is answered by the RequestSizeLimitMiddleware.
ReadTooMuch(n) ==
    /\ pc = "reading"
    /\ chunks < MaxChunks
    /\ length = "within" => received + n <= MaxBytes
    /\ chunks' = chunks + 1
    /\ received' = received + n
    /\ TooLarge(received')
    /\ \/ /\ Finalizes(500)
          /\ AnswersOutside(413)
          /\ pc' = "ended"
          /\ UNCHANGED status
       \/ /\ BodyErrorAnswered
          /\ status' = 400
          /\ reply' = [status |-> 400, id |-> TRUE, whole |-> FALSE]
          /\ pc' = "answering"
          /\ UNCHANGED <<finalized, records>>
    /\ UNCHANGED <<length, streaming, parts, client>>

BodyRead ==
    /\ pc = "reading"
    /\ pc' = "handling"
    /\ UNCHANGED <<length, chunks, received, streaming, status, parts, finalized, records,
                   reply, client>>

-----------------------------------------------------------------------------
\* http.response.start: the status is noted, the header added, the message sent.
ResponseStart(s) ==
    /\ pc = "handling"
    /\ status' = s
    /\ reply' = [status |-> s, id |-> TRUE, whole |-> FALSE]
    /\ pc' = "answering"
    /\ UNCHANGED <<length, chunks, received, streaming, parts, finalized, records, client>>

\* http.response.body with more_body: only a stream has such.
ResponsePart ==
    /\ pc = "answering"
    /\ streaming
    /\ parts < MaxParts
    /\ parts' = parts + 1
    /\ UNCHANGED <<pc, length, chunks, received, streaming, status, finalized, records,
                   reply, client>>

\* Mutant of ResponseEnd: the status that was noted is not used.
ResponseEndDefault ==
    /\ pc = "answering"
    /\ Finalizes(200)
    /\ reply' = [status |-> reply.status, id |-> reply.id, whole |-> client = "listening"]
    /\ pc' = "answered"
    /\ UNCHANGED <<length, chunks, received, streaming, status, parts, client>>

\* The last http.response.body: the request is recorded before the message is sent.
ResponseEnd ==
    /\ pc = "answering"
    /\ Finalizes(IF status = 0 THEN 200 ELSE status)
    /\ reply' = [status |-> reply.status, id |-> reply.id, whole |-> client = "listening"]
    /\ pc' = "answered"
    /\ UNCHANGED <<length, chunks, received, streaming, status, parts, client>>

Return ==
    /\ pc = "answered"
    /\ pc' = "ended"
    /\ UNCHANGED <<length, chunks, received, streaming, status, parts, finalized, records,
                   reply, client>>

\* The application raises, before its answer, in the middle of it or in what it has left
\* to do after it; Starlette answers for it only when nothing has been sent.
Raise ==
    /\ pc \in {"reading", "handling", "answering", "answered"}
    /\ Finalizes(500)
    /\ IF reply = NoReply THEN AnswersOutside(500) ELSE UNCHANGED reply
    /\ pc' = "ended"
    /\ UNCHANGED <<length, chunks, received, streaming, status, parts, client>>

\* The client leaves; what is sent from now on reaches nobody.
ClientLeaves ==
    /\ pc # "ended"
    /\ client = "listening"
    /\ client' = "gone"
    /\ UNCHANGED <<pc, length, chunks, received, streaming, status, parts, finalized, records,
                   reply>>

\* A StreamingResponse notices it and is cancelled without an exception.
StreamCut ==
    /\ pc = "answering"
    /\ streaming
    /\ client = "gone"
    /\ pc' = "ended"
    /\ UNCHANGED <<length, chunks, received, streaming, status, parts, finalized, records,
                   reply, client>>

HttpInit ==
    /\ pc = "arrived"
    /\ length \in {"none", "within", "over"}
    /\ chunks = 0
    /\ received = 0
    /\ streaming = FALSE
    /\ status = 0
    /\ parts = 0
    /\ finalized = FALSE
    /\ records = <<>>
    /\ reply = NoReply
    /\ client = "listening"

HttpNext ==
    \/ RefuseRate \/ PassRate \/ RefuseDeclared \/ Admit
    \/ \E n \in ChunkBytes : ReadChunk(n) \/ ReadTooMuch(n)
    \/ BodyRead
    \/ \E s \in Statuses : ResponseStart(s)
    \/ ResponsePart \/ ResponseEnd \/ Return \/ Raise
    \/ ClientLeaves \/ StreamCut

HttpSpec == HttpInit /\ [][HttpNext]_httpVars

-----------------------------------------------------------------------------
HttpTypeOK ==
    /\ pc \in Pc
    /\ length \in {"none", "within", "over"}
    /\ chunks \in 0 .. MaxChunks
    /\ received \in Nat
    /\ streaming \in BOOLEAN
    /\ status \in {0} \union (200 .. 599)
    /\ parts \in 0 .. MaxParts
    /\ finalized \in BOOLEAN
    /\ records \in Seq(200 .. 599)
    /\ reply \in Reply
    /\ client \in {"listening", "gone"}

\* A request is counted at most once, also when sending its last message or what the
\* application does after it raises.
RecordedOnce == Len(records) <= 1

\* A response the client has got to its end is recorded with the status the client saw,
\* but for a body found too large while it is read: 413 for the client, 500 for the
\* metrics.  What the middleware outside the ObservabilityMiddleware refuse is not
\* recorded.
RecordedAsSent ==
    pc = "ended" /\ reply.whole =>
        \/ records = <<reply.status>>
        \/ reply.status = 413 /\ records = <<500>>
        \/ reply.status \in {413, 429} /\ chunks = 0 /\ records = <<>>

\* Every HTTP response includes an X-Request-ID header.
RequestIdEverywhere == reply # NoReply => reply.id
=============================================================================
