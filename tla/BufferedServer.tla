--------------------------- MODULE BufferedServer ---------------------------
(***************************************************************************)
(* Server.Process (pkg/epp/handlers), the ext_proc server for Envoy's       *)
(* buffered mode: every message of Envoy is answered by one response before *)
(* the next is read.  A streamed response comes in several messages.        *)
(***************************************************************************)
EXTENDS Naturals, Sequences

CONSTANTS
    MaxChunks,    \* bound: response body messages
    MaxChanges    \* bound: changes of the datastore during the stream

VARIABLES
    req,        \* the request body: "ok", or "bad" JSON or without a model
    resp,       \* the response: type, body, status 200, a plain "status" header
    envoy,      \* the message Envoy sends next
    chunks,     \* response body messages received
    received,   \* messages received
    model, pods, pool,  \* ModelGet finds an object, there are pods, a pool
    changes,    \* changes of the datastore so far
    pc,         \* where Process is
    err,        \* its err variable: an error code, or "" for nil
    answer,     \* its resp variable: a kind, or "empty" for nil
    streaming,  \* reqCtx.modelServerStreaming
    status,     \* reqCtx.ResponseStatusCode
    complete,   \* reqCtx.ResponseComplete
    sent,       \* the kinds of responses sent
    refused,    \* history: the code of an immediate response, or ""
    errors,     \* what inference_model_request_error_total was increased by
    latencies   \* times the request latency was recorded

ds == <<model, pods, pool, changes>>
ctx == <<streaming, status, complete>>
vars == <<req, resp, envoy, chunks, received, ds, pc, err, answer, ctx, sent,
          refused, errors, latencies>>

Response == [sse : BOOLEAN, ok : BOOLEAN, plain : {"none", "empty", "value"},
             body : {"ok", "bad"}]
Code == {"BadRequest", "BadConfiguration", "InferencePoolResourceExhausted", "Unknown"}
Kind == {"requestHeaders", "requestBody", "responseHeaders", "responseBody",
         "immediate", "empty"}

TypeOK ==
    /\ req \in {"ok", "bad"} /\ resp \in Response
    /\ envoy \in {"requestHeaders", "requestBody", "responseHeaders",
                  "responseBody", "done"}
    /\ chunks \in 0..MaxChunks /\ received \in 0..(4 + MaxChunks)
    /\ model \in BOOLEAN /\ pods \in BOOLEAN /\ pool \in BOOLEAN
    /\ changes \in 0..MaxChanges
    /\ pc \in {"recv", "lookup", "schedule", "pool", "respond", "send", "ended"}
    /\ err \in Code \cup {""} /\ (err # "" => pc \in {"respond", "ended"})
    /\ answer \in Kind
    /\ streaming \in BOOLEAN /\ complete \in BOOLEAN
    /\ status \in {"", "ModelServerError"}
    /\ sent \in Seq(Kind)
    /\ refused \in Code \cup {""}
    /\ errors \in Seq(Code \cup {"ModelServerError"})
    /\ latencies \in Nat

-----------------------------------------------------------------------------
DatastoreChanges ==
    /\ pc # "ended"
    /\ changes < MaxChanges
    /\ changes' = changes + 1
    /\ \/ model' = ~model /\ UNCHANGED <<pods, pool>>
       \/ pods' = ~pods /\ UNCHANGED <<model, pool>>
       \/ ~pool /\ pool' = TRUE /\ UNCHANGED <<model, pods>>
       \/ pool /\ pool' = FALSE /\ model' = FALSE /\ pods' = FALSE
    /\ UNCHANGED <<req, resp, envoy, chunks, received, pc, err, answer, ctx, sent,
                   refused, errors, latencies>>

\* The deferred function, which records no empty code.
Ends(e) ==
    /\ pc' = "ended"
    /\ LET code == IF status # "" THEN status ELSE e IN
       errors' = IF code # "" THEN Append(errors, code) ELSE errors

\* EOF, a canceled stream, or a failing Recv.
StreamCloses ==
    /\ pc = "recv"
    /\ Ends(err)
    /\ UNCHANGED <<req, resp, envoy, chunks, received, ds, err, answer, ctx, sent,
                   refused, latencies>>

-----------------------------------------------------------------------------
(* One message is received and its handler runs.                            *)

Recv(kind, next) ==
    /\ pc = "recv"
    /\ envoy = kind
    /\ envoy' \in next
    /\ received' = received + 1

HandleRequestHeaders ==
    /\ Recv("requestHeaders", {"requestBody"})
    /\ answer' = "requestHeaders"
    /\ pc' = "respond"
    /\ UNCHANGED <<req, resp, chunks, ds, err, ctx, sent, refused, errors, latencies>>

HandleRequestBody ==
    /\ Recv("requestBody", {"responseHeaders"})
    /\ answer' = "empty"
    /\ pc' = "lookup"
    /\ UNCHANGED <<req, resp, chunks, ds, err, ctx, sent, refused, errors, latencies>>

Step(from, to) == pc = from /\ pc' = to /\ UNCHANGED err
Fail(from, code) == pc = from /\ pc' = "respond" /\ err' = code

\* Mutant: an unknown model is taken for an error of the body.
ModelLookupBlames ==
    /\ \/ (req = "bad" \/ ~model) /\ Fail("lookup", "BadRequest")
       \/ req = "ok" /\ model /\ Step("lookup", "schedule")
    /\ UNCHANGED <<req, resp, envoy, chunks, received, ds, answer, ctx, sent,
                   refused, errors, latencies>>

\* Unmarshal, the model's name, ModelGet and RandomWeightedDraw.
ModelLookup ==
    /\ \/ req = "bad" /\ Fail("lookup", "BadRequest")
       \/ req = "ok" /\ ~model /\ Fail("lookup", "BadConfiguration")
       \/ req = "ok" /\ model /\ Step("lookup", "schedule")
    /\ UNCHANGED <<req, resp, envoy, chunks, received, ds, answer, ctx, sent,
                   refused, errors, latencies>>

Schedule ==
    /\ \/ pods /\ Step("schedule", "pool")
       \/ Fail("schedule", "InferencePoolResourceExhausted")
    /\ UNCHANGED <<req, resp, envoy, chunks, received, ds, answer, ctx, sent,
                   refused, errors, latencies>>

\* Mutant: PoolGet waits for a pool.
PoolGetRetries ==
    /\ pool /\ Step("pool", "respond") /\ answer' = "requestBody"
    /\ UNCHANGED <<req, resp, envoy, chunks, received, ds, ctx, sent, refused,
                   errors, latencies>>

PoolGet ==
    /\ IF pool THEN Step("pool", "respond") /\ answer' = "requestBody"
               ELSE Fail("pool", "Unknown") /\ UNCHANGED answer
    /\ UNCHANGED <<req, resp, envoy, chunks, received, ds, ctx, sent, refused,
                   errors, latencies>>

\* A header "status" has its first byte compared with "200": any value of it
\* marks the response as failed.
HandleResponseHeaders ==
    /\ Recv("responseHeaders", {"responseBody", "done"})
    /\ resp.plain # "empty"
    /\ status' = IF resp.plain = "value" THEN "ModelServerError" ELSE status
    /\ streaming' = resp.sse
    /\ answer' = "responseHeaders"
    /\ pc' = "respond"
    /\ UNCHANGED <<req, resp, chunks, ds, err, complete, sent, refused, errors,
                   latencies>>

\* An empty value has no first byte: the panic unwinds through the deferred
\* function and ends the process, and the stream with it.
StatusPanics ==
    /\ Recv("responseHeaders", {"done"})
    /\ resp.plain = "empty"
    /\ Ends(err)
    /\ UNCHANGED <<req, resp, chunks, ds, err, answer, ctx, sent, refused, latencies>>

\* Trailers after the request or the response are of no type that the switch
\* knows, and end the stream.
UnknownRequest ==
    /\ \/ Recv("responseHeaders", {"done"})
       \/ Recv("done", {"done"}) /\ chunks > 0
    /\ Ends(err)
    /\ UNCHANGED <<req, resp, chunks, ds, err, answer, ctx, sent, refused, latencies>>

\* The clock has moved on since the request was received.
RecordRequestLatencies == latencies' = latencies + 1

\* HandleStreaming: complete with the last message.
HandleStreaming ==
    /\ Recv("responseBody", {"responseBody", "done"})
    /\ streaming
    /\ chunks < MaxChunks
    /\ chunks' = chunks + 1
    /\ envoy' = "done" \/ chunks' < MaxChunks
    /\ complete' = (complete \/ envoy' = "done")
    /\ IF complete' THEN RecordRequestLatencies ELSE UNCHANGED latencies
    /\ answer' = "responseBody"
    /\ pc' = "respond"
    /\ UNCHANGED <<req, resp, ds, err, streaming, status, sent, refused, errors>>

\* HandleNonStreaming: a body that does not parse leaves resp nil.
HandleNonStreaming ==
    /\ Recv("responseBody", {"done"})
    /\ ~streaming
    /\ chunks' = chunks + 1
    /\ IF resp.body = "ok"
       THEN complete' = TRUE /\ RecordRequestLatencies /\ answer' = "responseBody"
       ELSE answer' = "empty" /\ UNCHANGED <<complete, latencies>>
    /\ pc' = "respond"
    /\ UNCHANGED <<req, resp, ds, err, streaming, status, sent, refused, errors>>

-----------------------------------------------------------------------------
HasImmediate(code) ==
    code \in {"InferencePoolResourceExhausted", "Internal", "BadRequest",
              "BadConfiguration"}

\* BuildErrResponse's result replaces resp and err: an error that has an
\* immediate response is forgotten, another one ends the stream.
BuildErrResponse ==
    /\ pc = "respond"
    /\ IF err = "" THEN pc' = "send" /\ UNCHANGED <<answer, err, refused, errors>>
       ELSE IF HasImmediate(err)
       THEN /\ answer' = "immediate" /\ err' = "" /\ refused' = err
            /\ pc' = "send" /\ UNCHANGED errors
       ELSE Ends(err) /\ UNCHANGED <<answer, err, refused>>
    /\ UNCHANGED <<req, resp, envoy, chunks, received, ds, ctx, sent, latencies>>

\* Mutant: a nil response is not sent.
SendResponseSkipsNil ==
    /\ pc = "send"
    /\ sent' = IF answer = "empty" THEN sent ELSE Append(sent, answer)
    /\ envoy' = IF answer = "immediate" THEN "done" ELSE envoy
    /\ pc' = "recv"
    /\ UNCHANGED <<req, resp, chunks, received, ds, err, answer, ctx, refused,
                   errors, latencies>>

\* After an immediate response Envoy ends the stream.
SendResponse ==
    /\ pc = "send"
    /\ sent' = Append(sent, answer)
    /\ envoy' = IF answer = "immediate" THEN "done" ELSE envoy
    /\ pc' = "recv"
    /\ UNCHANGED <<req, resp, chunks, received, ds, err, answer, ctx, refused,
                   errors, latencies>>

SendFails ==
    /\ pc = "send"
    /\ Ends(err)
    /\ UNCHANGED <<req, resp, envoy, chunks, received, ds, err, answer, ctx, sent,
                   refused, latencies>>

-----------------------------------------------------------------------------
Init ==
    /\ req \in {"ok", "bad"} /\ resp \in Response
    /\ envoy = "requestHeaders" /\ chunks = 0 /\ received = 0
    /\ model \in BOOLEAN /\ pods \in BOOLEAN /\ pool \in BOOLEAN /\ changes = 0
    /\ pc = "recv" /\ err = "" /\ answer = "empty"
    /\ streaming = FALSE /\ status = "" /\ complete = FALSE
    /\ sent = <<>> /\ refused = "" /\ errors = <<>> /\ latencies = 0

Handler ==
    \/ ModelLookup \/ Schedule \/ PoolGet \/ BuildErrResponse
    \/ SendResponse \/ SendFails

EnvoySends ==
    \/ HandleRequestHeaders \/ HandleRequestBody \/ HandleResponseHeaders
    \/ HandleStreaming \/ HandleNonStreaming \/ StatusPanics

Next == EnvoySends \/ Handler \/ UnknownRequest \/ StreamCloses \/ DatastoreChanges

Spec == Init /\ [][Next]_vars

-----------------------------------------------------------------------------
(* Properties.                                                              *)

\* Every message is answered before the next is read, by a response of its
\* own kind, by the immediate response that ends the exchange, or, for an
\* unparsable response body, by an empty one.
OneAnswerEach ==
    pc = "recv" =>
        /\ Len(sent) = received
        /\ \A i \in 1..Len(sent) :
              sent[i] \in CASE i = 1 -> {"requestHeaders"}
                            [] i = 2 -> {"requestBody", "immediate"}
                            [] i = 3 -> {"responseHeaders"}
                            [] OTHER -> {"responseBody", "empty"}

\* The latency of a request is recorded once, when its response is complete.
LatencyOnce == latencies = IF complete THEN 1 ELSE 0

\* server.go:73: each request reports its error once.
ErrorsCounted == pc = "ended" /\ refused # "" => errors = <<refused>>

\* server.go:120: a response that cannot be parsed passes through.
ResponsePassesThrough == \A i \in DOMAIN sent : sent[i] # "empty"

\* A response with status 200 is not an error.
SuccessNotCounted ==
    resp.ok /\ complete => status = ""
=============================================================================
