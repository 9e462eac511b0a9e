-------------------------- MODULE StreamingServer --------------------------
(***************************************************************************)
(* StreamingServer.Process (pkg/epp/handlers): one ext_proc stream, that is *)
(* one HTTP request and its response.  Envoy (external) sends the parts of  *)
(* both; the server picks an endpoint once the request is complete, while   *)
(* reconcilers change the datastore it looks at.                            *)
(***************************************************************************)
EXTENDS Naturals, Sequences, WeightedDraw

CONSTANTS
    MaxChunks,    \* bound: body messages in each direction
    MaxChanges    \* bound: changes of the datastore during the stream

ASSUME StreamAssumption == MaxChunks \in Nat \ {0} /\ MaxChanges \in Nat

VARIABLES
    req,        \* the request: whether it has a body and trailers, and what body
    resp,       \* the response: its type, trailers and body, whether its status
                \* is 200, and whether a header "status" repeats ":status"
    envoy,      \* how far Envoy has got in sending both
    chunks,     \* body messages received in the current direction
    model,      \* ModelGet finds an InferenceModel
    pods,       \* the datastore has pods
    pool,       \* ds.pool is not nil
    changes,    \* changes of the datastore so far
    pc,         \* where Process is
    err,        \* its err variable: an error code, or "" for nil
    state,      \* reqCtx.RequestState
    pending,    \* the reqCtx fields ...Resp that hold a response
    running,    \* reqCtx.RequestRunning
    streaming,  \* reqCtx.modelServerStreaming
    status,     \* reqCtx.ResponseStatusCode
    named,      \* reqCtx.Model is set
    worker,     \* reqCtx.WorkerInstanceID is set
    sent,       \* the kinds of responses sent to Envoy
    body,       \* the response chunks sent on; 0 is the re-marshalled whole
    replaced,   \* that whole is not what the model server sent
    gauge,      \* inference_model_running_requests
    errors      \* what inference_model_request_error_total was increased by

input == <<req, resp>>
ds == <<model, pods, pool, changes>>
metrics == <<gauge, errors>>
reqCtx == <<state, pending, running, streaming, status, named, worker>>
out == <<sent, body, replaced>>
vars == <<input, envoy, chunks, ds, pc, err, reqCtx, out, metrics>>

Request == [hasBody : BOOLEAN, trailers : BOOLEAN, body : {"ok", "bad"}]
Response == [sse : BOOLEAN, trailers : BOOLEAN, ok : BOOLEAN, plain : BOOLEAN,
             body : {"ok", "notjson", "badusage"}]

Kind == {"requestHeaders", "requestBody", "responseHeaders", "responseBody",
         "responseEnd", "immediate"}
Code == {"BadRequest", "BadConfiguration", "InferencePoolResourceExhausted",
         "Unknown", "ModelServerError"}
State == {"RequestReceived", "HeaderRequestResponseComplete",
          "BodyRequestResponsesComplete", "ResponseRecieved",
          "HeaderResponseResponseComplete", "BodyResponseResponsesComplete"}
PC == {"recv", "lookup", "frontend", "schedule", "pool", "random", "randompool",
       "update", "error", "ended", "crashed"}

TypeOK ==
    /\ req \in Request /\ resp \in Response
    /\ envoy \in {"start", "request", "forwarded", "response", "done"}
    /\ chunks \in 0..MaxChunks
    /\ model \in BOOLEAN /\ pods \in BOOLEAN /\ pool \in BOOLEAN
    /\ changes \in 0..MaxChanges
    /\ pc \in PC /\ err \in Code \cup {""}
    /\ state \in State
    /\ pending \subseteq Kind
    /\ running \in BOOLEAN /\ streaming \in BOOLEAN
    /\ status \in {"", "ModelServerError"}
    /\ named \in BOOLEAN /\ worker \in BOOLEAN
    /\ sent \in Seq(Kind) /\ body \in Seq(0..MaxChunks)
    /\ replaced \in BOOLEAN
    /\ gauge \in 0..1
    /\ errors \in Seq(Code)
    /\ pc = "error" => err # ""

-----------------------------------------------------------------------------
(* The datastore under the reconcilers' hands.                              *)

DatastoreChanges ==
    /\ pc \notin {"ended", "crashed"}
    /\ changes < MaxChanges
    /\ changes' = changes + 1
    /\ \/ model' = ~model /\ UNCHANGED <<pods, pool>>
       \/ pods' = ~pods /\ UNCHANGED <<model, pool>>
       \/ ~pool /\ pool' = TRUE /\ UNCHANGED <<model, pods>>
       \/ pool /\ pool' = FALSE /\ model' = FALSE /\ pods' = FALSE
    /\ UNCHANGED <<input, envoy, chunks, pc, err, reqCtx, out, metrics>>

-----------------------------------------------------------------------------
(* The deferred function, and the ways Process returns.                     *)

RecordRequestErrCounter(code) ==
    errors' = IF code # "" THEN Append(errors, code) ELSE errors

\* The gauge has a series for each model, and none for an empty name.
IncRunningRequests == gauge' = IF named THEN gauge + 1 ELSE gauge
DecRunningRequests == gauge' = IF named THEN gauge - 1 ELSE gauge

\* Mutant: err was overwritten by the result of BuildErrResponse.
EndsLosesError(e) ==
    /\ pc' = "ended"
    /\ RecordRequestErrCounter(status)
    /\ IF running THEN DecRunningRequests ELSE UNCHANGED gauge

Ends(e) ==
    /\ pc' = "ended"
    /\ RecordRequestErrCounter(IF status # "" THEN status ELSE e)
    /\ IF running THEN DecRunningRequests ELSE UNCHANGED gauge

\* EOF, a canceled stream or a failing Recv.  Nothing was wrong with the
\* request, so err is nil.
StreamCloses ==
    /\ pc = "recv"
    /\ Ends(err)
    /\ UNCHANGED <<input, envoy, chunks, ds, err, reqCtx, out>>

\* BuildErrResponse: an immediate response for the codes it knows; the stream
\* fails with a gRPC status for the others.
HasImmediate(code) ==
    code \in {"InferencePoolResourceExhausted", "Internal", "BadRequest",
              "BadConfiguration"}

BuildErrResponse ==
    /\ pc = "error"
    /\ \/ HasImmediate(err) /\ sent' = Append(sent, "immediate")
       \/ UNCHANGED sent           \* no such response, or Send fails
    /\ Ends(err)
    /\ UNCHANGED <<input, envoy, chunks, ds, err, reqCtx, body, replaced>>

HttpStatus(code) ==
    CASE code = "InferencePoolResourceExhausted" -> 429
      [] code = "Internal"                       -> 500
      [] code = "BadRequest"                     -> 400
      [] code = "BadConfiguration"               -> 404

-----------------------------------------------------------------------------
(* HandleRequestHeaders: a request without a body goes to a random pod.     *)

Goto(label) == pc' = label /\ UNCHANGED err

Fail(code) == pc' = "error" /\ err' = code

RecvRequestHeaders ==
    /\ pc = "recv"
    /\ envoy = "start"
    /\ IF req.hasBody THEN envoy' = "request" /\ Goto("update")
                      ELSE envoy' = "forwarded" /\ Goto("random")
    /\ UNCHANGED <<input, chunks, ds, reqCtx, out, metrics>>

\* GetRandomPod: rand.Intn(0) panics, and nothing recovers a gRPC handler.
GetRandomPod ==
    /\ pc = "random"
    /\ Goto(IF pods THEN "randompool" ELSE "crashed")
    /\ UNCHANGED <<input, envoy, chunks, ds, reqCtx, out, metrics>>

\* populateRequestHeaderResponse: the endpoint, and the worker id if there is
\* one, as headers and metadata.
populateRequestHeaderResponse(responses) == responses \cup {"requestHeaders"}

RandomPoolGet ==
    /\ pc = "randompool"
    /\ IF pool THEN Goto("update") /\ pending' = populateRequestHeaderResponse(pending)
               ELSE Fail("Unknown") /\ UNCHANGED pending
    /\ UNCHANGED <<input, envoy, chunks, ds, state, running, streaming, status,
                   named, worker, out, metrics>>

-----------------------------------------------------------------------------
(* Request body messages are collected up to the one with EndOfStream, and  *)
(* HandleRequestBody then picks the endpoint.  When trailers follow, no     *)
(* body message has EndOfStream.                                            *)

RecvRequestBody ==
    /\ pc = "recv"
    /\ envoy = "request"
    /\ chunks < MaxChunks
    /\ \/ /\ ~req.trailers
          /\ chunks' = 0
          /\ envoy' = "forwarded"
          /\ Goto("lookup")
       \/ /\ chunks + 1 < MaxChunks \/ req.trailers
          /\ chunks' = chunks + 1
          /\ UNCHANGED envoy
          /\ Goto("update")
    /\ UNCHANGED <<input, ds, reqCtx, out, metrics>>

RecvRequestTrailers ==
    /\ pc = "recv"
    /\ envoy = "request"
    /\ req.trailers
    /\ chunks > 0
    /\ envoy' = "forwarded"
    /\ Goto("update")
    /\ UNCHANGED <<input, chunks, ds, reqCtx, out, metrics>>

\* HandleRequestBody: the body's model, ModelGet, and RandomWeightedDraw for
\* an object that has targets.
ModelLookup ==
    /\ pc = "lookup"
    /\ IF req.body = "bad" THEN Fail("BadRequest")
       ELSE IF ~model THEN Fail("BadConfiguration")
       ELSE \E target \in Drawn :
                IF target = 0 THEN Fail("BadConfiguration") ELSE Goto("frontend")
    /\ UNCHANGED <<input, envoy, chunks, ds, reqCtx, out, metrics>>

\* callFrontEndForWorker: an id, or an error that is only logged.
CallFrontEnd ==
    /\ pc = "frontend"
    /\ worker' \in BOOLEAN
    /\ Goto("schedule")
    /\ UNCHANGED <<input, envoy, chunks, ds, state, pending, running, streaming,
                   status, named, out, metrics>>

\* Schedule finds a pod, or finds none (always, if there is none).
Schedule ==
    /\ pc = "schedule"
    /\ \/ pods /\ Goto("pool")
       \/ Fail("InferencePoolResourceExhausted")
    /\ UNCHANGED <<input, envoy, chunks, ds, reqCtx, out, metrics>>

\* Mutant: populateRequestHeaderResponse is not called.
PoolGetBodyOnly ==
    /\ pc = "pool"
    /\ IF pool
       THEN /\ Goto("update")
            /\ named' = TRUE
            /\ pending' = pending \cup {"requestBody"}
       ELSE Fail("Unknown") /\ UNCHANGED <<named, pending>>
    /\ UNCHANGED <<input, envoy, chunks, ds, state, running, streaming, status,
                   worker, out, metrics>>

\* PoolGet for the port; then both responses are ready.
PoolGet ==
    /\ pc = "pool"
    /\ IF pool
       THEN /\ Goto("update")
            /\ named' = TRUE
            /\ pending' = populateRequestHeaderResponse(pending) \cup {"requestBody"}
       ELSE Fail("Unknown") /\ UNCHANGED <<named, pending>>
    /\ UNCHANGED <<input, envoy, chunks, ds, state, running, streaming, status,
                   worker, out, metrics>>

-----------------------------------------------------------------------------
(* The response.  That there is one only after the request headers were     *)
(* answered is an assumption on Envoy, which holds the request until then;  *)
(* Process itself would take the response headers at any time.              *)

\* The status is in ":status", which is not the key the code compares with; a
\* header "status" of the model server's own is looked at.
RecvResponseHeaders ==
    /\ pc = "recv"
    /\ envoy = "forwarded"
    /\ \E i \in DOMAIN sent : sent[i] = "requestHeaders"
    /\ envoy' \in {"response", "done"}
    /\ status' = IF resp.plain /\ ~resp.ok THEN "ModelServerError" ELSE status
    /\ streaming' = resp.sse
    /\ state' = "ResponseRecieved"
    /\ pending' = pending \cup {"responseHeaders"}
    /\ chunks' = 0
    /\ Goto("update")
    /\ UNCHANGED <<input, ds, running, named, worker, out, metrics>>

\* Mutant: only the last chunk is passed on.
RecvResponseBodySSELast ==
    /\ pc = "recv"
    /\ envoy = "response"
    /\ streaming
    /\ chunks < MaxChunks
    /\ chunks' = chunks + 1
    /\ \/ ~resp.trailers /\ envoy' = "done" /\ pending' = pending \cup {"responseEnd"}
       \/ chunks' < MaxChunks /\ UNCHANGED <<envoy, pending>>
    /\ Goto("update")
    /\ UNCHANGED <<input, ds, state, running, streaming, status, named, worker,
                   out, metrics>>

\* A text/event-stream response is passed on message by message.
RecvResponseBodySSE ==
    /\ pc = "recv"
    /\ envoy = "response"
    /\ streaming
    /\ chunks < MaxChunks
    /\ chunks' = chunks + 1
    /\ \/ ~resp.trailers /\ envoy' = "done" /\ pending' = pending \cup {"responseEnd"}
       \/ chunks' < MaxChunks /\ UNCHANGED envoy /\ pending' = pending \cup {"responseBody"}
    /\ Goto("update")
    /\ UNCHANGED <<input, ds, state, running, streaming, status, named, worker,
                   out, metrics>>

\* HandleResponseBody: the whole response, marshalled again (what was not JSON
\* becomes null, see SendResponseBody).  A usage without token counts panics.
HandleResponseBody ==
    /\ pending' = pending \cup {"responseEnd"}
    /\ Goto(IF resp.body = "badusage" THEN "crashed" ELSE "update")

\* Another response is collected up to its end.
RecvResponseBody ==
    /\ pc = "recv"
    /\ envoy = "response"
    /\ ~streaming
    /\ chunks < MaxChunks
    /\ chunks' = chunks + 1
    /\ \/ /\ ~resp.trailers
          /\ envoy' = "done"
          /\ HandleResponseBody
       \/ chunks' < MaxChunks /\ UNCHANGED <<envoy, pending>> /\ Goto("update")
    /\ UNCHANGED <<input, ds, state, running, streaming, status, named, worker,
                   out, metrics>>

RecvResponseTrailers ==
    /\ pc = "recv"
    /\ envoy = "response"
    /\ resp.trailers
    /\ chunks > 0
    /\ envoy' = "done"
    /\ Goto("update")
    /\ UNCHANGED <<input, chunks, ds, reqCtx, out, metrics>>

-----------------------------------------------------------------------------
(* updateStateAndSendIfNeeded: its ifs in order, each with a Send that may  *)
(* fail.  The two for trailers are dead: nothing sets those responses.      *)

\* Mutant: what is ready is sent.
CanSendAny(kind, s) == pc = "update" /\ kind \in pending

CanSend(kind, s) == pc = "update" /\ state = s /\ kind \in pending

SendRequestHeaders ==
    /\ CanSend("requestHeaders", "RequestReceived")
    /\ sent' = Append(sent, "requestHeaders")
    /\ state' = "HeaderRequestResponseComplete"
    /\ UNCHANGED <<input, envoy, chunks, ds, pc, err, pending, running, streaming,
                   status, named, worker, body, replaced, metrics>>

SendRequestBody ==
    /\ CanSend("requestBody", "HeaderRequestResponseComplete")
    /\ sent' = Append(sent, "requestBody")
    /\ state' = "BodyRequestResponsesComplete"
    /\ pending' = pending \ {"requestBody"}
    /\ running' = TRUE
    /\ IncRunningRequests
    /\ UNCHANGED <<input, envoy, chunks, ds, pc, err, streaming, status, named,
                   worker, body, replaced, errors>>

SendResponseHeaders ==
    /\ CanSend("responseHeaders", "ResponseRecieved")
    /\ sent' = Append(sent, "responseHeaders")
    /\ state' = "HeaderResponseResponseComplete"
    /\ UNCHANGED <<input, envoy, chunks, ds, pc, err, pending, running, streaming,
                   status, named, worker, body, replaced, metrics>>

SendResponseBody(kind) ==
    /\ CanSend(kind, "HeaderResponseResponseComplete")
    /\ sent' = Append(sent, kind)
    /\ state' = IF kind = "responseEnd" THEN "BodyResponseResponsesComplete" ELSE state
    /\ pending' = pending \ {kind}
    /\ body' = Append(body, IF streaming THEN chunks ELSE 0)
    /\ replaced' = (~streaming /\ resp.body = "notjson")
    /\ UNCHANGED <<input, envoy, chunks, ds, pc, err, running, streaming, status,
                   named, worker, metrics>>

Sendable ==
    \/ CanSend("requestHeaders", "RequestReceived")
    \/ CanSend("requestBody", "HeaderRequestResponseComplete")
    \/ CanSend("responseHeaders", "ResponseRecieved")
    \/ \E k \in {"responseBody", "responseEnd"} :
          CanSend(k, "HeaderResponseResponseComplete")

SendFails ==
    /\ Sendable
    /\ Ends(err)
    /\ UNCHANGED <<input, envoy, chunks, ds, err, reqCtx, out>>

Updated ==
    /\ pc = "update"
    /\ ~Sendable
    /\ Goto("recv")
    /\ UNCHANGED <<input, envoy, chunks, ds, reqCtx, out, metrics>>

-----------------------------------------------------------------------------
Init ==
    /\ req \in {r \in Request : ~r.hasBody => ~r.trailers /\ r.body = "ok"}
    /\ resp \in {r \in Response : r.sse => r.body = "ok"}
    /\ envoy = "start" /\ chunks = 0
    /\ pool \in BOOLEAN /\ model \in BOOLEAN /\ pods \in BOOLEAN
    /\ changes = 0
    /\ pc = "recv" /\ err = "" /\ state = "RequestReceived" /\ pending = {}
    /\ running = FALSE /\ streaming = FALSE /\ status = "" /\ named = FALSE
    /\ worker = FALSE
    /\ sent = <<>> /\ body = <<>> /\ replaced = FALSE
    /\ gauge = 0 /\ errors = <<>>

EnvoySends ==
    \/ RecvRequestHeaders \/ RecvRequestBody \/ RecvRequestTrailers
    \/ RecvResponseHeaders \/ RecvResponseBodySSE \/ RecvResponseBody
    \/ RecvResponseTrailers

Handler ==
    \/ GetRandomPod \/ RandomPoolGet
    \/ ModelLookup \/ CallFrontEnd \/ Schedule \/ PoolGet
    \/ BuildErrResponse
    \/ SendRequestHeaders \/ SendRequestBody \/ SendResponseHeaders
    \/ \E k \in {"responseBody", "responseEnd"} : SendResponseBody(k)
    \/ SendFails \/ Updated

Next == EnvoySends \/ Handler \/ StreamCloses \/ DatastoreChanges

Spec == Init /\ [][Next]_vars

(* Process goes on while it can, and Envoy sends what it has.               *)
FairSpec == Spec /\ WF_vars(Handler) /\ WF_vars(EnvoySends)

-----------------------------------------------------------------------------
(* Properties.                                                              *)

\* The stream keeps the order Envoy's full duplex mode asks for
\* (updateStateAndSendIfNeeded).
Order == INSTANCE ExtProcOrder WITH sent <- sent
OrderKept == Order!Spec

\* However the stream ends, its metrics are settled: an error that was
\* answered is counted once and under its code, no request is counted twice,
\* and the running-requests gauge is back where it was (the deferred function
\* of Process).
AccountsSettled ==
    pc = "ended" =>
        /\ Len(errors) <= 1
        /\ err # "" => errors = <<err>>
        /\ gauge = 0

\* Between two messages of a text/event-stream response, Envoy has got all
\* the chunks it sent, each once and in order.
ChunksInOrder ==
    pc = "recv" /\ streaming => body = [i \in 1..chunks |-> i]

\* Every request without trailers is answered, refused or given up.
AnsweredUnlessTrailers ==
    ~req.trailers => <>(sent # <<>> \/ pc \in {"ended", "crashed"})

\* A request that gets past the look-up has a target drawn in proportion to
\* the weights, whichever targets the object has (inferencemodel_types.go:165).
DrawInProportion == pc = "frontend" => Proportional

\* docs/proposals/004-endpoint-picker-protocol/README.md:45: without ready
\* endpoints the answer is 503.
NoEndpoints503 ==
    ~pods /\ changes = 0 =>
        /\ pc # "crashed"
        /\ (\E i \in DOMAIN sent : sent[i] = "immediate") =>
              ~model \/ req.body = "bad" \/ HttpStatus(err) = 503

\* streamingserver.go:214: a response that cannot be parsed passes through.
ResponsePassesThrough == ~replaced

\* A response with another status than 200 is counted as an error.
ModelServerErrorsCounted ==
    pc = "ended" /\ ~resp.ok /\ state = "BodyResponseResponsesComplete" =>
        errors = <<"ModelServerError">>
=============================================================================
