----------------------- MODULE StreamingServer_proofs -----------------------
(***************************************************************************)
(* The safety of the streaming server for any number of body messages and   *)
(* of changes of the datastore: its metrics are settled when a stream ends, *)
(* its responses come in the order of ExtProcOrder, and the chunks of a     *)
(* streamed response in theirs.                                             *)
(*                                                                          *)
(* Both rest on how far Envoy is (Progress).  While the server chooses an   *)
(* endpoint nothing has been sent and nothing is ready to be sent; an error *)
(* can only come up there, so that none is counted beside the status of a   *)
(* response; and the body is sent on, which raises the gauge, once.         *)
(*                                                                          *)
(* Then what the choice rests on: RandomWeightedDraw gives every target its *)
(* share, for any weights, and the call of the front end passes over no     *)
(* event and takes its result from the last, for any stream.                *)
(***************************************************************************)
EXTENDS StreamingServer, FrontEndCall, Integers, SequenceTheorems, FiniteSetTheorems,
        WellFoundedInduction, TLAPS

\* Where Process chooses an endpoint, or has failed to.
Choosing == {"lookup", "frontend", "schedule", "pool", "random", "randompool", "error"}

\* Nothing is answered yet, and nothing is ready.
Untouched == /\ state = "RequestReceived" /\ pending = {} /\ ~running /\ status = ""

Progress ==
    /\ pc \in Choosing => envoy = "forwarded" /\ Untouched
    /\ envoy \in {"start", "request"} => Untouched
    /\ envoy = "forwarded" =>
          /\ state \in {"RequestReceived", "HeaderRequestResponseComplete",
                        "BodyRequestResponsesComplete"}
          /\ status = ""
    /\ err # "" => pc \in {"error", "ended"} /\ status = ""
    /\ "requestBody" \in pending => ~running

\* Before the end nothing is counted, and the gauge has its request.
Accounts ==
    /\ pc # "ended" => errors = <<>> /\ gauge = IF running /\ named THEN 1 ELSE 0
    /\ AccountsSettled

\* RequestState says which response was sent last.
LastSent ==
    /\ sent \in Seq(Kind)
    /\ pc # "ended" =>
          /\ state = "RequestReceived" => sent = <<>>
          /\ state = "HeaderRequestResponseComplete" => Order!Last = "requestHeaders"
          /\ state = "BodyRequestResponsesComplete" => Order!Last = "requestBody"
          /\ state = "ResponseRecieved" => Order!Last \in {"requestHeaders", "requestBody"}
          /\ state = "HeaderResponseResponseComplete" =>
                Order!Last \in {"responseHeaders", "responseBody"}

SInv == Progress /\ Accounts /\ LastSent

\* The part of a streamed response that is ready and has not been sent on.
Ready == pending \cap {"responseBody", "responseEnd"}

\* Envoy has got the first k chunks.
Whole(k) == body = [i \in 1..k |-> i]

\* A streamed response is sent on up to the chunk that is ready; before it
\* begins, nothing is.
ChunkInv ==
    /\ chunks \in Nat
    /\ envoy \in {"start", "request", "forwarded"} => ~streaming /\ body = <<>> /\ Ready = {}
    /\ "responseEnd" \in pending => envoy = "done"
    /\ streaming /\ pc \in {"recv", "update"} =>
          /\ state \in {"ResponseRecieved", "HeaderResponseResponseComplete",
                        "BodyResponseResponsesComplete"}
          /\ pc = "recv" => Ready = {} /\ state # "ResponseRecieved"
          /\ state = "ResponseRecieved" => Ready = {} /\ "responseHeaders" \in pending
          /\ state = "BodyResponseResponsesComplete" => Ready = {} /\ envoy = "done"
          /\ Ready = {} => Whole(chunks)
          /\ Ready # {} => chunks > 0 /\ Whole(chunks - 1) /\ \E k \in Kind : Ready = {k}

-----------------------------------------------------------------------------
\* The last response after another one is sent.
LEMMA LastAppend ==
    ASSUME NEW s \in Seq(Kind), NEW k \in Kind
    PROVE  /\ Append(s, k) \in Seq(Kind)
           /\ Append(s, k) # <<>>
           /\ Append(s, k)[Len(Append(s, k))] = k
OBVIOUS

\* A stream begins with nothing counted and nothing sent.
LEMMA InitSInv == Init => SInv
<1>. SUFFICES ASSUME Init PROVE SInv
  OBVIOUS
<1>1. Progress
  BY DEF Init, Progress, Untouched, Choosing
<1>2. Accounts
  BY DEF Init, Accounts, AccountsSettled
<1>3. sent = <<>> /\ sent \in Seq(Kind) /\ state = "RequestReceived"
  <2>1. sent = <<>> /\ state = "RequestReceived"
    BY DEF Init
  <2>. QED  BY <2>1
<1>4. LastSent
  BY <1>3 DEF LastSent
<1>. QED  BY <1>1, <1>2, <1>4 DEF SInv

\* The deferred function settles what an open stream has counted: nothing so
\* far, its one error now, and its request no longer.
LEMMA EndsSettles ==
    ASSUME Progress, Accounts, pc # "ended", Ends(err), UNCHANGED err
    PROVE  Accounts'
<1>1. errors = <<>> /\ gauge = IF running /\ named THEN 1 ELSE 0
  BY DEF Accounts
<1>2. gauge' = 0
  <2>1. CASE running /\ named
    <3>1. gauge = 1 /\ gauge' = gauge - 1
      BY <1>1, <2>1, Zenon DEF Ends, DecRunningRequests
    <3>. QED  BY <3>1
  <2>2. CASE ~(running /\ named)
    BY <1>1, <2>2, Zenon DEF Ends, DecRunningRequests
  <2>. QED  BY <2>1, <2>2, Zenon
<1>3. /\ Append(<<>>, status) = <<status>> /\ Append(<<>>, err) = <<err>>
      /\ Len(<<status>>) <= 1 /\ Len(<<err>>) <= 1 /\ Len(<<>>) <= 1
  OBVIOUS
<1>4. Len(errors') <= 1 /\ (err # "" => errors' = <<err>>)
  <2>1. CASE status # ""
    <3>1. errors' = Append(<<>>, status) /\ err = ""
      BY <1>1, <2>1, Zenon DEF Ends, RecordRequestErrCounter, Progress
    <3>. QED  BY <1>3, <3>1, Zenon
  <2>2. CASE status = "" /\ err # ""
    <3>1. errors' = Append(<<>>, err)
      BY <1>1, <2>2, Zenon DEF Ends, RecordRequestErrCounter
    <3>. QED  BY <1>3, <3>1, Zenon
  <2>3. CASE status = "" /\ err = ""
    BY <1>1, <1>3, <2>3, Zenon DEF Ends, RecordRequestErrCounter
  <2>. QED  BY <2>1, <2>2, <2>3, Zenon
<1>. QED  BY <1>2, <1>4, Zenon DEF Accounts, AccountsSettled, Ends

\* Every step keeps the invariant.
LEMMA NextSInv == SInv /\ [Next]_vars => SInv'
<1>. SUFFICES ASSUME SInv, [Next]_vars PROVE SInv'
  OBVIOUS
<1>. USE DEF SInv, input, ds, reqCtx, out, metrics, Goto, Fail
<1>1. CASE RecvRequestHeaders
  <2>1. Progress'
    BY <1>1 DEF RecvRequestHeaders, Progress, Untouched, Choosing
  <2>2. Accounts'
    BY <1>1 DEF RecvRequestHeaders, Accounts, AccountsSettled
  <2>3. LastSent'
    BY <1>1 DEF RecvRequestHeaders, LastSent, Order!Last
  <2>. QED  BY <2>1, <2>2, <2>3
<1>2. CASE RecvRequestBody
  <2>1. Progress'
    BY <1>2 DEF RecvRequestBody, Progress, Untouched, Choosing
  <2>2. Accounts'
    BY <1>2 DEF RecvRequestBody, Accounts, AccountsSettled
  <2>3. LastSent'
    BY <1>2 DEF RecvRequestBody, LastSent, Order!Last
  <2>. QED  BY <2>1, <2>2, <2>3
<1>3. CASE RecvRequestTrailers
  <2>1. Progress'
    BY <1>3 DEF RecvRequestTrailers, Progress, Untouched, Choosing
  <2>2. Accounts'
    BY <1>3 DEF RecvRequestTrailers, Accounts, AccountsSettled
  <2>3. LastSent'
    BY <1>3 DEF RecvRequestTrailers, LastSent, Order!Last
  <2>. QED  BY <2>1, <2>2, <2>3
<1>4. CASE RecvResponseHeaders
  <2>1. Progress'
    BY <1>4 DEF RecvResponseHeaders, Progress, Untouched, Choosing
  <2>2. Accounts'
    BY <1>4 DEF RecvResponseHeaders, Accounts, AccountsSettled
  <2>3. LastSent'
    <3>a. \E i \in DOMAIN sent : sent[i] = "requestHeaders"
      BY <1>4, Zenon DEF RecvResponseHeaders
    <3>b. sent # <<>>
      BY <3>a
    <3>1. /\ pc = "recv" /\ sent' = sent /\ state' = "ResponseRecieved"
          /\ state \in {"RequestReceived", "HeaderRequestResponseComplete",
                        "BodyRequestResponsesComplete"}
      BY <1>4 DEF RecvResponseHeaders, Progress
    <3>2. Order!Last \in {"requestHeaders", "requestBody"}
      BY <3>b, <3>1 DEF LastSent
    <3>3. Order!Last' = Order!Last
      BY <3>1 DEF Order!Last
    <3>. QED  BY <3>1, <3>2, <3>3 DEF LastSent
  <2>. QED  BY <2>1, <2>2, <2>3
<1>5. CASE RecvResponseBodySSE
  <2>1. Progress'
    BY <1>5 DEF RecvResponseBodySSE, Progress, Untouched, Choosing
  <2>2. Accounts'
    BY <1>5 DEF RecvResponseBodySSE, Accounts, AccountsSettled
  <2>3. LastSent'
    BY <1>5 DEF RecvResponseBodySSE, LastSent, Order!Last
  <2>. QED  BY <2>1, <2>2, <2>3
<1>6. CASE RecvResponseBody
  <2>1. Progress'
    BY <1>6 DEF RecvResponseBody, HandleResponseBody, Progress, Untouched, Choosing
  <2>2. Accounts'
    BY <1>6 DEF RecvResponseBody, HandleResponseBody, Accounts, AccountsSettled
  <2>3. LastSent'
    BY <1>6 DEF RecvResponseBody, HandleResponseBody, LastSent, Order!Last
  <2>. QED  BY <2>1, <2>2, <2>3
<1>7. CASE RecvResponseTrailers
  <2>1. Progress'
    BY <1>7 DEF RecvResponseTrailers, Progress, Untouched, Choosing
  <2>2. Accounts'
    BY <1>7 DEF RecvResponseTrailers, Accounts, AccountsSettled
  <2>3. LastSent'
    BY <1>7 DEF RecvResponseTrailers, LastSent, Order!Last
  <2>. QED  BY <2>1, <2>2, <2>3
<1>8. CASE GetRandomPod
  <2>1. Progress'
    BY <1>8 DEF GetRandomPod, Progress, Untouched, Choosing
  <2>2. Accounts'
    BY <1>8 DEF GetRandomPod, Accounts, AccountsSettled
  <2>3. LastSent'
    BY <1>8 DEF GetRandomPod, LastSent, Order!Last
  <2>. QED  BY <2>1, <2>2, <2>3
<1>9. CASE RandomPoolGet
  <2>1. Progress'
    BY <1>9 DEF RandomPoolGet, populateRequestHeaderResponse, Progress, Untouched, Choosing
  <2>2. Accounts'
    BY <1>9 DEF RandomPoolGet, populateRequestHeaderResponse, Accounts, AccountsSettled
  <2>3. LastSent'
    BY <1>9 DEF RandomPoolGet, populateRequestHeaderResponse, LastSent, Order!Last
  <2>. QED  BY <2>1, <2>2, <2>3
<1>10. CASE ModelLookup
  <2>1. Progress'
    BY <1>10 DEF ModelLookup, Progress, Untouched, Choosing
  <2>2. Accounts'
    BY <1>10 DEF ModelLookup, Accounts, AccountsSettled
  <2>3. LastSent'
    BY <1>10 DEF ModelLookup, LastSent, Order!Last
  <2>. QED  BY <2>1, <2>2, <2>3
<1>11. CASE CallFrontEnd
  <2>1. Progress'
    BY <1>11 DEF CallFrontEnd, Progress, Untouched, Choosing
  <2>2. Accounts'
    BY <1>11 DEF CallFrontEnd, Accounts, AccountsSettled
  <2>3. LastSent'
    BY <1>11 DEF CallFrontEnd, LastSent, Order!Last
  <2>. QED  BY <2>1, <2>2, <2>3
<1>12. CASE Schedule
  <2>1. Progress'
    BY <1>12 DEF Schedule, Progress, Untouched, Choosing
  <2>2. Accounts'
    BY <1>12 DEF Schedule, Accounts, AccountsSettled
  <2>3. LastSent'
    BY <1>12 DEF Schedule, LastSent, Order!Last
  <2>. QED  BY <2>1, <2>2, <2>3
<1>13. CASE PoolGet
  <2>1. Progress'
    BY <1>13 DEF PoolGet, populateRequestHeaderResponse, Progress, Untouched, Choosing
  <2>2. Accounts'
    BY <1>13 DEF PoolGet, Accounts, AccountsSettled, Progress, Untouched, Choosing
  <2>3. LastSent'
    BY <1>13 DEF PoolGet, populateRequestHeaderResponse, LastSent, Order!Last
  <2>. QED  BY <2>1, <2>2, <2>3
<1>14. CASE BuildErrResponse
  <2>1. Progress'
    BY <1>14 DEF BuildErrResponse, Ends, HasImmediate, Progress, Untouched, Choosing
  <2>2. Accounts'
    BY <1>14, EndsSettles DEF BuildErrResponse
  <2>3. LastSent'
    BY <1>14, LastAppend DEF BuildErrResponse, Ends, HasImmediate, LastSent, Order!Last, Kind
  <2>. QED  BY <2>1, <2>2, <2>3
<1>15. CASE SendRequestHeaders
  <2>1. Progress'
    BY <1>15 DEF SendRequestHeaders, CanSend, Progress, Untouched, Choosing
  <2>2. Accounts'
    BY <1>15 DEF SendRequestHeaders, CanSend, Accounts, AccountsSettled
  <2>3. LastSent'
    BY <1>15, LastAppend DEF SendRequestHeaders, CanSend, LastSent, Order!Last, Kind
  <2>. QED  BY <2>1, <2>2, <2>3
<1>16. CASE SendRequestBody
  <2>1. Progress'
    BY <1>16 DEF SendRequestBody, IncRunningRequests, CanSend, Progress, Untouched, Choosing
  <2>2. Accounts'
    <3>1. gauge = 0 /\ errors = <<>> /\ pc = "update"
      BY <1>16, Zenon DEF SendRequestBody, CanSend, Accounts, Progress
    <3>2. gauge + 1 = 1
      BY <3>1
    <3>. QED  BY <1>16, <3>1, <3>2, Zenon
           DEF SendRequestBody, IncRunningRequests, Accounts, AccountsSettled
  <2>3. LastSent'
    BY <1>16, LastAppend DEF SendRequestBody, CanSend, LastSent, Order!Last, Kind
  <2>. QED  BY <2>1, <2>2, <2>3
<1>17. CASE SendResponseHeaders
  <2>1. Progress'
    BY <1>17 DEF SendResponseHeaders, CanSend, Progress, Untouched, Choosing
  <2>2. Accounts'
    BY <1>17 DEF SendResponseHeaders, CanSend, Accounts, AccountsSettled
  <2>3. LastSent'
    BY <1>17, LastAppend DEF SendResponseHeaders, CanSend, LastSent, Order!Last, Kind
  <2>. QED  BY <2>1, <2>2, <2>3
<1>18. ASSUME NEW k \in {"responseBody", "responseEnd"}, SendResponseBody(k) PROVE SInv'
  <2>1. Progress'
    BY <1>18 DEF SendResponseBody, CanSend, Progress, Untouched, Choosing
  <2>2. Accounts'
    BY <1>18 DEF SendResponseBody, CanSend, Accounts, AccountsSettled
  <2>3. LastSent'
    <3>1. k \in Kind /\ sent \in Seq(Kind) /\ sent' = Append(sent, k)
      BY <1>18 DEF SendResponseBody, Kind, LastSent
    <3>2. sent' \in Seq(Kind) /\ Order!Last' = k
      BY <3>1, LastAppend DEF Order!Last
    <3>3. \/ k = "responseBody" /\ state' = "HeaderResponseResponseComplete"
          \/ state' = "BodyResponseResponsesComplete"
      BY <1>18 DEF SendResponseBody, CanSend
    <3>. QED  BY <3>2, <3>3 DEF LastSent
  <2>. QED  BY <2>1, <2>2, <2>3
<1>19. CASE SendFails
  <2>1. Progress'
    BY <1>19 DEF SendFails, Ends, Sendable, CanSend, Progress, Untouched, Choosing
  <2>2. Accounts'
    BY <1>19, EndsSettles DEF SendFails, Sendable, CanSend
  <2>3. LastSent'
    BY <1>19 DEF SendFails, Ends, Sendable, CanSend, LastSent, Order!Last
  <2>. QED  BY <2>1, <2>2, <2>3
<1>20. CASE Updated
  <2>1. Progress'
    BY <1>20 DEF Updated, Progress, Untouched, Choosing
  <2>2. Accounts'
    BY <1>20 DEF Updated, Accounts, AccountsSettled
  <2>3. LastSent'
    BY <1>20 DEF Updated, LastSent, Order!Last
  <2>. QED  BY <2>1, <2>2, <2>3
<1>21. CASE StreamCloses
  <2>1. Progress'
    BY <1>21 DEF StreamCloses, Ends, Progress, Untouched, Choosing
  <2>2. Accounts'
    BY <1>21, EndsSettles DEF StreamCloses
  <2>3. LastSent'
    BY <1>21 DEF StreamCloses, Ends, LastSent, Order!Last
  <2>. QED  BY <2>1, <2>2, <2>3
<1>22. CASE DatastoreChanges
  <2>1. Progress'
    BY <1>22 DEF DatastoreChanges, Progress, Untouched, Choosing
  <2>2. Accounts'
    BY <1>22 DEF DatastoreChanges, Accounts, AccountsSettled
  <2>3. LastSent'
    BY <1>22 DEF DatastoreChanges, LastSent, Order!Last
  <2>. QED  BY <2>1, <2>2, <2>3
<1>23. CASE UNCHANGED vars
  <2>1. Progress'
    BY <1>23 DEF vars, Progress, Untouched, Choosing
  <2>2. Accounts'
    BY <1>23 DEF vars, Accounts, AccountsSettled
  <2>3. LastSent'
    BY <1>23 DEF vars, LastSent, Order!Last
  <2>. QED  BY <2>1, <2>2, <2>3
<1>. QED  BY <1>1, <1>2, <1>3, <1>4, <1>5, <1>6, <1>7, <1>8, <1>9, <1>10, <1>11,
             <1>12, <1>13, <1>14, <1>15, <1>16, <1>17, <1>18, <1>19, <1>20, <1>21,
             <1>22, <1>23 DEF Next, EnvoySends, Handler

\* A step sends nothing, or what may follow the response sent last.
LEMMA NextOrder == SInv /\ [Next]_vars => [Order!Next]_sent
<1>. SUFFICES ASSUME SInv, [Next]_vars PROVE [Order!Next]_sent
  OBVIOUS
<1>. USE DEF Order!Next, Order!Send, SInv, LastSent, out, vars
<1>1. CASE BuildErrResponse
  BY <1>1 DEF BuildErrResponse, Progress, Untouched, Choosing, Order!Last
<1>2. CASE SendRequestHeaders
  BY <1>2 DEF SendRequestHeaders, CanSend, Order!Last
<1>3. CASE SendRequestBody
  BY <1>3 DEF SendRequestBody, CanSend
<1>4. CASE SendResponseHeaders
  BY <1>4 DEF SendResponseHeaders, CanSend
<1>5. ASSUME NEW k \in {"responseBody", "responseEnd"}, SendResponseBody(k)
      PROVE  Order!Next
  BY <1>5 DEF SendResponseBody, CanSend
<1>6. CASE EnvoySends \/ StreamCloses \/ DatastoreChanges \/ SendFails \/ Updated
  BY <1>6 DEF EnvoySends, RecvRequestHeaders, RecvRequestBody, RecvRequestTrailers,
       RecvResponseHeaders, RecvResponseBodySSE, RecvResponseBody,
       RecvResponseTrailers, StreamCloses, DatastoreChanges, SendFails, Updated
<1>7. CASE GetRandomPod \/ RandomPoolGet \/ ModelLookup \/ CallFrontEnd \/ Schedule \/ PoolGet
  BY <1>7 DEF GetRandomPod, RandomPoolGet, ModelLookup, CallFrontEnd, Schedule, PoolGet
<1>8. CASE UNCHANGED vars
  BY <1>8
<1>. QED  BY <1>1, <1>2, <1>3, <1>4, <1>5, <1>6, <1>7, <1>8 DEF Next, Handler

\* Nothing of a response is there before Envoy sends its headers.
LEMMA EarlyChunks ==
    ASSUME ChunkInv, chunks' \in Nat, UNCHANGED <<streaming, body>>,
           envoy \in {"start", "request", "forwarded"},
           envoy' \in {"start", "request", "forwarded"},
           pending' \subseteq pending \cup {"requestHeaders", "requestBody"}
    PROVE  ChunkInv'
<1>1. ~streaming /\ body = <<>> /\ Ready = {} /\ "responseEnd" \notin pending
  BY DEF ChunkInv
<1>2. Ready' = {} /\ "responseEnd" \notin pending'
  BY <1>1 DEF Ready
<1>. QED  BY <1>1, <1>2 DEF ChunkInv

\* A step that touches nothing of a response.
LEMMA SameChunks ==
    ASSUME ChunkInv, UNCHANGED <<envoy, chunks, state, pending, streaming, body>>,
           pc' = pc \/ pc' \notin {"recv", "update"}
    PROVE  ChunkInv'
<1>1. Ready' = Ready
  BY DEF Ready
<1>2. Whole(chunks)' = Whole(chunks) /\ Whole(chunks - 1)' = Whole(chunks - 1)
  BY DEF Whole
<1>. QED  BY <1>1, <1>2 DEF ChunkInv

\* Every step keeps the chunks in order.
LEMMA NextChunks == SInv /\ ChunkInv /\ [Next]_vars => ChunkInv'
<1>. SUFFICES ASSUME SInv, ChunkInv, [Next]_vars PROVE ChunkInv'
  OBVIOUS
<1>1. CASE RecvRequestHeaders \/ RecvRequestBody \/ RecvRequestTrailers
  <2>1. /\ envoy \in {"start", "request"} /\ envoy' \in {"request", "forwarded"}
        /\ UNCHANGED <<streaming, body, pending>>
        /\ chunks' \in {0, chunks, chunks + 1}
    BY <1>1 DEF RecvRequestHeaders, RecvRequestBody, RecvRequestTrailers, reqCtx, out
  <2>2. chunks' \in Nat
    BY <2>1 DEF ChunkInv
  <2>. QED  BY <2>1, <2>2, EarlyChunks
<1>2. CASE \/ GetRandomPod \/ RandomPoolGet \/ ModelLookup \/ CallFrontEnd \/ Schedule
           \/ PoolGet \/ BuildErrResponse
  <2>1. pc \in Choosing
    BY <1>2, Zenon DEF GetRandomPod, RandomPoolGet, ModelLookup, CallFrontEnd, Schedule,
         PoolGet, BuildErrResponse, Choosing
  <2>2. envoy = "forwarded"
    BY <2>1, Zenon DEF SInv, Progress
  <2>3. /\ UNCHANGED <<envoy, chunks, streaming, body>>
        /\ pending' \subseteq pending \cup {"requestHeaders", "requestBody"}
    BY <1>2 DEF GetRandomPod, RandomPoolGet, ModelLookup, CallFrontEnd, Schedule, PoolGet,
         BuildErrResponse, populateRequestHeaderResponse, reqCtx, out
  <2>. QED  BY <2>2, <2>3, EarlyChunks DEF ChunkInv
<1>3. CASE RecvResponseHeaders
  <2>1. /\ envoy = "forwarded" /\ envoy' \in {"response", "done"} /\ pc' = "update"
        /\ state' = "ResponseRecieved" /\ pending' = pending \cup {"responseHeaders"}
        /\ chunks' = 0 /\ body' = body
    BY <1>3 DEF RecvResponseHeaders, Goto, out
  <2>2. body = <<>> /\ Ready = {} /\ "responseEnd" \notin pending
    BY <2>1 DEF ChunkInv
  <2>3. Ready' = {} /\ "responseEnd" \notin pending' /\ "responseHeaders" \in pending'
    BY <2>1, <2>2 DEF Ready
  <2>4. <<>> = [i \in 1..0 |-> i]
    OBVIOUS
  <2>5. Whole(chunks)'
    BY <2>1, <2>2, <2>4 DEF Whole
  <2>. QED  BY <2>1, <2>3, <2>5 DEF ChunkInv
<1>4. CASE RecvResponseBodySSE
  <2>1. /\ pc = "recv" /\ pc' = "update" /\ envoy = "response" /\ streaming
        /\ chunks' = chunks + 1 /\ UNCHANGED <<state, streaming, body>>
        /\ \/ envoy' = "done" /\ pending' = pending \cup {"responseEnd"}
           \/ envoy' = envoy /\ pending' = pending \cup {"responseBody"}
    BY <1>4 DEF RecvResponseBodySSE, Goto, out
  <2>2. /\ Ready = {} /\ state = "HeaderResponseResponseComplete" /\ Whole(chunks)
        /\ "responseEnd" \notin pending /\ chunks \in Nat
    BY <2>1 DEF ChunkInv
  <2>3. Ready' \in {{"responseBody"}, {"responseEnd"}}
    BY <2>1, <2>2 DEF Ready
  <2>4. "responseEnd" \in pending' => envoy' = "done"
    BY <2>1, <2>2
  <2>5. chunks' \in Nat /\ chunks' > 0 /\ chunks' - 1 = chunks
    BY <2>1, <2>2
  <2>6. Whole(chunks - 1)'
    BY <2>1, <2>2, <2>5 DEF Whole
  <2>. QED  BY <2>1, <2>2, <2>3, <2>4, <2>5, <2>6 DEF ChunkInv, Kind
<1>5. CASE RecvResponseBody
  <2>1. /\ envoy = "response" /\ ~streaming /\ chunks' = chunks + 1
        /\ UNCHANGED streaming
        /\ \/ envoy' = "done"
           \/ envoy' = envoy /\ pending' = pending
    BY <1>5 DEF RecvResponseBody
  <2>2. chunks' \in Nat
    BY <2>1 DEF ChunkInv
  <2>. QED  BY <2>1, <2>2 DEF ChunkInv
<1>6. CASE RecvResponseTrailers
  <2>1. /\ pc = "recv" /\ pc' = "update" /\ envoy' = "done"
        /\ UNCHANGED <<chunks, state, pending, streaming, body>>
    BY <1>6 DEF RecvResponseTrailers, Goto, reqCtx, out
  <2>2. Ready' = Ready /\ (Whole(chunks) => Whole(chunks)')
    BY <2>1 DEF Ready, Whole
  <2>. QED  BY <2>1, <2>2 DEF ChunkInv
<1>7. CASE SendRequestHeaders \/ SendRequestBody
  <2>1. /\ pc = "update" /\ pending' \subseteq pending
        /\ state \in {"RequestReceived", "HeaderRequestResponseComplete"}
        /\ UNCHANGED <<envoy, chunks, streaming, body>>
    BY <1>7 DEF SendRequestHeaders, SendRequestBody, CanSend
  <2>2. ~streaming
    BY <2>1 DEF ChunkInv
  <2>3. Ready' \subseteq Ready
    BY <2>1 DEF Ready
  <2>. QED  BY <2>1, <2>2, <2>3 DEF ChunkInv
<1>8. CASE SendResponseHeaders
  <2>1. /\ pc = "update" /\ pc' = pc /\ state = "ResponseRecieved"
        /\ state' = "HeaderResponseResponseComplete"
        /\ UNCHANGED <<envoy, chunks, pending, streaming, body>>
    BY <1>8 DEF SendResponseHeaders, CanSend
  <2>2. Ready' = Ready /\ (Whole(chunks) => Whole(chunks)')
    BY <2>1 DEF Ready, Whole
  <2>. QED  BY <2>1, <2>2 DEF ChunkInv
<1>9. ASSUME NEW k \in {"responseBody", "responseEnd"}, SendResponseBody(k) PROVE ChunkInv'
  <2>1. /\ pc = "update" /\ pc' = pc /\ k \in pending /\ pending' = pending \ {k}
        /\ state = "HeaderResponseResponseComplete"
        /\ state' = IF k = "responseEnd" THEN "BodyResponseResponsesComplete" ELSE state
        /\ UNCHANGED <<envoy, chunks, streaming>>
    BY <1>9 DEF SendResponseBody, CanSend
  <2>2. k \in Ready /\ Ready' = Ready \ {k}
    BY <2>1 DEF Ready
  <2>3. CASE ~streaming
    BY <2>1, <2>2, <2>3 DEF ChunkInv
  <2>4. CASE streaming
    <3>1. chunks \in Nat /\ chunks > 0 /\ body = [i \in 1..(chunks - 1) |-> i]
          /\ \E j \in Kind : Ready = {j}
      BY <2>1, <2>2, <2>4 DEF ChunkInv, Whole
    <3>2. Ready' = {}
      BY <2>2, <3>1
    <3>3. body' = Append(body, chunks)
      BY <1>9, <2>4 DEF SendResponseBody
    <3>4. body' = [i \in 1..chunks |-> i]
      <4>1. body \in Seq(Nat) /\ Len(body) = chunks - 1
        BY <3>1
      <4>. QED  BY <3>1, <3>3, <4>1
    <3>5. Whole(chunks)'
      BY <2>1, <3>4 DEF Whole
    <3>6. "responseEnd" \in pending => envoy = "done"
      BY DEF ChunkInv
    <3>. QED  BY <2>1, <2>4, <3>1, <3>2, <3>5, <3>6 DEF ChunkInv
  <2>. QED  BY <2>3, <2>4
<1>10. CASE Updated
  <2>1. /\ pc = "update" /\ pc' = "recv" /\ ~Sendable
        /\ UNCHANGED <<envoy, chunks, state, pending, streaming, body>>
    BY <1>10 DEF Updated, Goto, reqCtx, out
  <2>2. Ready' = Ready /\ (Whole(chunks) => Whole(chunks)')
    BY <2>1 DEF Ready, Whole
  <2>3. /\ state = "HeaderResponseResponseComplete" => Ready = {}
        /\ state = "ResponseRecieved" => "responseHeaders" \notin pending
    BY <2>1 DEF Sendable, CanSend, Ready
  <2>. QED  BY <2>1, <2>2, <2>3 DEF ChunkInv
<1>11. CASE StreamCloses \/ SendFails \/ DatastoreChanges \/ UNCHANGED vars
  <2>1. /\ UNCHANGED <<envoy, chunks, state, pending, streaming, body>>
        /\ pc' = pc \/ pc' = "ended"
    BY <1>11 DEF StreamCloses, SendFails, DatastoreChanges, vars, Ends, reqCtx, out
  <2>. QED  BY <2>1, SameChunks
<1>. QED  BY <1>1, <1>2, <1>3, <1>4, <1>5, <1>6, <1>7, <1>8, <1>9, <1>10, <1>11
          DEF Next, EnvoySends, Handler

-----------------------------------------------------------------------------
\* The invariant holds in every stream.
THEOREM SInvCorrect == Spec => []SInv
  BY InitSInv, NextSInv, PTL DEF Spec

\* However long the bodies are and however often the datastore changes, a
\* stream that has ended has counted its error once and has left the gauge
\* where it was (the deferred function of Process).
THEOREM AccountsSettledCorrect == Spec => []AccountsSettled
<1>1. SInv => AccountsSettled
  BY DEF SInv, Accounts
<1>. QED  BY <1>1, SInvCorrect, PTL

\* The server implements the order of responses that Envoy relies on: the
\* RequestState of updateStateAndSendIfNeeded is enough to keep it.
THEOREM OrderKeptCorrect == Spec => OrderKept
<1>1. Init => Order!Init
  BY DEF Init, Order!Init
<1>. QED  BY <1>1, NextOrder, SInvCorrect, PTL DEF Spec, OrderKept, Order!Spec

\* A text/event-stream response of any length reaches Envoy chunk by chunk:
\* between two messages it has all that the model server sent, each once and in
\* order (the response body case of Process, updateStateAndSendIfNeeded).
THEOREM ChunksInOrderCorrect == Spec => []ChunksInOrder
<1>1. Init => ChunkInv
  <2>. SUFFICES ASSUME Init PROVE ChunkInv
    OBVIOUS
  <2>1. /\ chunks = 0 /\ envoy = "start" /\ streaming = FALSE /\ body = <<>>
        /\ pending = {}
    BY Zenon DEF Init
  <2>2. Ready = {} /\ chunks \in Nat
    BY <2>1 DEF Ready
  <2>3. ~streaming
    BY <2>1, Zenon
  <2>. QED  BY <2>1, <2>2, <2>3, Zenon DEF ChunkInv
<1>2. ChunkInv => ChunksInOrder
  BY DEF ChunkInv, ChunksInOrder, Whole
<1>. QED  BY <1>1, <1>2, NextChunks, SInvCorrect, PTL DEF Spec

-----------------------------------------------------------------------------
(* RandomWeightedDraw: its two loops, by induction on the iterations.       *)

\* A non-empty set of numbers has a least one: induction, said of sets.
LEMMA LeastNumber ==
    ASSUME NEW T, T \subseteq Nat, T # {}
    PROVE  \E n \in T : \A m \in T : n <= m
<1>1. PICK R : /\ IsWellFoundedOn(R, Nat)
               /\ R = {ss \in Nat \X Nat : ss[1] < ss[2]}
  BY NatLessThanWellFounded, Zenon DEF OpToRel
<1>2. PICK x \in T : \A y \in T : <<y, x>> \notin R
  BY <1>1, WFMin
<1>3. \A y \in T : ~(y < x)
  BY <1>1, <1>2
<1>. QED BY <1>2, <1>3

\* A set of numbers with 0 and, below n, the successors of its members has all
\* the numbers up to n.
LEMMA UpTo ==
    ASSUME NEW n \in Nat, NEW S, 0 \in S, \A i \in 0..(n - 1) : i \in S => i + 1 \in S
    PROVE  0..n \subseteq S
<1> DEFINE T == (0..n) \ S
<1>1. SUFFICES ASSUME T # {} PROVE FALSE
  OBVIOUS
<1>2. PICK m \in T : \A k \in T : m <= k
  <2>1. T \subseteq Nat
    OBVIOUS
  <2> HIDE DEF T
  <2>. QED BY <1>1, <2>1, LeastNumber
<1>3. m > 0 /\ m - 1 \in 0..(n - 1)
  BY <1>2
<1>4. m - 1 \in S
  BY <1>2, <1>3
<1>. QED BY <1>2, <1>3, <1>4

Weighted == UNION {[1..n -> 1..MaxWeight] : n \in 1..MaxTargets}

\* Weights of targets.
LEMMA WeightedType ==
    ASSUME NEW w \in Weighted
    PROVE  /\ Len(w) \in Nat \ {0} /\ DOMAIN w = 1..Len(w)
           /\ \A i \in 1..Len(w) : w[i] \in Nat /\ w[i] > 0
<1>1. PICK n \in 1..MaxTargets : w \in [1..n -> 1..MaxWeight]
  BY DEF Weighted
<1>2. n \in Nat \ {0} /\ MaxWeight \in Nat
  BY DrawAssumption
<1>3. w \in Seq(1..MaxWeight) /\ Len(w) = n
  BY <1>1, <1>2
<1>. QED BY <1>1, <1>2, <1>3

\* The loop that adds up the weights computes a function of the iterations.
LEMMA WeightsDef ==
    ASSUME NEW w \in Weighted
    PROVE  Weights(w) = [i \in 0..Len(w) |-> IF i = 0 THEN 0 ELSE Weights(w)[i - 1] + w[i]]
<1> DEFINE Is(f, n) == f = [i \in 0..n |-> IF i = 0 THEN 0 ELSE f[i - 1] + w[i]]
           S == {n \in Nat : \E f : Is(f, n)}
<1>1. Len(w) \in Nat
  BY WeightedType
<1>2. 0 \in S
  <2>1. Is([i \in 0..0 |-> 0], 0)
    OBVIOUS
  <2>. QED BY <2>1
<1>3. ASSUME NEW n \in 0..(Len(w) - 1), n \in S PROVE n + 1 \in S
  <2>1. PICK f : Is(f, n)
    BY <1>3
  <2> DEFINE g == [i \in 0..(n + 1) |-> IF i = n + 1 THEN f[n] + w[n + 1] ELSE f[i]]
  <2>2. n \in Nat /\ n + 1 \in Nat
    BY <1>1
  <2>3. ASSUME NEW i \in 0..(n + 1) PROVE g[i] = IF i = 0 THEN 0 ELSE g[i - 1] + w[i]
    BY <2>1, <2>2
  <2>4. Is(g, n + 1)
    BY <2>3
  <2>. QED BY <2>2, <2>4
<1>4. Len(w) \in S
  <2> HIDE DEF S
  <2>1. 0..Len(w) \subseteq S
    BY <1>1, <1>2, <1>3, UpTo
  <2>. QED BY <1>1, <2>1
<1>5. \E f : Is(f, Len(w))
  BY <1>4
<1>6. Weights(w) = CHOOSE f : Is(f, Len(w))
  BY DEF Weights
<1>7. Is(Weights(w), Len(w))
  <2> HIDE DEF Is
  <2>. QED BY <1>5, <1>6, Zenon
<1>. QED BY <1>7

\* So does the loop over the targets.
LEMMA LoopDef ==
    ASSUME NEW w \in Weighted, NEW d
    PROVE  Loop(w, d) = [i \in 0..Len(w) |->
                            IF i = 0 THEN [randomVal |-> d, chosen |-> 0]
                            ELSE Iterate(w, Loop(w, d)[i - 1], i)]
<1> DEFINE start == [randomVal |-> d, chosen |-> 0]
           Is(f, n) == f = [i \in 0..n |-> IF i = 0 THEN start ELSE Iterate(w, f[i - 1], i)]
           S == {n \in Nat : \E f : Is(f, n)}
<1> HIDE DEF start
<1>1. Len(w) \in Nat
  BY WeightedType
<1>2. 0 \in S
  <2>1. Is([i \in 0..0 |-> start], 0)
    OBVIOUS
  <2>. QED BY <2>1
<1>3. ASSUME NEW n \in 0..(Len(w) - 1), n \in S PROVE n + 1 \in S
  <2>1. PICK f : Is(f, n)
    BY <1>3
  <2> DEFINE g == [i \in 0..(n + 1) |-> IF i = n + 1 THEN Iterate(w, f[n], n + 1) ELSE f[i]]
  <2>2. n \in Nat /\ n + 1 \in Nat
    BY <1>1
  <2>3. ASSUME NEW i \in 0..(n + 1) PROVE g[i] = IF i = 0 THEN start ELSE Iterate(w, g[i - 1], i)
    BY <2>1, <2>2
  <2>4. Is(g, n + 1)
    BY <2>3
  <2>. QED BY <2>2, <2>4
<1>4. Len(w) \in S
  <2> HIDE DEF S
  <2>1. 0..Len(w) \subseteq S
    BY <1>1, <1>2, <1>3, UpTo
  <2>. QED BY <1>1, <2>1
<1>5. \E f : Is(f, Len(w))
  BY <1>4
<1>6. Loop(w, d) = CHOOSE f : Is(f, Len(w))
  BY DEF Loop, start
<1>7. Is(Loop(w, d), Len(w))
  <2> HIDE DEF Is
  <2>. QED BY <1>5, <1>6, Zenon
<1>. QED BY <1>7 DEF start

\* The sums of the weights grow with every iteration.
LEMMA WeightsGrow ==
    ASSUME NEW w \in Weighted
    PROVE  /\ Weights(w)[0] = 0
           /\ \A i \in 1..Len(w) : Weights(w)[i] = Weights(w)[i - 1] + w[i]
           /\ \A i \in 0..Len(w) : Weights(w)[i] \in Nat
           /\ \A i \in 0..Len(w) : \A j \in 0..i : Weights(w)[j] <= Weights(w)[i]
<1> DEFINE s == Weights(w)
<1>1. Len(w) \in Nat /\ \A i \in 1..Len(w) : w[i] \in Nat /\ w[i] > 0
  BY WeightedType
<1>2. s = [i \in 0..Len(w) |-> IF i = 0 THEN 0 ELSE s[i - 1] + w[i]]
  BY WeightsDef
<1> HIDE DEF s
<1>3. s[0] = 0
  BY <1>1, <1>2
<1>4. ASSUME NEW i \in 1..Len(w) PROVE s[i] = s[i - 1] + w[i]
  <2>1. i \in 0..Len(w) /\ i # 0
    BY <1>1
  <2>. QED BY <1>2, <2>1
<1>5. ASSUME NEW i \in 0..(Len(w) - 1) PROVE s[i + 1] = s[i] + w[i + 1] /\ w[i + 1] \in Nat
  <2>1. i + 1 \in 1..Len(w) /\ (i + 1) - 1 = i
    BY <1>1
  <2>. QED BY <1>1, <1>4, <2>1
<1>6. \A i \in 0..Len(w) : s[i] \in Nat
  <2> DEFINE S == {i \in Nat : s[i] \in Nat}
  <2>1. 0 \in S
    BY <1>3
  <2>2. \A i \in 0..(Len(w) - 1) : i \in S => i + 1 \in S
    BY <1>1, <1>5
  <2>3. 0..Len(w) \subseteq S
    <3> HIDE DEF S
    <3>. QED BY <1>1, <2>1, <2>2, UpTo
  <2>. QED BY <2>3
<1>7. \A i \in 0..Len(w) : \A j \in 0..i : s[j] <= s[i]
  <2> DEFINE S == {i \in Nat : \A j \in 0..i : s[j] <= s[i]}
  <2>1. 0 \in S
    BY <1>3
  <2>2. ASSUME NEW i \in 0..(Len(w) - 1), i \in S PROVE i + 1 \in S
    <3>1. s[i] \in Nat /\ s[i + 1] \in Nat /\ s[i] <= s[i + 1]
      BY <1>1, <1>5, <1>6
    <3>2. ASSUME NEW j \in 0..(i + 1) PROVE s[j] <= s[i + 1]
      <4>1. CASE j = i + 1
        BY <3>1, <4>1
      <4>2. CASE j # i + 1
        <5>1. j \in 0..i /\ j \in 0..Len(w)
          BY <1>1, <4>2
        <5>2. s[j] <= s[i] /\ s[j] \in Nat
          BY <1>6, <2>2, <5>1
        <5>. QED BY <3>1, <5>2
      <4>. QED BY <4>1, <4>2
    <3>. QED BY <3>2
  <2>3. 0..Len(w) \subseteq S
    <3> HIDE DEF S
    <3>. QED BY <1>1, <2>1, <2>2, UpTo
  <2>. QED BY <2>3
<1>. QED BY <1>3, <1>4, <1>6, <1>7 DEF s

\* No sum in the int32 variable weights of RandomWeightedDraw is beyond the
\* product of the bounds on targets and weights, which the API types set to 10 and
\* 1,000,000, so none overflows; and Int31n gets a positive argument, as it must.
THEOREM WeightsFit ==
    ASSUME NEW w \in Weighted
    PROVE  /\ \A i \in 0..Len(w) : Weights(w)[i] \in 0..(MaxTargets * MaxWeight)
           /\ Weights(w)[Len(w)] > 0
<1> DEFINE s == Weights(w)
           S == {i \in Nat : s[i] <= i * MaxWeight}
<1>1. /\ MaxTargets \in Nat /\ MaxWeight \in Nat /\ Len(w) \in 1..MaxTargets
      /\ \A i \in 1..Len(w) : w[i] \in 1..MaxWeight
  <2>1. PICK n \in 1..MaxTargets : w \in [1..n -> 1..MaxWeight]
    BY DEF Weighted
  <2>2. MaxTargets \in Nat /\ MaxWeight \in Nat /\ n \in Nat
    BY DrawAssumption
  <2>3. Len(w) = n
    BY <2>1, <2>2
  <2>. QED BY <2>1, <2>2, <2>3
<1>2. /\ s[0] = 0 /\ \A i \in 1..Len(w) : s[i] = s[i - 1] + w[i]
      /\ \A i \in 0..Len(w) : s[i] \in Nat
  BY WeightsGrow
<1> HIDE DEF s
<1>3. 0..Len(w) \subseteq S
  <2>1. 0 \in S
    <3>1. 0 * MaxWeight = 0
      BY <1>1
    <3>. QED BY <1>2, <3>1
  <2>2. ASSUME NEW i \in 0..(Len(w) - 1), i \in S PROVE i + 1 \in S
    <3>1. i \in Nat /\ i \in 0..Len(w) /\ i + 1 \in 1..Len(w) /\ (i + 1) - 1 = i
      BY <1>1
    <3>2. s[i + 1] = s[i] + w[i + 1] /\ w[i + 1] \in 1..MaxWeight /\ s[i] \in Nat
      BY <1>1, <1>2, <3>1
    <3>3. s[i] <= i * MaxWeight
      BY <2>2
    <3>4. (i + 1) * MaxWeight = i * MaxWeight + MaxWeight /\ i * MaxWeight \in Nat
      BY <1>1, <3>1
    <3>5. s[i + 1] <= (i + 1) * MaxWeight
      BY <1>1, <3>2, <3>3, <3>4
    <3>. QED BY <3>1, <3>5
  <2>3. Len(w) \in Nat
    BY WeightedType
  <2> HIDE DEF S
  <2>. QED BY <2>1, <2>2, <2>3, UpTo
<1>4. ASSUME NEW i \in 0..Len(w) PROVE s[i] \in 0..(MaxTargets * MaxWeight)
  <2>1. i \in Nat /\ i <= MaxTargets /\ s[i] <= i * MaxWeight /\ s[i] \in Nat
    BY <1>1, <1>2, <1>3
  <2>2. i * MaxWeight <= MaxTargets * MaxWeight /\ MaxTargets * MaxWeight \in Nat
        /\ i * MaxWeight \in Nat
    BY <1>1, <2>1
  <2>. QED BY <2>1, <2>2
<1>5. s[Len(w)] > 0
  <2>1. Len(w) - 1 \in 0..Len(w) /\ Len(w) \in 1..Len(w)
    BY <1>1
  <2>2. s[Len(w)] = s[Len(w) - 1] + w[Len(w)] /\ w[Len(w)] \in 1..MaxWeight /\ s[Len(w) - 1] \in Nat
    BY <1>1, <1>2, <2>1
  <2>. QED BY <1>1, <2>2
<1>. QED BY <1>4, <1>5 DEF s

\* Iteration i leaves what remains of the random number, or the target whose
\* share of the sum the number is in.
LoopAt(w, d, i) ==
    LET loop == Loop(w, d)[i]
        s == Weights(w)
    IN  /\ loop \in [randomVal : Int, chosen : Nat]
        /\ \/ loop.chosen = 0 /\ loop.randomVal = d - s[i] /\ s[i] <= d
           \/ loop.chosen \in 1..i /\ s[loop.chosen - 1] <= d /\ d < s[loop.chosen]

\* The invariant of the loop over the targets.
LEMMA LoopInvariant ==
    ASSUME NEW w \in Weighted, NEW d \in Nat
    PROVE  \A i \in 0..Len(w) : LoopAt(w, d, i)
<1> DEFINE s == Weights(w)
           l == Loop(w, d)
<1>1. Len(w) \in Nat /\ \A i \in 1..Len(w) : w[i] \in Nat /\ w[i] > 0
  BY WeightedType
<1>2. /\ s[0] = 0 /\ \A i \in 0..Len(w) : s[i] \in Nat
      /\ \A i \in 1..Len(w) : s[i] = s[i - 1] + w[i]
  BY WeightsGrow
<1>3. l = [i \in 0..Len(w) |-> IF i = 0 THEN [randomVal |-> d, chosen |-> 0]
                               ELSE Iterate(w, l[i - 1], i)]
  BY LoopDef
<1> HIDE DEF s, l
<1> DEFINE At(i) ==
               /\ l[i] \in [randomVal : Int, chosen : Nat]
               /\ \/ l[i].chosen = 0 /\ l[i].randomVal = d - s[i] /\ s[i] <= d
                  \/ l[i].chosen \in 1..i /\ s[l[i].chosen - 1] <= d /\ d < s[l[i].chosen]
           S == {i \in Nat : At(i)}
<1>4. 0 \in S
  <2>1. l[0] = [randomVal |-> d, chosen |-> 0]
    BY <1>1, <1>3
  <2>. QED BY <1>2, <2>1
<1>5. ASSUME NEW i \in 0..(Len(w) - 1), i \in S PROVE i + 1 \in S
  <2>1. i + 1 \in 1..Len(w) /\ i + 1 \in 0..Len(w) /\ (i + 1) - 1 = i /\ i + 1 # 0 /\ i \in 0..Len(w)
    BY <1>1
  <2>2. l[i + 1] = Iterate(w, l[i], i + 1)
    BY <1>3, <2>1
  <2>3. s[i + 1] = s[i] + w[i + 1] /\ s[i] \in Nat /\ w[i + 1] \in Nat
    BY <1>1, <1>2, <2>1
  <2>4. l[i] \in [randomVal : Int, chosen : Nat]
    BY <1>5
  <2>5. CASE l[i].chosen \in 1..i /\ s[l[i].chosen - 1] <= d /\ d < s[l[i].chosen]
    <3>1. l[i + 1] = l[i]
      BY <2>2, <2>5 DEF Iterate
    <3>. QED BY <2>1, <2>4, <2>5, <3>1
  <2>6. CASE l[i].chosen = 0 /\ l[i].randomVal = d - s[i] /\ s[i] <= d
    <3>1. CASE d - s[i] < w[i + 1]
      <4>1. l[i + 1] = [l[i] EXCEPT !.chosen = i + 1]
        BY <2>2, <2>6, <3>1 DEF Iterate
      <4>2. l[i + 1].chosen = i + 1 /\ l[i + 1] \in [randomVal : Int, chosen : Nat]
        <5>1. PICK rec \in [randomVal : Int, chosen : Nat] : rec = l[i]
          BY <2>4
        <5>2. PICK n \in Nat : n = i + 1
          BY <2>1
        <5>3. [rec EXCEPT !.chosen = n].chosen = n
          OBVIOUS
        <5>4. [rec EXCEPT !.chosen = n] \in [randomVal : Int, chosen : Nat]
          OBVIOUS
        <5>5. l[i + 1] = [rec EXCEPT !.chosen = n]
          BY <4>1, <5>1, <5>2, Zenon
        <5>6. l[i + 1].chosen = n
          BY <5>3, <5>5, Zenon
        <5>7. l[i + 1] \in [randomVal : Int, chosen : Nat]
          BY <5>4, <5>5, Zenon
        <5>. QED BY <5>2, <5>6, <5>7, Zenon
      <4>3. s[(i + 1) - 1] <= d /\ d < s[i + 1] /\ i + 1 \in 1..(i + 1) /\ i + 1 \in Nat
        <5>1. s[(i + 1) - 1] = s[i] /\ i + 1 \in Nat /\ i + 1 \in 1..(i + 1)
          BY <2>1
        <5>2. s[i] <= d /\ d < s[i + 1]
          BY <2>3, <2>6, <3>1
        <5>. QED BY <5>1, <5>2, Zenon
      <4>4. At(i + 1)
        BY <4>2, <4>3, Zenon
      <4>. QED BY <4>3, <4>4, Zenon
    <3>2. CASE ~(d - s[i] < w[i + 1])
      <4>1. l[i + 1] = [l[i] EXCEPT !.randomVal = @ - w[i + 1]]
        BY <2>2, <2>6, <3>2 DEF Iterate
      <4>2. /\ l[i + 1].chosen = 0 /\ l[i + 1].randomVal = d - s[i] - w[i + 1]
            /\ l[i + 1] \in [randomVal : Int, chosen : Nat]
        <5>1. PICK rec \in [randomVal : Int, chosen : Nat] : rec = l[i]
          BY <2>4
        <5>2. rec.chosen = 0 /\ rec.randomVal = d - s[i]
          BY <2>6, <5>1, Zenon
        <5>3. PICK n \in Nat : n = w[i + 1]
          BY <2>3, Zenon
        <5>4. l[i + 1] = [rec EXCEPT !.randomVal = @ - n]
          BY <4>1, <5>1, <5>3, Zenon
        <5>5. /\ [rec EXCEPT !.randomVal = @ - n] \in [randomVal : Int, chosen : Nat]
              /\ [rec EXCEPT !.randomVal = @ - n].chosen = rec.chosen
              /\ [rec EXCEPT !.randomVal = @ - n].randomVal = rec.randomVal - n
          OBVIOUS
        <5>. QED BY <5>2, <5>3, <5>4, <5>5, Zenon
      <4>3. d - s[i] - w[i + 1] = d - s[i + 1] /\ s[i + 1] <= d /\ i + 1 \in Nat
        BY <2>1, <2>3, <2>6, <3>2
      <4>4. At(i + 1)
        BY <4>2, <4>3, Zenon
      <4>. QED BY <4>3, <4>4, Zenon
    <3>. QED BY <3>1, <3>2
  <2>. QED BY <1>5, <2>5, <2>6
<1>6. 0..Len(w) \subseteq S
  <2> HIDE DEF S
  <2>. QED BY <1>1, <1>4, <1>5, UpTo
<1>. QED BY <1>6 DEF LoopAt, s, l

\* Target k is drawn for the random numbers of its share of the sum, and the
\* loop never falls through.
LEMMA DrawnShare ==
    ASSUME NEW w \in Weighted, NEW d \in Draws(w), ~Unweighted(w)
    PROVE  /\ d \in Nat /\ RandomWeightedDraw(w, d) \in 1..Len(w)
           /\ \A k \in 1..Len(w) : RandomWeightedDraw(w, d) = k <=>
                  Weights(w)[k - 1] <= d /\ d < Weights(w)[k]
<1> DEFINE s == Weights(w)
           c == RandomWeightedDraw(w, d)
<1>1. Len(w) \in Nat \ {0}
  BY WeightedType
<1>2. /\ \A i \in 0..Len(w) : s[i] \in Nat
      /\ \A i \in 0..Len(w) : \A j \in 0..i : s[j] <= s[i]
  BY WeightsGrow
<1>3. d \in Nat /\ d < s[Len(w)]
  BY <1>1, <1>2 DEF Draws
<1>4. c = Loop(w, d)[Len(w)].chosen
  BY DEF RandomWeightedDraw
<1>5. c \in 1..Len(w) /\ s[c - 1] <= d /\ d < s[c]
  <2>1. LoopAt(w, d, Len(w))
    BY <1>1, <1>3, LoopInvariant
  <2>2. s[Len(w)] \in Nat
    BY <1>1, <1>2
  <2>3. PICK loop \in [randomVal : Int, chosen : Nat] : loop = Loop(w, d)[Len(w)]
    BY <2>1 DEF LoopAt
  <2>4. \/ s[Len(w)] <= d
        \/ loop.chosen \in 1..Len(w) /\ s[loop.chosen - 1] <= d /\ d < s[loop.chosen]
    BY <2>1, <2>3, Zenon DEF LoopAt
  <2>5. ~(s[Len(w)] <= d)
    BY <1>3, <2>2
  <2>. QED BY <1>4, <2>3, <2>4, <2>5, Zenon
<1> HIDE DEF s, c
<1>6. ASSUME NEW k \in 1..Len(w), s[k - 1] <= d, d < s[k] PROVE c = k
  <2>1. /\ c \in 0..Len(w) /\ c - 1 \in 0..Len(w) /\ k \in 0..Len(w) /\ k - 1 \in 0..Len(w)
        /\ c < k => c \in 0..(k - 1)
        /\ k < c => k \in 0..(c - 1)
    BY <1>1, <1>5
  <2>2. s[c] \in Nat /\ s[k] \in Nat /\ s[c - 1] \in Nat /\ s[k - 1] \in Nat
    BY <1>2, <2>1
  <2>3. c < k => s[c] <= s[k - 1]
    BY <1>2, <2>1
  <2>4. k < c => s[k] <= s[c - 1]
    BY <1>2, <2>1
  <2>5. ~(c < k)
    BY <1>3, <1>5, <1>6, <2>2, <2>3
  <2>6. ~(k < c)
    BY <1>3, <1>5, <1>6, <2>2, <2>4
  <2>. QED BY <1>1, <1>5, <2>5, <2>6
<1>. QED BY <1>3, <1>5, <1>6 DEF s, c

\* Targets without weights.
LEMMA UnweightedType ==
    ASSUME NEW w \in Targets
    PROVE  \/ w \in Weighted /\ ~Unweighted(w)
           \/ Unweighted(w) /\ Len(w) \in Nat \ {0}
<1>1. PICK n \in 1..MaxTargets : w \in [1..n -> 1..MaxWeight] \cup {[k \in 1..n |-> 0]}
  BY DEF Targets
<1>2. n \in Nat \ {0} /\ MaxWeight \in Nat /\ 1 \in 1..n
  BY DrawAssumption
<1>3. CASE w \in [1..n -> 1..MaxWeight]
  BY <1>2, <1>3 DEF Weighted, Unweighted
<1>4. CASE w = [k \in 1..n |-> 0]
  <2>1. w \in [1..n -> Nat]
    BY <1>4
  <2>2. w \in Seq(Nat) /\ Len(w) = n
    BY <1>2, <2>1
  <2>. QED BY <1>2, <1>4, <2>2 DEF Unweighted
<1>. QED BY <1>1, <1>3, <1>4

\* The number of random numbers in a share.
LEMMA ShareSize ==
    ASSUME NEW a \in Nat, NEW n \in Nat \ {0}
    PROVE  Cardinality(a..(a + n - 1)) = n
<1>1. PICK b \in Int : b = a + n - 1
  OBVIOUS
<1>2. a \in Int /\ a <= b /\ b - a + 1 = n
  BY <1>1
<1>3. Cardinality(a..b) = IF a > b THEN 0 ELSE b - a + 1
  BY <1>2, FS_Interval
<1>4. Cardinality(a..b) = n
  BY <1>2, <1>3
<1>. QED BY <1>1, <1>4

\* For any number of targets and any weights, RandomWeightedDraw gives every
\* target as many of the random numbers as its weight, and none to no target.
THEOREM DrawIsProportional == Proportional
<1> SUFFICES ASSUME NEW w \in Targets, NEW k \in 0..Len(w)
             PROVE  Cardinality({d \in Draws(w) : RandomWeightedDraw(w, d) = k}) =
                        IF k = 0 THEN 0 ELSE IF Unweighted(w) THEN 1 ELSE w[k]
  BY DEF Proportional
<1> DEFINE D == {d \in Draws(w) : RandomWeightedDraw(w, d) = k}
<1>1. CASE Unweighted(w) /\ Len(w) \in Nat \ {0}
  <2>1. D = {d \in 0..(Len(w) - 1) : d + 1 = k}
    BY <1>1 DEF Draws, RandomWeightedDraw
  <2>2. CASE k = 0
    <3>1. D = {}
      BY <1>1, <2>1, <2>2
    <3>. QED BY <2>2, <3>1, FS_EmptySet
  <2>3. CASE k # 0
    <3>1. D = {k - 1}
      BY <1>1, <2>1, <2>3
    <3>. QED BY <1>1, <2>3, <3>1, FS_Singleton
  <2>. QED BY <2>2, <2>3
<1>2. CASE w \in Weighted /\ ~Unweighted(w)
  <2> DEFINE s == Weights(w)
  <2>1. Len(w) \in Nat \ {0} /\ \A i \in 1..Len(w) : w[i] \in Nat /\ w[i] > 0
    BY <1>2, WeightedType
  <2>2. /\ \A i \in 0..Len(w) : s[i] \in Nat
        /\ \A i \in 1..Len(w) : s[i] = s[i - 1] + w[i]
        /\ \A i \in 0..Len(w) : \A j \in 0..i : s[j] <= s[i]
    BY <1>2, WeightsGrow
  <2>3. CASE k = 0
    <3>1. D = {}
      BY <1>2, <2>1, <2>3, DrawnShare
    <3>. QED BY <2>3, <3>1, FS_EmptySet
  <2>4. CASE k # 0
    <3>1. k \in 1..Len(w)
      BY <2>1, <2>4
    <3>2. s[k] = s[k - 1] + w[k] /\ s[k] \in Nat /\ s[k - 1] \in Nat /\ w[k] \in Nat \ {0}
      BY <2>1, <2>2, <3>1
    <3>3. s[k] <= s[Len(w)] /\ s[Len(w)] \in Nat
      BY <2>1, <2>2, <3>1
    <3>4. Draws(w) = 0..(s[Len(w)] - 1)
      BY <1>2 DEF Draws
    <3> HIDE DEF s
    <3>5. D = {d \in 0..(s[Len(w)] - 1) : s[k - 1] <= d /\ d < s[k]}
      BY <1>2, <3>1, <3>4, DrawnShare DEF s
    <3>6. D = s[k - 1]..(s[k] - 1)
      BY <3>2, <3>3, <3>5
    <3>7. Cardinality(D) = w[k]
      <4>1. PICK a \in Nat, n \in Nat \ {0} : a = s[k - 1] /\ n = w[k]
        BY <3>2
      <4>2. s[k] - 1 = a + n - 1
        BY <3>2, <4>1
      <4>3. Cardinality(a..(a + n - 1)) = n
        BY ShareSize
      <4>. QED BY <3>6, <4>1, <4>2, <4>3
    <3>. QED BY <1>2, <2>4, <3>7
  <2>. QED BY <2>3, <2>4
<1>. QED BY <1>1, <1>2, UnweightedType

\* Whenever the server draws the target of a model, it draws each one with the
\* share of its weight in the sum of the weights.
THEOREM DrawInProportionCorrect == Spec => []DrawInProportion
<1>1. DrawInProportion
  BY DrawIsProportional DEF DrawInProportion
<1>. QED BY <1>1, PTL

-----------------------------------------------------------------------------
(* The call of the front end.                                               *)

\* The lines of an event whose value goes to the buffer of a field.
Stored(ev, field) == {i \in DOMAIN ev : ev[i].field = field /\ ev[i].value.form # "blank"}

\* A buffer tells whether the event has no such line, which one, or several,
\* of which it holds the first.
Buffers(buf, ev, field) ==
    \/ buf = <<>> /\ Stored(ev, field) = {}
    \/ \E i \in DOMAIN ev : Stored(ev, field) = {i} /\ buf = <<ev[i].value>>
    \/ Len(buf) > 1 /\ \E i, j \in Stored(ev, field) : i # j /\ ev[i].value = buf[1]

CallTypes ==
    /\ call \in {"post", "read", "ok", "error"}
    /\ eventName \in BOOLEAN /\ passed \in BOOLEAN
    /\ dataBuf \in Seq(Value) /\ commentBuf \in Seq(Value)
    /\ current \in Seq(Line)

\* While the stream is read, name and buffers are those of the event's lines.
ReadInv ==
    call \in {"post", "read"} =>
        /\ result = None
        /\ eventName <=> IsWorkerEvent(current)
        /\ Buffers(dataBuf, current, "data") /\ Buffers(commentBuf, current, "comment")

CallInv == CallTypes /\ ReadInv /\ NoEventPassedOver /\ ResultIsOfLastEvent

\* A line of the stream is of one of four kinds.
LEMMA LineKinds ==
    ASSUME NEW l \in Line
    PROVE  /\ l.field \in {"data", "comment", "event", "ignored"}
           /\ l.field \in {"data", "comment"} => l.value \in Value
           /\ l.field = "event" => l = [field |-> "event", value |-> l.value]
BY DEF Line

\* What appending a line does to the lines of an event.
LEMMA AppendLine ==
    ASSUME NEW ev \in Seq(Line), NEW l \in Line
    PROVE  /\ Append(ev, l) \in Seq(Line)
           /\ Len(ev) \in Nat /\ DOMAIN ev = 1..Len(ev)
           /\ DOMAIN Append(ev, l) = 1..(Len(ev) + 1) /\ Len(Append(ev, l)) = Len(ev) + 1
           /\ \A i \in DOMAIN ev : Append(ev, l)[i] = ev[i]
           /\ Append(ev, l)[Len(ev) + 1] = l
OBVIOUS

\* The last event line names the event, as the switch over the prefixes does.
LEMMA NameAppended ==
    ASSUME NEW ev \in Seq(Line), NEW l \in Line
    PROVE  IsWorkerEvent(Append(ev, l)) <=>
               IF l.field = "event" THEN l.value = "worker_instance_id" ELSE IsWorkerEvent(ev)
<1>1. \A i \in DOMAIN ev : ev[i] \in Line
  OBVIOUS
<1>2. CASE l.field = "event"
  <2>1. l = [field |-> "event", value |-> l.value]
    BY <1>2, LineKinds
  <2>2. l.value = "worker_instance_id" => IsWorkerEvent(Append(ev, l))
    BY <2>1, AppendLine DEF IsWorkerEvent
  <2>3. IsWorkerEvent(Append(ev, l)) => l.value = "worker_instance_id"
    <3>1. SUFFICES ASSUME NEW i \in 1..(Len(ev) + 1),
                          Append(ev, l)[i] = [field |-> "event", value |-> "worker_instance_id"],
                          \A j \in i+1..(Len(ev) + 1) : Append(ev, l)[j].field # "event"
                   PROVE  l.value = "worker_instance_id"
      BY AppendLine DEF IsWorkerEvent
    <3>2. i = Len(ev) + 1
      BY <3>1, <1>2, AppendLine
    <3>. QED BY <3>1, <3>2, AppendLine
  <2>. QED BY <1>2, <2>2, <2>3
<1>3. CASE l.field # "event"
  <2>1. ASSUME IsWorkerEvent(ev) PROVE IsWorkerEvent(Append(ev, l))
    <3>1. PICK i \in DOMAIN ev : /\ ev[i] = [field |-> "event", value |-> "worker_instance_id"]
                                 /\ \A j \in i+1..Len(ev) : ev[j].field # "event"
      BY <2>1 DEF IsWorkerEvent
    <3>2. \A j \in i+1..(Len(ev) + 1) : Append(ev, l)[j].field # "event"
      <4>1. TAKE j \in i+1..(Len(ev) + 1)
      <4>2. CASE j = Len(ev) + 1
        BY <4>2, <1>3, AppendLine
      <4>3. CASE j # Len(ev) + 1
        <5>1. j \in i+1..Len(ev) /\ j \in DOMAIN ev
          BY <4>3, AppendLine
        <5>. QED BY <5>1, <3>1, AppendLine
      <4>. QED BY <4>2, <4>3
    <3>3. Append(ev, l)[i] = ev[i] /\ i \in DOMAIN Append(ev, l)
      BY AppendLine
    <3>. QED BY <3>1, <3>2, <3>3, AppendLine DEF IsWorkerEvent
  <2>2. ASSUME IsWorkerEvent(Append(ev, l)) PROVE IsWorkerEvent(ev)
    <3>1. PICK i \in 1..(Len(ev) + 1) :
              /\ Append(ev, l)[i] = [field |-> "event", value |-> "worker_instance_id"]
              /\ \A j \in i+1..(Len(ev) + 1) : Append(ev, l)[j].field # "event"
      BY <2>2, AppendLine DEF IsWorkerEvent
    <3>2. i \in DOMAIN ev
      BY <3>1, <1>3, AppendLine
    <3>3. ev[i] = [field |-> "event", value |-> "worker_instance_id"]
      BY <3>1, <3>2, AppendLine
    <3>4. \A j \in i+1..Len(ev) : ev[j].field # "event"
      BY <3>1, <3>2, AppendLine
    <3>. QED BY <3>2, <3>3, <3>4 DEF IsWorkerEvent
  <2>. QED BY <1>3, <2>1, <2>2
<1>. QED BY <1>2, <1>3

\* The buffer of a field after a line of the stream.
BufferAfter(buf, field, l) == IF l.field = field THEN Store(buf, l.value) ELSE buf

\* A line keeps the buffer of either field in step with the event's lines.
LEMMA BufferAppended ==
    ASSUME NEW ev \in Seq(Line), NEW l \in Line, NEW field \in {"data", "comment"},
           NEW buf \in Seq(Value), Buffers(buf, ev, field)
    PROVE  /\ BufferAfter(buf, field, l) \in Seq(Value)
           /\ Buffers(BufferAfter(buf, field, l), Append(ev, l), field)
<1> DEFINE last == Len(ev) + 1
           grows == l.field = field /\ l.value.form # "blank"
<1>1. l.field = field => l.value \in Value
  BY LineKinds
<1>2. Stored(Append(ev, l), field) = Stored(ev, field) \cup (IF grows THEN {last} ELSE {})
  BY AppendLine DEF Stored
<1>3. Stored(ev, field) \subseteq DOMAIN ev /\ last \notin DOMAIN ev
  BY AppendLine DEF Stored
<1>4. CASE ~grows
  <2>1. BufferAfter(buf, field, l) = buf
    BY <1>4 DEF BufferAfter, Store
  <2>2. Stored(Append(ev, l), field) = Stored(ev, field)
    BY <1>2, <1>4
  <2>3. \A i \in DOMAIN ev : i \in DOMAIN Append(ev, l) /\ Append(ev, l)[i] = ev[i]
    BY AppendLine
  <2>. QED BY <1>3, <2>1, <2>2, <2>3 DEF Buffers
<1>5. CASE grows
  <2>1. BufferAfter(buf, field, l) = Append(buf, l.value)
    BY <1>5 DEF BufferAfter, Store
  <2>2. Append(buf, l.value) \in Seq(Value) /\ Len(Append(buf, l.value)) = Len(buf) + 1
    BY <1>1, <1>5
  <2>3. Stored(Append(ev, l), field) = Stored(ev, field) \cup {last}
    BY <1>2, <1>5
  <2>4. CASE buf = <<>> /\ Stored(ev, field) = {}
    <3>1. Stored(Append(ev, l), field) = {last}
      BY <2>3, <2>4
    <3>2. Append(buf, l.value) = <<l.value>>
      BY <2>4
    <3>3. last \in DOMAIN Append(ev, l) /\ Append(ev, l)[last].value = l.value
      BY AppendLine
    <3>. QED BY <2>1, <2>2, <3>1, <3>2, <3>3 DEF Buffers
  <2>5. CASE Len(buf) > 0 /\ \E i \in Stored(ev, field) : ev[i].value = buf[1]
    <3>1. PICK i \in Stored(ev, field) : ev[i].value = buf[1]
      BY <2>5
    <3>2. i # last /\ i \in Stored(Append(ev, l), field) /\ last \in Stored(Append(ev, l), field)
      BY <1>3, <2>3, <3>1
    <3>3. Len(Append(buf, l.value)) > 1
      BY <2>2, <2>5
    <3>4. Append(buf, l.value)[1] = buf[1] /\ Append(ev, l)[i] = ev[i]
      BY <1>3, <2>5, AppendLine
    <3>. QED BY <2>1, <2>2, <3>1, <3>2, <3>3, <3>4 DEF Buffers
  <2>6. ASSUME NEW i \in DOMAIN ev, Stored(ev, field) = {i}, buf = <<ev[i].value>>
        PROVE  Len(buf) > 0 /\ \E k \in Stored(ev, field) : ev[k].value = buf[1]
    BY <2>6
  <2>7. Len(buf) > 1 => Len(buf) > 0
    OBVIOUS
  <2>. QED BY <2>4, <2>5, <2>6, <2>7 DEF Buffers
<1>. QED BY <1>4, <1>5

\* A buffer of an event with one line, or none, for its field.
LEMMA BufferOf ==
    ASSUME NEW ev, NEW buf, NEW field, NEW i, Buffers(buf, ev, field)
    PROVE  /\ Stored(ev, field) = {} => buf = <<>>
           /\ Stored(ev, field) = {i} => buf = <<ev[i].value>>
BY DEF Buffers

\* A single value of an event is in one buffer and the other is empty.
LEMMA OneValue ==
    ASSUME NEW ev, NEW d, NEW c, Buffers(d, ev, "data"), Buffers(c, ev, "comment"),
           NEW i, Values(ev) = {i}
    PROVE  \/ d = <<ev[i].value>> /\ c = <<>>
           \/ d = <<>> /\ c = <<ev[i].value>>
<1>1. Values(ev) = Stored(ev, "data") \cup Stored(ev, "comment")
  BY DEF Values, IsValue, Stored
<1>2. Stored(ev, "data") \cap Stored(ev, "comment") = {}
  BY DEF Stored
<1>3. \/ Stored(ev, "data") = {i} /\ Stored(ev, "comment") = {}
      \/ Stored(ev, "data") = {} /\ Stored(ev, "comment") = {i}
  BY <1>1, <1>2
<1>. QED BY <1>3, BufferOf

\* What flushEvent finds.
Finished == IsDone(dataBuf) \/ IsDone(commentBuf)
Found == IF Finished THEN None ELSE Flushed(dataBuf, commentBuf)

\* The id of an event of the expected format is found.
LEMMA FlushFinds ==
    ASSUME CallInv, call = "read", NEW id \in Id, Carries(current, id)
    PROVE  ~Finished /\ Found = id
<1>1. Buffers(dataBuf, current, "data") /\ Buffers(commentBuf, current, "comment") /\ eventName
  BY DEF CallInv, ReadInv, Carries
<1>2. PICK i \in DOMAIN current : /\ Values(current) = {i}
                                  /\ current[i].value = [form |-> "quoted", id |-> id]
  BY DEF Carries
<1> DEFINE v == [form |-> "quoted", id |-> id]
<1>3. \/ dataBuf = <<v>> /\ commentBuf = <<>>
      \/ dataBuf = <<>> /\ commentBuf = <<v>>
  BY <1>1, <1>2, OneValue
<1>4. ~Finished
  <2>1. <<v>>[1].form = "quoted" /\ Len(<<>>) = 0
    OBVIOUS
  <2>2. ~IsDone(<<v>>) /\ ~IsDone(<<>>)
    <3> HIDE DEF v
    <3>. QED BY <2>1 DEF IsDone
  <2>. QED BY <1>3, <2>2, Zenon DEF Finished
<1>5. Named(<<v>>) = id
  BY DEF Named
<1>6. CASE dataBuf = <<v>> /\ commentBuf = <<>>
  BY <1>1, <1>4, <1>5, <1>6 DEF Found, Flushed
<1>7. CASE dataBuf = <<>> /\ commentBuf = <<v>>
  BY <1>1, <1>4, <1>5, <1>7 DEF Found, Flushed
<1>. QED BY <1>3, <1>4, <1>6, <1>7

\* A [DONE] alone in its event is seen.
LEMMA FlushSeesDone ==
    ASSUME CallInv, call = "read", EndsStream(current)
    PROVE  Finished
<1>1. Buffers(dataBuf, current, "data") /\ Buffers(commentBuf, current, "comment")
  BY DEF CallInv, ReadInv
<1>2. PICK i \in DOMAIN current : Values(current) = {i} /\ current[i].value.form = "DONE"
  BY DEF EndsStream
<1>3. dataBuf = <<current[i].value>> \/ commentBuf = <<current[i].value>>
  BY <1>1, <1>2, OneValue
<1>. QED BY <1>2, <1>3 DEF Finished, IsDone

\* A buffer begins with the value of a line of the event.
LEMMA ValueOfLine ==
    ASSUME NEW ev, NEW buf, NEW field \in {"data", "comment"}, Buffers(buf, ev, field),
           buf # <<>>
    PROVE  \E i \in DOMAIN ev : i \in Values(ev) /\ ev[i].value = buf[1]
<1>1. PICK i \in Stored(ev, field) : ev[i].value = buf[1]
  BY DEF Buffers
<1>2. i \in DOMAIN ev /\ i \in Values(ev)
  BY <1>1 DEF Stored, Values, IsValue
<1>. QED BY <1>1, <1>2

\* An event of the expected format has no other text than its id.
LEMMA NamedIsRaw ==
    ASSUME NEW ev, NEW buf, NEW field \in {"data", "comment"}, Buffers(buf, ev, field),
           buf # <<>>, NEW id, Carries(ev, id)
    PROVE  Named(buf) = id
<1>1. PICK i \in DOMAIN ev : Values(ev) = {i} /\ ev[i].value = [form |-> "quoted", id |-> id]
  BY DEF Carries
<1>2. Stored(ev, field) \subseteq {i}
  BY <1>1 DEF Stored, Values, IsValue
<1>3. Stored(ev, field) # {}
  BY DEF Buffers
<1>4. buf = <<ev[i].value>>
  BY <1>2, <1>3, BufferOf
<1>5. PICK v : v = [form |-> "quoted", id |-> id]
  OBVIOUS
<1>6. v.form = "quoted" /\ v.id = id /\ buf = <<v>>
  BY <1>1, <1>4, <1>5
<1>7. Len(<<v>>) = 1 /\ <<v>>[1] = v
  OBVIOUS
<1>. QED BY <1>6, <1>7, Zenon DEF Named

\* What is found stands in the event, or is the text of a named event that has
\* not the expected format.
LEMMA FoundInEvent ==
    ASSUME CallInv, call = "read"
    PROVE  /\ Found \in Id \cup {None, Raw}
           /\ Found \in Id => \E i \in DOMAIN current :
                                  IsValue(current[i]) /\ current[i].value.id = Found
           /\ Found = Raw => IsWorkerEvent(current) /\ \A id \in Id : ~Carries(current, id)
<1>1. /\ dataBuf \in Seq(Value) /\ commentBuf \in Seq(Value)
      /\ Buffers(dataBuf, current, "data") /\ Buffers(commentBuf, current, "comment")
      /\ eventName <=> IsWorkerEvent(current)
  BY DEF CallInv, CallTypes, ReadInv
<1>2. None \notin Id /\ Raw \notin Id /\ None # Raw
  BY CallAssumption
<1>3. ASSUME NEW buf \in {dataBuf, commentBuf}
      PROVE  /\ Named(buf) \in Id \cup {Raw} /\ InObject(buf) \in Id \cup {None}
             /\ Named(buf) \in Id => buf # <<>> /\ buf[1].id = Named(buf)
             /\ InObject(buf) \in Id => buf # <<>> /\ buf[1].id = InObject(buf)
  <2>0. buf \in Seq(Value)
    BY <1>1
  <2>1. Len(buf) \in {1, 2} => buf[1] \in Value /\ buf # <<>>
    BY <2>0
  <2>2. Len(buf) \in {1, 2} /\ buf[1].form \in {"quoted", "object", "begin"}
            => buf[1].id \in Id
    BY <2>1 DEF Value
  <2>. QED BY <1>2, <2>1, <2>2 DEF Named, InObject, IsObject
<1>4. \A buf \in {dataBuf, commentBuf} : buf # <<>> =>
          \E i \in DOMAIN current : IsValue(current[i]) /\ current[i].value = buf[1]
  BY <1>1, ValueOfLine DEF Values
<1>5. CASE Finished
  BY <1>2, <1>5 DEF Found
<1>6. CASE ~Finished /\ ~eventName
  <2>1. Found = InObject(dataBuf)
    BY <1>6 DEF Found, Flushed
  <2>. QED BY <1>2, <1>3, <1>4, <2>1
<1>7. CASE ~Finished /\ eventName /\ dataBuf = <<>> /\ commentBuf = <<>>
  <2>1. Found = None
    BY <1>7 DEF Found, Flushed, InObject, IsObject
  <2>. QED BY <1>2, <2>1
<1>8. CASE ~Finished /\ eventName /\ ~(dataBuf = <<>> /\ commentBuf = <<>>)
  <2>1. PICK buf \in {dataBuf, commentBuf}, field \in {"data", "comment"} :
            buf # <<>> /\ Buffers(buf, current, field) /\ Found = Named(buf)
    BY <1>1, <1>8 DEF Found, Flushed
  <2>2. \A id \in Id : Carries(current, id) => Found = id
    BY <2>1, NamedIsRaw
  <2>3. Found = Raw => \A id \in Id : ~Carries(current, id)
    BY <1>2, <2>2
  <2>. QED BY <1>1, <1>2, <1>3, <1>4, <1>8, <2>1, <2>3
<1>. QED BY <1>5, <1>6, <1>7, <1>8

\* At a call that has not begun, nothing is read and nothing found.
LEMMA CallInvInit == CallInit => CallInv
<1> SUFFICES ASSUME CallInit PROVE CallInv
  OBVIOUS
<1>1. /\ call = "post" /\ eventName = FALSE /\ dataBuf = <<>> /\ commentBuf = <<>>
      /\ result = None /\ passed = FALSE /\ current = <<>>
  BY Zenon DEF CallInit
<1>2. ~IsWorkerEvent(<<>>) /\ Stored(<<>>, "data") = {} /\ Stored(<<>>, "comment") = {}
  <2>1. DOMAIN <<>> = {}
    OBVIOUS
  <2>. QED BY <2>1, Zenon DEF IsWorkerEvent, Stored
<1>3. CallTypes
  <2>1. eventName \in BOOLEAN /\ passed \in BOOLEAN
    BY <1>1, Zenon
  <2>2. <<>> \in Seq(Value) /\ <<>> \in Seq(Line)
    OBVIOUS
  <2>. QED BY <1>1, <2>1, <2>2 DEF CallTypes
<1>4. ReadInv
  BY <1>1, <1>2 DEF ReadInv, Buffers
<1>5. NoEventPassedOver /\ ResultIsOfLastEvent
  BY <1>1, CallAssumption DEF NoEventPassedOver, ResultIsOfLastEvent
<1>. QED BY <1>3, <1>4, <1>5 DEF CallInv

\* The response is an event stream, or the call fails.
LEMMA PostStep == ASSUME CallInv, Post PROVE CallInv'
<1>1. /\ call = "post" /\ UNCHANGED <<eventName, dataBuf, commentBuf, result, passed, current>>
      /\ call' = "read" \/ (call' = "error" /\ done' = "fault")
  BY Zenon DEF Post, buffers
<1>2. CallTypes'
  BY <1>1 DEF CallInv, CallTypes
<1>3. ReadInv'
  BY <1>1 DEF CallInv, ReadInv
<1>4. NoEventPassedOver' /\ ResultIsOfLastEvent'
  BY <1>1 DEF CallInv, NoEventPassedOver, ResultIsOfLastEvent
<1>. QED BY <1>2, <1>3, <1>4 DEF CallInv

\* A failed read returns no id and looks at no event.
LEMMA ReadFailsStep == ASSUME CallInv, ReadFails PROVE CallInv'
<1>1. /\ call = "read" /\ UNCHANGED <<eventName, dataBuf, commentBuf, result, passed, current>>
      /\ call' = "error" /\ done' = "fault"
  BY Zenon DEF ReadFails, buffers
<1>2. CallTypes'
  BY <1>1 DEF CallInv, CallTypes
<1>3. ReadInv'
  BY <1>1 DEF CallInv, ReadInv
<1>4. NoEventPassedOver' /\ ResultIsOfLastEvent'
  BY <1>1 DEF CallInv, NoEventPassedOver, ResultIsOfLastEvent
<1>. QED BY <1>2, <1>3, <1>4 DEF CallInv

\* A line is stored where the switch over its prefix says.
LEMMA ReadLineStep == ASSUME CallInv, NEW l \in Line, ReadLine(l) PROVE CallInv'
<1>1. /\ call = "read" /\ call' = "read" /\ UNCHANGED <<result, passed>>
      /\ eventName' = IF l.field = "event" THEN l.value = "worker_instance_id" ELSE eventName
      /\ dataBuf' = BufferAfter(dataBuf, "data", l)
      /\ commentBuf' = BufferAfter(commentBuf, "comment", l)
      /\ current' = Append(current, l)
  BY Zenon DEF ReadLine, BufferAfter
<1>2. /\ current \in Seq(Line) /\ dataBuf \in Seq(Value) /\ commentBuf \in Seq(Value)
      /\ eventName \in BOOLEAN /\ passed \in BOOLEAN /\ result = None
      /\ eventName <=> IsWorkerEvent(current)
      /\ Buffers(dataBuf, current, "data") /\ Buffers(commentBuf, current, "comment")
  BY <1>1 DEF CallInv, CallTypes, ReadInv
<1>3. /\ dataBuf' \in Seq(Value) /\ Buffers(dataBuf', current', "data")
      /\ commentBuf' \in Seq(Value) /\ Buffers(commentBuf', current', "comment")
  BY <1>1, <1>2, BufferAppended
<1>4. eventName' \in BOOLEAN /\ (eventName' <=> IsWorkerEvent(current'))
  <2>1. IsWorkerEvent(current') <=>
            IF l.field = "event" THEN l.value = "worker_instance_id" ELSE IsWorkerEvent(current)
    BY <1>1, <1>2, NameAppended
  <2>. QED BY <1>1, <1>2, <2>1, Zenon
<1>5. CallTypes'
  <2>1. current' \in Seq(Line)
    BY <1>1, <1>2, AppendLine
  <2>. QED BY <1>1, <1>2, <1>3, <1>4, <2>1 DEF CallTypes
<1>6. ReadInv'
  BY <1>1, <1>2, <1>3, <1>4 DEF ReadInv
<1>7. NoEventPassedOver' /\ ResultIsOfLastEvent'
  BY <1>1, <1>2, CallAssumption DEF CallInv, NoEventPassedOver, ResultIsOfLastEvent
<1>. QED BY <1>5, <1>6, <1>7 DEF CallInv

\* A blank line returns what the event says, or goes on to an empty event.
LEMMA BlankLineStep == ASSUME CallInv, BlankLine PROVE CallInv'
<1>1. /\ call = "read" /\ dataBuf' = <<>> /\ commentBuf' = <<>> /\ result' = Found
      /\ call' = IF Found # None THEN "ok" ELSE IF Finished THEN "error" ELSE "read"
      /\ IF call' = "read"
         THEN eventName' = FALSE /\ passed' = (passed \/ Decides(current)) /\ current' = <<>>
         ELSE eventName' = eventName /\ passed' = passed /\ current' = current
  BY Zenon DEF BlankLine, flushEvent, Found, Finished
<1>2. /\ current \in Seq(Line) /\ eventName \in BOOLEAN /\ ~passed
  BY DEF CallInv, CallTypes, NoEventPassedOver
<1>3. CASE Found = None /\ ~Finished
  <2>1. /\ call' = "read" /\ eventName' = FALSE /\ passed' = (passed \/ Decides(current))
        /\ current' = <<>> /\ result' = None
    BY <1>1, <1>3, Zenon
  <2>2. ~Decides(current)
    <3>1. \A id \in Id : ~Carries(current, id)
      BY <1>1, <1>3, FlushFinds, CallAssumption
    <3>2. ~EndsStream(current)
      BY <1>1, <1>3, FlushSeesDone
    <3>. QED BY <3>1, <3>2, Zenon DEF Decides
  <2>3. passed' = FALSE
    BY <1>2, <2>1, <2>2, Zenon DEF CallInv, CallTypes
  <2>4. ~IsWorkerEvent(<<>>) /\ Stored(<<>>, "data") = {} /\ Stored(<<>>, "comment") = {}
    <3>1. DOMAIN <<>> = {}
      OBVIOUS
    <3>. QED BY <3>1, Zenon DEF IsWorkerEvent, Stored
  <2>5. CallTypes'
    <3>1. eventName' \in BOOLEAN /\ passed' \in BOOLEAN
      BY <2>1, <2>3, Zenon
    <3>2. <<>> \in Seq(Value) /\ <<>> \in Seq(Line)
      OBVIOUS
    <3>. QED BY <1>1, <2>1, <3>1, <3>2 DEF CallTypes
  <2>6. ReadInv'
    BY <1>1, <2>1, <2>4 DEF ReadInv, Buffers
  <2>7. NoEventPassedOver' /\ ResultIsOfLastEvent'
    BY <2>1, <2>3, CallAssumption DEF NoEventPassedOver, ResultIsOfLastEvent
  <2>. QED BY <2>5, <2>6, <2>7 DEF CallInv
<1>4. CASE Found # None \/ Finished
  <2>1. /\ call' \in {"ok", "error"} /\ eventName' = eventName /\ passed' = passed
        /\ current' = current /\ result' = Found
    BY <1>1, <1>4, Zenon
  <2>2. CallTypes'
    BY <1>1, <1>2, <2>1 DEF CallInv, CallTypes
  <2>3. ReadInv'
    BY <2>1 DEF ReadInv
  <2>4. NoEventPassedOver'
    <3>1. \A id \in Id : Carries(current, id) => Found = id
      BY <1>1, FlushFinds
    <3>. QED BY <1>2, <2>1, <3>1 DEF NoEventPassedOver
  <2>5. ResultIsOfLastEvent'
    BY <1>1, <2>1, FoundInEvent DEF ResultIsOfLastEvent
  <2>. QED BY <2>2, <2>3, <2>4, <2>5 DEF CallInv
<1>. QED BY <1>3, <1>4

\* The end of the stream returns what the event so far says.
LEMMA EndOfFileStep == ASSUME CallInv, EndOfFile PROVE CallInv'
<1>1. /\ call = "read" /\ dataBuf' = <<>> /\ commentBuf' = <<>> /\ result' = Found
      /\ call' \in {"ok", "error"}
      /\ eventName' = eventName /\ passed' = passed /\ current' = current
  BY Zenon DEF EndOfFile, Found, Finished
<1>2. CallTypes'
  BY <1>1 DEF CallInv, CallTypes
<1>3. ReadInv'
  BY <1>1 DEF ReadInv
<1>4. NoEventPassedOver'
  <2>1. \A id \in Id : Carries(current, id) => Found = id
    BY <1>1, FlushFinds
  <2>. QED BY <1>1, <2>1 DEF CallInv, NoEventPassedOver
<1>5. ResultIsOfLastEvent'
  BY <1>1, FoundInEvent DEF ResultIsOfLastEvent
<1>. QED BY <1>2, <1>3, <1>4, <1>5 DEF CallInv

\* The inductive invariant of the call to the FrontEnd.
THEOREM CallInvCorrect == CallSpec => []CallInv
<1>1. ASSUME CallInv, [CallNext]_callVars PROVE CallInv'
  <2>1. CASE CallNext
    BY <1>1, <2>1, PostStep, ReadFailsStep, ReadLineStep, BlankLineStep, EndOfFileStep
    DEF CallNext
  <2>2. CASE UNCHANGED callVars
    <3>1. UNCHANGED <<call, eventName, dataBuf, commentBuf, result, done, passed, current>>
      BY <2>2, Zenon DEF callVars, buffers
    <3>. QED BY <1>1, <3>1 DEF CallInv, CallTypes, ReadInv, NoEventPassedOver, ResultIsOfLastEvent
  <2>. QED BY <1>1, <2>1, <2>2
<1>. QED BY <1>1, CallInvInit, PTL DEF CallSpec

\* Whatever lines the FrontEnd sends: the first event that carries an id in the
\* expected format, or a [DONE], decides the call.
THEOREM NoEventPassedOverCorrect == CallSpec => []NoEventPassedOver
<1>1. CallInv => NoEventPassedOver
  BY DEF CallInv
<1>. QED BY <1>1, CallInvCorrect, PTL

\* Whatever lines the FrontEnd sends: an id returned stands in the last event,
\* and a raw text comes only from a named event of another format.
THEOREM ResultIsOfLastEventCorrect == CallSpec => []ResultIsOfLastEvent
<1>1. CallInv => ResultIsOfLastEvent
  BY DEF CallInv
<1>. QED BY <1>1, CallInvCorrect, PTL
=============================================================================
