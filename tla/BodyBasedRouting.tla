-------------------------- MODULE BodyBasedRouting --------------------------
(***************************************************************************)
(* The body-based router's ext_proc server (pkg/body-based-routing): it     *)
(* copies the model of a request's body into a header.  In streaming mode   *)
(* the headers are answered when the body has come to its end.              *)
(***************************************************************************)
EXTENDS Naturals, Sequences

CONSTANT MaxChunks   \* bound: messages the body of a request, of a response is cut into

VARIABLES
    streaming,   \* Server.streaming
    body,        \* the request's body: how its "model" looks, or not JSON
    total,       \* the messages its bytes are cut into
    trailers,    \* the request has trailers
    envoy,       \* the message Envoy sends next
    n,           \* parts of the body received
    buf,         \* parts of it in streamedBody
    chunks,      \* response bodies received
    pc,          \* where Process is
    out,         \* the responses left to send
    sent,        \* the kinds sent
    header,      \* a response has set X-Gateway-Model-Name
    forwarded    \* the body that goes upstream

request == <<streaming, body, total, trailers>>
vars == <<request, envoy, n, buf, chunks, pc, out, sent, header, forwarded>>

Body == {"model", "noModel", "notString", "bad"}
Message == {"requestHeaders", "requestBody", "requestTrailers",
            "responseHeaders", "responseBody", "responseTrailers"}
Response == [kind : Message, model : BOOLEAN, body : {"same", "null"}]

TypeOK ==
    /\ streaming \in BOOLEAN /\ body \in Body /\ total \in 0..MaxChunks
    /\ trailers \in BOOLEAN
    /\ envoy \in Message \cup {"done"}
    /\ n \in 0..total /\ buf \in 0..n /\ chunks \in 0..MaxChunks
    /\ pc \in {"recv", "send", "ok", "error"}
    /\ out \in Seq(Response) /\ (pc = "send" <=> out # <<>>)
    /\ sent \in Seq(Message)
    /\ header \in BOOLEAN /\ forwarded \in {"same", "null"}

-----------------------------------------------------------------------------
Recv(message, next) == pc = "recv" /\ envoy = message /\ envoy' \in next

Plain(kind) == [kind |-> kind, model |-> FALSE, body |-> "same"]
Respond(responses) == out' = responses /\ pc' = IF responses = <<>> THEN "recv" ELSE "send"

HandleRequestHeaders ==
    LET eos == total = 0 /\ ~trailers IN
    /\ Recv("requestHeaders", IF eos THEN {"responseHeaders"}
                              ELSE IF total = 0 THEN {"requestTrailers"}
                              ELSE {"requestBody"})
    /\ Respond(IF streaming /\ ~eos THEN <<>> ELSE <<Plain("requestHeaders")>>)
    /\ UNCHANGED <<request, n, buf, chunks, sent, header, forwarded>>

\* HandleRequestBody for what was parsed.  In streaming mode a body that does
\* not parse is a nil map, which is marshalled as null.
HandleRequestBody(parsed) ==
    LET found == parsed = "model" IN
    IF parsed = "notString" THEN pc' = "error" /\ UNCHANGED out
    ELSE Respond(IF streaming
                 THEN <<[Plain("requestHeaders") EXCEPT !.model = found],
                        [Plain("requestBody") EXCEPT
                            !.body = IF parsed = "bad" THEN "null" ELSE "same"]>>
                 ELSE <<[Plain("requestBody") EXCEPT !.model = found]>>)

AfterBody == IF trailers THEN {"requestTrailers"} ELSE {"responseHeaders"}

\* processRequestBody without streaming: the whole body in one message.
BufferedBody ==
    /\ ~streaming
    /\ Recv("requestBody", AfterBody)
    /\ n' = total
    /\ IF body = "bad" THEN pc' = "error" /\ UNCHANGED out ELSE HandleRequestBody(body)
    /\ UNCHANGED <<request, buf, chunks, sent, header, forwarded>>

\* processRequestBody of a part that does not end the stream.  With trailers
\* to come no part does.
StreamedPart ==
    /\ streaming
    /\ n < total /\ n' = n + 1
    /\ Recv("requestBody", IF n' = total /\ trailers THEN {"requestTrailers"}
                           ELSE {"requestBody"})
    /\ buf' = buf + 1
    /\ Respond(<<>>)
    /\ UNCHANGED <<request, chunks, sent, header, forwarded>>

\* Mutant: the body is taken from the last message alone.
StreamedEndParsesLast ==
    /\ streaming /\ ~trailers
    /\ total <= n + 1 /\ n' = total
    /\ Recv("requestBody", {"responseHeaders"})
    /\ HandleRequestBody(IF total = 1 /\ n = 0 THEN body ELSE "bad")
    /\ UNCHANGED <<request, buf, chunks, sent, header, forwarded>>

\* processRequestBody at the end of the stream: what was accumulated is
\* parsed.  The last message may carry the last part or nothing.
StreamedEnd ==
    /\ streaming /\ ~trailers
    /\ total <= n + 1 /\ n' = total
    /\ Recv("requestBody", {"responseHeaders"})
    /\ HandleRequestBody(IF buf = total THEN body ELSE "bad")
    /\ UNCHANGED <<request, buf, chunks, sent, header, forwarded>>

\* Without an answer to its headers the request goes no further.
HandleRequestTrailers ==
    /\ Recv("requestTrailers", IF streaming THEN {"done"} ELSE {"responseHeaders"})
    /\ Respond(<<Plain("requestTrailers")>>)
    /\ UNCHANGED <<request, n, buf, chunks, sent, header, forwarded>>

AfterResponse(received) ==
    {"responseTrailers", "done"} \cup (IF received < MaxChunks THEN {"responseBody"} ELSE {})

HandleResponseHeaders ==
    /\ Recv("responseHeaders", AfterResponse(0))
    /\ Respond(<<Plain("responseHeaders")>>)
    /\ UNCHANGED <<request, n, buf, chunks, sent, header, forwarded>>

HandleResponseBody ==
    /\ chunks' = chunks + 1
    /\ Recv("responseBody", AfterResponse(chunks'))
    /\ Respond(<<Plain("responseBody")>>)
    /\ UNCHANGED <<request, n, buf, sent, header, forwarded>>

\* Process has no case for them.
ResponseTrailers ==
    /\ Recv("responseTrailers", {"responseTrailers"})
    /\ pc' = "error"
    /\ UNCHANGED <<request, n, buf, chunks, out, sent, header, forwarded>>

StreamCloses ==
    /\ pc = "recv" /\ pc' \in {"ok", "error"}
    /\ UNCHANGED <<request, envoy, n, buf, chunks, out, sent, header, forwarded>>

\* Mutant: a failing Send is logged and the next response sent.
SendNext ==
    /\ pc = "send"
    /\ out' = Tail(out) /\ pc' = IF out' = <<>> THEN "recv" ELSE "send"
    /\ \/ sent' = sent /\ UNCHANGED <<header, forwarded>>
       \/ /\ sent' = Append(sent, Head(out).kind)
          /\ header' = (header \/ Head(out).model)
          /\ forwarded' = IF Head(out).kind = "requestBody" THEN Head(out).body ELSE forwarded
    /\ UNCHANGED <<request, envoy, n, buf, chunks>>

\* Send of one response; its failure ends the stream.
Send ==
    /\ pc = "send"
    /\ \/ /\ out' = Tail(out) /\ pc' = IF out' = <<>> THEN "recv" ELSE "send"
          /\ sent' = Append(sent, Head(out).kind)
          /\ header' = (header \/ Head(out).model)
          /\ forwarded' = IF Head(out).kind = "requestBody" THEN Head(out).body ELSE forwarded
       \/ pc' = "error" /\ out' = <<>> /\ UNCHANGED <<sent, header, forwarded>>
    /\ UNCHANGED <<request, envoy, n, buf, chunks>>

-----------------------------------------------------------------------------
Init ==
    /\ streaming \in BOOLEAN /\ body \in Body /\ total \in 0..MaxChunks
    /\ trailers \in BOOLEAN
    /\ envoy = "requestHeaders" /\ n = 0 /\ buf = 0 /\ chunks = 0
    /\ pc = "recv" /\ out = <<>> /\ sent = <<>>
    /\ header = FALSE /\ forwarded = "same"

EnvoySends ==
    \/ HandleRequestHeaders \/ BufferedBody \/ StreamedPart \/ StreamedEnd
    \/ HandleRequestTrailers \/ HandleResponseHeaders \/ HandleResponseBody
    \/ ResponseTrailers

Next == EnvoySends \/ Send \/ StreamCloses

Spec == Init /\ [][Next]_vars

-----------------------------------------------------------------------------
(* Properties.                                                              *)

Order == INSTANCE ExtProcOrder WITH sent <- sent

\* A request without trailers has its responses in the order Envoy accepts,
\* whatever its body and however it is cut, with the part that a failing Send
\* leaves out at the end.
OrderUnlessTrailers == [][streaming /\ ~trailers => Order!Next]_sent

\* When a request's messages have been handled without an error, a JSON body
\* went upstream as it is and with its model in the header, unless the last
\* message had bytes in it.
RoutedUnlessLastCarries ==
    pc = "recv" /\ envoy = "responseHeaders" /\ total > 0 /\ body # "bad"
    /\ (streaming => buf = total)
        => forwarded = "same" /\ (header <=> body = "model")

\* README.md:9: a model parameter found in the body is copied into a header.
ModelCopied ==
    pc = "recv" /\ envoy = "responseHeaders" /\ total > 0 /\ body = "model" => header
=============================================================================
