------------------------- MODULE RequestPath_proofs -------------------------
(***************************************************************************)
(* Proofs about RequestPath, for bodies cut into any number of messages:    *)
(* the router's responses keep Envoy's order, a body that it read whole     *)
(* goes upstream with its model in the header and is never blamed by the    *)
(* picker, and the picker answers every message once.                       *)
(***************************************************************************)
EXTENDS RequestPath, TLAPS

-----------------------------------------------------------------------------
(* The inductive invariant of the router.                                   *)

\* What HandleRequestBody of the router finds in the body, and what it
\* forwards.
Found == body = "model" /\ (streaming => buf = total)
Kept == IF streaming /\ (body = "bad" \/ buf # total) THEN "null" ELSE "same"

\* A response in out.
Answer(kind, found, content) == [kind |-> kind, model |-> found, body |-> content]

RouterType ==
    /\ streaming \in BOOLEAN /\ body \in Router!Body /\ trailers \in BOOLEAN
    /\ total \in Nat /\ n \in Nat /\ buf \in Nat /\ buf <= n /\ n <= total
    /\ header \in BOOLEAN /\ rSent \in Seq(Router!Message)

\* The request body has not been answered.
Unanswered == header = FALSE /\ forwarded = "same"

\* It has been, if there is one.
Answered ==
    /\ total > 0 => header = Found /\ forwarded = Kept
    /\ total = 0 => Unanswered

\* The kind that was sent last is one of these, where Envoy's order is promised.
LastIn(kinds) == streaming /\ ~trailers => Router!Order!Last \in kinds

\* Between two messages of Envoy nothing is left to send.
Receiving ==
    /\ rPc = "recv" /\ out = <<>>
    /\ \/ rEnvoy \in {"requestHeaders", "requestBody"} /\ Unanswered /\ LastIn({"none"})
          /\ (rEnvoy = "requestBody" => total > 0)
       \/ rEnvoy = "requestTrailers" /\ trailers /\ (streaming \/ Answered)
       \/ rEnvoy = "responseHeaders" /\ Answered
          /\ LastIn({"requestHeaders", "requestBody"})
       \/ rEnvoy \in {"responseBody", "responseTrailers", "done"}
          /\ LastIn({"responseHeaders", "responseBody"})

\* The answer to the headers of a request: in streaming mode only if nothing follows.
SendingHeaders ==
    /\ out = <<Answer("requestHeaders", FALSE, "same")>>
    /\ Unanswered /\ LastIn({"none"})
    /\ \/ rEnvoy = "requestBody" /\ ~streaming /\ total > 0
       \/ rEnvoy = "requestTrailers" /\ ~streaming /\ trailers /\ total = 0
       \/ rEnvoy = "responseHeaders" /\ total = 0

\* The answers to its body: two responses in streaming mode, one otherwise.
SendingBody ==
    /\ total > 0
    /\ \/ rEnvoy = "responseHeaders"
       \/ rEnvoy = "requestTrailers" /\ trailers /\ ~streaming
    /\ \/ /\ streaming /\ Unanswered /\ LastIn({"none"})
          /\ out = <<Answer("requestHeaders", Found, "same"),
                     Answer("requestBody", FALSE, Kept)>>
       \/ /\ streaming /\ header = Found /\ forwarded = "same" /\ LastIn({"requestHeaders"})
          /\ out = <<Answer("requestBody", FALSE, Kept)>>
       \/ /\ ~streaming /\ Unanswered
          /\ out = <<Answer("requestBody", Found, "same")>>

\* The answer to anything after it.
SendingRest ==
    \/ /\ out = <<Answer("requestTrailers", FALSE, "same")>> /\ trailers
       /\ rEnvoy = "done" \/ (rEnvoy = "responseHeaders" /\ Answered)
    \/ /\ rEnvoy \in {"responseBody", "responseTrailers", "done"}
       /\ \/ /\ out = <<Answer("responseHeaders", FALSE, "same")>>
             /\ LastIn({"requestHeaders", "requestBody"})
          \/ /\ out = <<Answer("responseBody", FALSE, "same")>>
             /\ LastIn({"responseHeaders", "responseBody"})

RouterInv ==
    /\ RouterType
    /\ \/ rPc \in {"ok", "error"}
       \/ Receiving
       \/ rPc = "send" /\ (SendingHeaders \/ SendingBody \/ SendingRest)

-----------------------------------------------------------------------------
(* The inductive invariant of the picker.                                   *)

\* A response of the kind answers the i-th message of Envoy.
Answers(i, kind) ==
    \/ i = 1 /\ kind = "requestHeaders"
    \/ i = 2 /\ kind \in {"requestBody", "immediate"}
    \/ i = 3 /\ kind = "responseHeaders"
    \/ i > 3 /\ kind \in {"responseBody", "empty"}

\* The message that is next tells how many were received.
Expects ==
    /\ envoy = "requestHeaders" => received = 0
    /\ envoy = "requestBody" => received = 1
    /\ envoy = "responseHeaders" => received = 2
    /\ envoy = "responseBody" => received > 2

\* Every response that was sent answers the message of its place.
SentRight == \A i \in 1..Len(sent) : Answers(i, sent[i])

\* Process has no error to answer with.
NoError == err = ""

\* Where Process is tells whether the last message has its answer.
Turn ==
    /\ received \in Nat /\ sent \in Seq(Picker!Kind)
    /\ SentRight
    /\ \/ pc = "recv" /\ Len(sent) = received /\ NoError
       \/ pc \in {"lookup", "schedule", "pool"} /\ received = 2 /\ Len(sent) = 1 /\ NoError
       \/ /\ pc = "respond" /\ Len(sent) + 1 = received
          /\ IF NoError THEN Answers(received, answer) /\ answer \in Picker!Kind
                         ELSE received = 2
       \/ /\ pc = "send" /\ Len(sent) + 1 = received /\ NoError
          /\ Answers(received, answer) /\ answer \in Picker!Kind
       \/ pc = "ended"

\* A response that is complete has no message left.
LatencyInv ==
    /\ complete \in BOOLEAN
    /\ complete => envoy = "done" /\ latencies = 1
    /\ ~complete => latencies = 0

PickerInv == Expects /\ Turn /\ LatencyInv

\* The two servers: the picker works while the router waits for the response,
\* and it blames the body only if it is not the one that the client wrote.
PathInv ==
    /\ picking = "open" => Upstream
    /\ picking # "open" => err = "" /\ refused = ""
    /\ body = "model" /\ (err = "BadRequest" \/ refused = "BadRequest")
          => forwarded # "same"

Inv == RouterInv /\ PickerInv /\ PathInv

-----------------------------------------------------------------------------
(* Lemmas about the router.                                                 *)

\* Send makes the kind of its response the last one.
LEMMA LastAppended ==
    ASSUME rSent \in Seq(Router!Message), NEW kind \in Router!Message,
           rSent' = Append(rSent, kind)
    PROVE  Router!Order!Last' = kind /\ rSent' \in Seq(Router!Message)
<1>1. Len(rSent') = Len(rSent) + 1 /\ rSent'[Len(rSent')] = kind
      /\ rSent' \in Seq(Router!Message) /\ rSent' # <<>>
  OBVIOUS
<1> QED
  BY <1>1 DEF Router!Order!Last

\* Where nothing is sent the last kind stays.
LEMMA LastStays ==
    ASSUME UNCHANGED <<streaming, trailers, rSent>>, NEW kinds, LastIn(kinds)
    PROVE  LastIn(kinds)'
BY DEF LastIn, Router!Order!Last

\* The router starts with nothing sent and nothing left to send.
LEMMA RouterInit == Init => RouterInv
<1> SUFFICES ASSUME Init PROVE RouterInv
  OBVIOUS
<1>1. Router!Init
  BY DEF Init
<1>2. RouterType
  <2>1. total \in Nat /\ 0 <= total /\ n = 0 /\ buf = 0
    BY <1>1, PathAssumption DEF Router!Init
  <2>2. n \in Nat /\ buf \in Nat /\ buf <= n /\ n <= total
    BY <2>1
  <2>3. rSent \in Seq(Router!Message)
    BY <1>1 DEF Router!Init
  <2> QED
    BY <1>1, <2>1, <2>2, <2>3, Zenon DEF Router!Init, RouterType
<1>3. Receiving
  BY <1>1 DEF Router!Init, Receiving, Unanswered, LastIn, Router!Order!Last
<1> QED
  BY <1>2, <1>3 DEF RouterInv

\* The headers of a request (HandleRequestHeaders of the router).
LEMMA RequestHeadersStep ==
    ASSUME RouterInv, Router!HandleRequestHeaders PROVE RouterInv'
<1>1. /\ rPc = "recv" /\ rEnvoy = "requestHeaders" /\ Unanswered /\ LastIn({"none"})
      /\ RouterType
  BY DEF RouterInv, Receiving, SendingHeaders, SendingBody, SendingRest,
         Router!HandleRequestHeaders, Router!Recv
<1>2. UNCHANGED <<streaming, body, total, trailers, n, buf, rSent, header, forwarded>>
  BY DEF Router!HandleRequestHeaders, Router!request
<1>3. RouterType' /\ Unanswered' /\ LastIn({"none"})'
  BY <1>1, <1>2, LastStays DEF RouterType, Unanswered
<1>4. CASE streaming /\ ~(total = 0 /\ ~trailers)
  <2>1. /\ rPc' = "recv" /\ out' = <<>>
        /\ rEnvoy' = IF total = 0 THEN "requestTrailers" ELSE "requestBody"
    BY <1>1, <1>4 DEF Router!HandleRequestHeaders, Router!Recv, Router!Respond, RouterType
  <2> QED
    BY <1>1, <1>2, <1>3, <1>4, <2>1 DEF RouterInv, Receiving, RouterType
<1>5. CASE ~(streaming /\ ~(total = 0 /\ ~trailers))
  <2>1. /\ rPc' = "send" /\ out' = <<Answer("requestHeaders", FALSE, "same")>>
        /\ rEnvoy' = IF total = 0 /\ ~trailers THEN "responseHeaders"
                     ELSE IF total = 0 THEN "requestTrailers" ELSE "requestBody"
    BY <1>1, <1>5 DEF Router!HandleRequestHeaders, Router!Recv, Router!Respond,
                      Router!Plain, Answer, RouterType
  <2> QED
    BY <1>1, <1>2, <1>3, <1>5, <2>1 DEF RouterInv, SendingHeaders, RouterType
<1> QED
  BY <1>4, <1>5

\* HandleRequestBody returns an error, or leaves the answers for what it found.
LEMMA BodyAnswers ==
    ASSUME total > 0, Unanswered,
           rEnvoy' = "responseHeaders"
             \/ (rEnvoy' = "requestTrailers" /\ trailers /\ ~streaming),
           UNCHANGED <<streaming, body, total, trailers, buf, rSent, header, forwarded>>,
           LastIn({"none"}), RouterType, RouterType',
           streaming => Router!HandleRequestBody(IF buf = total THEN body ELSE "bad"),
           ~streaming => body # "bad" /\ Router!HandleRequestBody(body)
    PROVE  RouterInv'
<1> DEFINE parsed == IF streaming /\ buf # total THEN "bad" ELSE body
<1>1. Router!HandleRequestBody(parsed) /\ (~streaming => parsed # "bad")
  BY DEF RouterType
<1>2. Found' = Found /\ Kept' = Kept /\ Unanswered' /\ LastIn({"none"})'
  BY LastStays DEF Found, Kept, Unanswered
<1>3. CASE parsed = "notString"
  BY <1>1, <1>3 DEF Router!HandleRequestBody, RouterInv
<1>4. CASE parsed # "notString" /\ streaming
  <2>1. Found = (parsed = "model") /\ Kept = IF parsed = "bad" THEN "null" ELSE "same"
    BY <1>4 DEF Found, Kept, RouterType
  <2>2. rPc' = "send" /\ out' = <<Answer("requestHeaders", Found, "same"),
                                 Answer("requestBody", FALSE, Kept)>>
    BY <1>1, <1>4, <2>1
       DEF Router!HandleRequestBody, Router!Respond, Router!Plain, Answer
  <2>3. SendingBody'
    BY <1>2, <1>4, <2>2 DEF SendingBody, Answer
  <2> QED
    BY <2>2, <2>3 DEF RouterInv
<1>5. CASE parsed # "notString" /\ ~streaming
  <2>1. Found = (parsed = "model")
    BY <1>5 DEF Found, RouterType
  <2>2. rPc' = "send" /\ out' = <<Answer("requestBody", Found, "same")>>
    BY <1>1, <1>5, <2>1
       DEF Router!HandleRequestBody, Router!Respond, Router!Plain, Answer
  <2>3. SendingBody'
    BY <1>2, <1>5, <2>2 DEF SendingBody, Answer
  <2> QED
    BY <2>2, <2>3 DEF RouterInv
<1> QED
  BY <1>3, <1>4, <1>5

\* The messages of a request's body (processRequestBody).
LEMMA RequestBodyStep ==
    ASSUME RouterInv,
           Router!BufferedBody \/ Router!StreamedPart \/ Router!StreamedEnd
    PROVE  RouterInv'
<1>1. /\ rPc = "recv" /\ out = <<>> /\ rEnvoy = "requestBody" /\ Unanswered
      /\ LastIn({"none"}) /\ total > 0 /\ RouterType
  BY DEF RouterInv, Receiving, SendingHeaders, SendingBody, SendingRest,
         Router!BufferedBody, Router!StreamedPart, Router!StreamedEnd, Router!Recv
<1>2. CASE Router!BufferedBody
  <2>1. /\ UNCHANGED <<streaming, body, total, trailers, buf, rSent, header, forwarded>>
        /\ n' = total /\ ~streaming
    BY <1>2 DEF Router!BufferedBody, Router!request
  <2>2. RouterType'
    BY <1>1, <2>1 DEF RouterType
  <2>3. CASE body = "bad"
    BY <1>2, <2>2, <2>3 DEF Router!BufferedBody, RouterInv
  <2>4. CASE body # "bad"
    <3>1. rEnvoy' = "responseHeaders"
          \/ (rEnvoy' = "requestTrailers" /\ trailers /\ ~streaming)
      BY <1>2, <2>1 DEF Router!BufferedBody, Router!Recv, Router!AfterBody
    <3>2. Router!HandleRequestBody(body)
      BY <1>2, <2>4 DEF Router!BufferedBody
    <3> QED
      BY <1>1, <2>1, <2>2, <2>4, <3>1, <3>2, BodyAnswers
  <2> QED
    BY <2>3, <2>4
<1>3. CASE Router!StreamedPart
  <2>1. /\ UNCHANGED <<streaming, body, total, trailers, rSent, header, forwarded>>
        /\ n' = n + 1 /\ buf' = buf + 1 /\ n < total /\ streaming
        /\ rPc' = "recv" /\ out' = <<>>
        /\ rEnvoy' = "requestBody" \/ (rEnvoy' = "requestTrailers" /\ trailers)
    BY <1>3 DEF Router!StreamedPart, Router!request, Router!Respond, Router!Recv
  <2>2. RouterType'
    BY <1>1, <2>1 DEF RouterType
  <2>3. Receiving'
    BY <1>1, <2>1, LastStays DEF Receiving, Unanswered
  <2> QED
    BY <2>2, <2>3 DEF RouterInv
<1>4. CASE Router!StreamedEnd
  <2>1. /\ UNCHANGED <<streaming, body, total, trailers, buf, rSent, header, forwarded>>
        /\ n' = total /\ streaming /\ rEnvoy' = "responseHeaders"
    BY <1>4 DEF Router!StreamedEnd, Router!request, Router!Recv
  <2>2. RouterType'
    BY <1>1, <2>1 DEF RouterType
  <2>3. Router!HandleRequestBody(IF buf = total THEN body ELSE "bad")
    BY <1>4 DEF Router!StreamedEnd
  <2> QED
    BY <1>1, <2>1, <2>2, <2>3, BodyAnswers
<1> QED
  BY <1>2, <1>3, <1>4

\* The messages that need no more than an answer, and the response trailers,
\* for which Process has no case.
LEMMA OtherMessageStep ==
    ASSUME RouterInv,
           \/ Router!HandleRequestTrailers \/ Router!HandleResponseHeaders
           \/ Router!HandleResponseBody \/ Router!ResponseTrailers
    PROVE  RouterInv'
<1>1. /\ rPc = "recv" /\ Receiving /\ RouterType
      /\ UNCHANGED <<streaming, body, total, trailers, n, buf, rSent, header, forwarded>>
  BY DEF RouterInv, Router!HandleRequestTrailers, Router!HandleResponseHeaders,
         Router!HandleResponseBody, Router!ResponseTrailers, Router!Recv, Router!request
<1>2. RouterType' /\ (Answered => Answered')
  BY <1>1 DEF RouterType, Answered, Unanswered, Found, Kept
<1>3. CASE Router!HandleRequestTrailers
  <2>1. /\ rPc' = "send" /\ out' = <<Answer("requestTrailers", FALSE, "same")>>
        /\ rEnvoy = "requestTrailers"
        /\ rEnvoy' = IF streaming THEN "done" ELSE "responseHeaders"
    BY <1>3 DEF Router!HandleRequestTrailers, Router!Recv, Router!Respond, Router!Plain,
                Answer
  <2>2. SendingRest'
    BY <1>1, <1>2, <2>1 DEF SendingRest, Receiving, Answer
  <2> QED
    BY <1>2, <2>1, <2>2 DEF RouterInv
<1>4. CASE Router!HandleResponseHeaders
  <2>1. /\ rPc' = "send" /\ out' = <<Answer("responseHeaders", FALSE, "same")>>
        /\ rEnvoy = "responseHeaders"
        /\ rEnvoy' \in {"responseBody", "responseTrailers", "done"}
    BY <1>4 DEF Router!HandleResponseHeaders, Router!Recv, Router!Respond, Router!Plain,
                Router!AfterResponse, Answer
  <2>2. SendingRest'
    BY <1>1, <2>1, LastStays DEF SendingRest, Receiving, Answer
  <2> QED
    BY <1>2, <2>1, <2>2 DEF RouterInv
<1>5. CASE Router!HandleResponseBody
  <2>1. /\ rPc' = "send" /\ out' = <<Answer("responseBody", FALSE, "same")>>
        /\ rEnvoy = "responseBody"
        /\ rEnvoy' \in {"responseBody", "responseTrailers", "done"}
    BY <1>5 DEF Router!HandleResponseBody, Router!Recv, Router!Respond, Router!Plain,
                Router!AfterResponse, Answer
  <2>2. SendingRest'
    BY <1>1, <2>1, LastStays DEF SendingRest, Receiving, Answer
  <2> QED
    BY <1>2, <2>1, <2>2 DEF RouterInv
<1>6. CASE Router!ResponseTrailers
  BY <1>2, <1>6 DEF Router!ResponseTrailers, RouterInv
<1> QED
  BY <1>3, <1>4, <1>5, <1>6

\* What Send's response and the kind before it are, where Envoy's order is promised.
Orderly ==
    streaming /\ ~trailers =>
        \/ Head(out).kind = "requestHeaders" /\ Router!Order!Last = "none"
        \/ Head(out).kind = "requestBody" /\ Router!Order!Last = "requestHeaders"
        \/ Head(out).kind = "responseHeaders"
           /\ Router!Order!Last \in {"requestHeaders", "requestBody"}
        \/ Head(out).kind = "responseBody"
           /\ Router!Order!Last \in {"responseHeaders", "responseBody"}

\* The response that Send is about to send is in order.
LEMMA SendInOrder ==
    ASSUME RouterInv, rPc = "send"
    PROVE  Orderly
<1>1. SendingHeaders \/ SendingBody \/ SendingRest
  BY DEF RouterInv, Receiving
<1>2. CASE SendingHeaders
  BY <1>2 DEF SendingHeaders, Orderly, LastIn, Answer
<1>3. CASE SendingBody
  BY <1>3 DEF SendingBody, Orderly, LastIn, Answer
<1>4. CASE SendingRest
  BY <1>4 DEF SendingRest, Orderly, LastIn, Answer
<1> QED
  BY <1>1, <1>2, <1>3, <1>4

\* One response is sent, or the stream ends with the one that could not be.
LEMMA SendStep ==
    ASSUME RouterInv, Router!Send PROVE RouterInv'
<1>1. /\ rPc = "send" /\ RouterType /\ (SendingHeaders \/ SendingBody \/ SendingRest)
      /\ UNCHANGED <<streaming, body, total, trailers, rEnvoy, n, buf>>
  BY DEF RouterInv, Receiving, Router!Send, Router!request
<1>2. Found' = Found /\ Kept' = Kept
  BY <1>1 DEF Found, Kept
<1>3. CASE rPc' = "error" /\ UNCHANGED <<rSent, header, forwarded>>
  <2>1. RouterType'
    BY <1>1, <1>3 DEF RouterType
  <2> QED
    BY <1>3, <2>1 DEF RouterInv
<1>4. CASE /\ out' = Tail(out) /\ rPc' = IF out' = <<>> THEN "recv" ELSE "send"
           /\ rSent' = Append(rSent, Head(out).kind)
           /\ header' = (header \/ Head(out).model)
           /\ forwarded' = IF Head(out).kind = "requestBody" THEN Head(out).body
                           ELSE forwarded
  <2>1. Head(out).kind \in Router!Message /\ Head(out).model \in BOOLEAN
    <3>1. PICK found \in BOOLEAN : found = Found
      BY DEF Found
    <3>2. PICK kind, some, content, rest :
            /\ kind \in Router!Message /\ some \in {FALSE, found}
            /\ \/ out = <<Answer(kind, some, content)>>
               \/ out = <<Answer(kind, some, content), rest>>
      BY <1>1, <3>1 DEF SendingHeaders, SendingBody, SendingRest, Router!Message
    <3>3. PICK first : first = Answer(kind, some, content)
      OBVIOUS
    <3>4. Head(out) = first
      BY <3>2, <3>3
    <3>5. first.kind = kind /\ first.model = some
      BY <3>3 DEF Answer
    <3> QED
      BY <3>1, <3>2, <3>4, <3>5
  <2>2. /\ Router!Order!Last' = Head(out).kind
        /\ rSent' \in Seq(Router!Message)
    <3>1. PICK kind \in Router!Message : kind = Head(out).kind
      BY <2>1
    <3> QED
      BY <1>1, <1>4, <3>1, LastAppended DEF RouterType
  <2>3. header' \in BOOLEAN
    BY <1>4
  <2>4. RouterType'
    BY <1>1, <2>2, <2>3 DEF RouterType
  <2>5. CASE SendingHeaders
    <3>1. /\ Head(out).kind = "requestHeaders" /\ ~Head(out).model /\ Tail(out) = <<>>
      BY <2>5 DEF SendingHeaders, Answer
    <3>2. /\ rPc' = "recv" /\ out' = <<>> /\ Unanswered'
          /\ LastIn({"requestHeaders", "requestBody"})'
      BY <1>4, <2>2, <2>5, <3>1 DEF SendingHeaders, Unanswered, LastIn
    <3>3. Receiving'
      BY <1>1, <2>5, <3>2 DEF SendingHeaders, Receiving, Answered, LastIn, RouterType
    <3> QED
      BY <2>4, <3>3 DEF RouterInv
  <2>6. CASE SendingBody
    <3>1. CASE out = <<Answer("requestHeaders", Found, "same"),
                       Answer("requestBody", FALSE, Kept)>>
      <4>1. /\ Head(out).kind = "requestHeaders" /\ Head(out).model = Found
            /\ Tail(out) = <<Answer("requestBody", FALSE, Kept)>>
        <5>1. PICK found \in BOOLEAN : found = Found
          BY DEF Found
        <5>2. PICK first, second : first = Answer("requestHeaders", found, "same")
                                   /\ second = Answer("requestBody", FALSE, Kept)
          OBVIOUS
        <5>3. out = <<first, second>>
          BY <3>1, <5>1, <5>2
        <5>4. Head(out) = first /\ Tail(out) = <<second>>
          BY <5>3
        <5>5. first.kind = "requestHeaders" /\ first.model = found
          BY <5>2 DEF Answer
        <5> QED
          BY <5>1, <5>2, <5>4, <5>5
      <4>2. streaming /\ Unanswered /\ total > 0
            /\ (rEnvoy = "responseHeaders" \/ (rEnvoy = "requestTrailers" /\ trailers /\ ~streaming))
        BY <2>6, <3>1 DEF SendingBody, Answer
      <4>3. rPc' = "send" /\ out' = <<Answer("requestBody", FALSE, Kept')>>
        <5>1. <<Answer("requestBody", FALSE, Kept)>> # <<>>
          OBVIOUS
        <5>2. rPc' = "send" /\ out' = <<Answer("requestBody", FALSE, Kept)>>
          BY <1>4, <4>1, <5>1
        <5>3. PICK kept : kept = Kept /\ kept = Kept'
          BY <1>2
        <5> QED
          BY <5>2, <5>3
      <4>4. header' = Found' /\ forwarded' = "same"
        BY <1>2, <1>4, <4>1, <4>2 DEF Unanswered, Found
      <4>5. SendingBody'
        BY <1>1, <2>2, <4>1, <4>2, <4>3, <4>4 DEF SendingBody, LastIn, Answer
      <4> QED
        BY <2>4, <4>3, <4>5 DEF RouterInv
    <3>2. CASE /\ streaming /\ header = Found /\ forwarded = "same"
               /\ out = <<Answer("requestBody", FALSE, Kept)>>
      <4>1. /\ Head(out).kind = "requestBody" /\ ~Head(out).model
            /\ Head(out).body = Kept /\ Tail(out) = <<>>
        BY <3>2 DEF Answer
      <4>2. /\ rPc' = "recv" /\ out' = <<>> /\ header' = Found' /\ forwarded' = Kept'
        BY <1>2, <1>4, <3>2, <4>1 DEF Found
      <4>3. total > 0 /\ rEnvoy' = "responseHeaders" /\ total' = total
        BY <1>1, <2>6, <3>2 DEF SendingBody
      <4>4. Answered' /\ LastIn({"requestHeaders", "requestBody"})'
        BY <1>1, <2>2, <4>1, <4>2, <4>3 DEF Answered, LastIn, RouterType
      <4>5. Receiving'
        BY <4>2, <4>3, <4>4 DEF Receiving
      <4> QED
        BY <2>4, <4>5 DEF RouterInv
    <3>3. CASE ~streaming /\ Unanswered /\ out = <<Answer("requestBody", Found, "same")>>
      <4>1. /\ Head(out).kind = "requestBody" /\ Head(out).model = Found
            /\ Head(out).body = "same" /\ Tail(out) = <<>>
        BY <3>3 DEF Answer
      <4>2. /\ rPc' = "recv" /\ out' = <<>> /\ header' = Found' /\ forwarded' = Kept'
        BY <1>1, <1>2, <1>4, <3>3, <4>1 DEF Found, Unanswered, Kept
      <4>3. Receiving'
        BY <1>1, <2>6, <3>3, <4>1, <4>2
           DEF SendingBody, Receiving, Answered, LastIn, RouterType
      <4> QED
        BY <2>4, <4>3 DEF RouterInv
    <3> QED
      BY <2>6, <3>1, <3>2, <3>3 DEF SendingBody
  <2>7. CASE SendingRest
    <3>1. ~Head(out).model /\ Head(out).kind # "requestBody" /\ Tail(out) = <<>>
      <4>1. PICK kind \in {"requestTrailers", "responseHeaders", "responseBody"} :
              out = <<Answer(kind, FALSE, "same")>>
        BY <2>7 DEF SendingRest
      <4>2. PICK first : first = Answer(kind, FALSE, "same")
        OBVIOUS
      <4>3. Head(out) = first /\ Tail(out) = <<>>
        BY <4>1, <4>2
      <4>4. first.kind = kind /\ ~first.model
        BY <4>2 DEF Answer
      <4> QED
        BY <4>1, <4>3, <4>4
    <3>2. /\ rPc' = "recv" /\ out' = <<>> /\ header' = header /\ forwarded' = forwarded
      BY <1>1, <1>4, <3>1 DEF RouterType
    <3>3. Answered => Answered'
      BY <1>1, <1>2, <3>2 DEF Answered, Unanswered
    <3>4. CASE out = <<Answer("requestTrailers", FALSE, "same")>>
      <4>1. trailers /\ (rEnvoy = "done" \/ (rEnvoy = "responseHeaders" /\ Answered))
        BY <2>7, <3>4 DEF SendingRest, Answer
      <4>2. Receiving'
        BY <1>1, <3>2, <3>3, <4>1 DEF Receiving, LastIn
      <4> QED
        BY <2>4, <4>2 DEF RouterInv
    <3>5. CASE out # <<Answer("requestTrailers", FALSE, "same")>>
      <4>1. /\ rEnvoy \in {"responseBody", "responseTrailers", "done"}
            /\ Head(out).kind \in {"responseHeaders", "responseBody"}
        BY <2>7, <3>5 DEF SendingRest, Answer
      <4>2. Receiving'
        BY <1>1, <2>2, <3>2, <4>1 DEF Receiving, LastIn
      <4> QED
        BY <2>4, <4>2 DEF RouterInv
    <3> QED
      BY <3>4, <3>5
  <2> QED
    BY <1>1, <2>5, <2>6, <2>7
<1> QED
  BY <1>3, <1>4 DEF Router!Send

\* The stream ends between two messages, or the router has no part in the step.
LEMMA RouterRest ==
    ASSUME RouterInv, Router!StreamCloses \/ UNCHANGED router
    PROVE  RouterInv'
<1>1. CASE Router!StreamCloses
  <2>1. /\ UNCHANGED <<streaming, body, total, trailers, n, buf, rSent, header>>
        /\ rPc' \in {"ok", "error"}
    BY <1>1 DEF Router!StreamCloses, Router!request
  <2> QED
    BY <2>1 DEF RouterInv, RouterType
<1>2. CASE UNCHANGED router
  BY <1>2 DEF router, RouterInv, RouterType, Receiving, SendingHeaders, SendingBody,
              SendingRest, Answered, Unanswered, Found, Kept, LastIn, Router!Order!Last,
              Answer
<1> QED
  BY <1>1, <1>2

-----------------------------------------------------------------------------
(* Lemmas about the picker.                                                 *)

\* What a stream of the picker begins with.
Fresh ==
    /\ envoy = "requestHeaders" /\ received = 0 /\ sent = <<>> /\ pc = "recv" /\ NoError
    /\ complete = FALSE /\ latencies = 0

\* A stream begins with no message received and none answered.
LEMMA FreshInv == Fresh => PickerInv
<1> SUFFICES ASSUME Fresh PROVE PickerInv
  OBVIOUS
<1>1. sent = <<>> /\ received = 0 /\ pc = "recv" /\ NoError
  BY Zenon DEF Fresh
<1>2. Turn
  BY <1>1 DEF Turn, SentRight
<1>3. Expects
  BY DEF Fresh, Expects
<1>4. LatencyInv
  BY DEF Fresh, LatencyInv
<1> QED
  BY <1>2, <1>3, <1>4 DEF PickerInv

\* The stream has ended: nothing more is promised of the order.
LEMMA EndedStep ==
    ASSUME PickerInv, pc' = "ended",
           UNCHANGED <<envoy, received, sent, complete, latencies>>
    PROVE  PickerInv'
<1>1. SentRight'
  BY DEF PickerInv, Turn, SentRight, Answers
<1>2. Turn'
  BY <1>1 DEF PickerInv, Turn
<1> QED
  BY <1>2 DEF PickerInv, Expects, LatencyInv

\* A message that ends the stream: nothing more is expected of Envoy either.
LEMMA BrokenStep ==
    ASSUME PickerInv, pc' = "ended", envoy' = "done", received' \in Nat,
           UNCHANGED <<sent, complete, latencies>>
    PROVE  PickerInv'
<1>1. SentRight'
  BY DEF PickerInv, Turn, SentRight, Answers
<1>2. Turn'
  BY <1>1 DEF PickerInv, Turn
<1> QED
  BY <1>2 DEF PickerInv, Expects, LatencyInv

\* A message is received when every earlier one has been answered, and it is
\* answered by a response of its kind (HandleRequestHeaders, HandleRequestBody,
\* HandleResponseHeaders, HandleStreaming, HandleNonStreaming), unless it makes
\* HandleResponseHeaders panic.
LEMMA ReceiveStep ==
    ASSUME PickerInv, Picker!EnvoySends PROVE PickerInv'
<1>1. /\ pc = "recv" /\ sent' = sent /\ received' = received + 1
      /\ (NoError => NoError')
  BY Zenon DEF NoError, Picker!EnvoySends, Picker!HandleRequestHeaders, Picker!HandleRequestBody,
         Picker!HandleResponseHeaders, Picker!HandleStreaming,
         Picker!HandleNonStreaming, Picker!StatusPanics, Picker!Recv
<1>2. /\ received \in Nat /\ sent \in Seq(Picker!Kind) /\ Len(sent) = received /\ NoError
      /\ SentRight
  BY <1>1 DEF PickerInv, Turn
<1>3. complete = FALSE /\ latencies = 0
  BY DEF PickerInv, LatencyInv, Picker!EnvoySends, Picker!HandleRequestHeaders,
         Picker!HandleRequestBody, Picker!HandleResponseHeaders, Picker!HandleStreaming,
         Picker!HandleNonStreaming, Picker!StatusPanics, Picker!Recv
<1>4. ASSUME pc' = "respond", Answers(received', answer'), answer' \in Picker!Kind
      PROVE  Turn'
  <2>1. /\ received' \in Nat /\ sent' \in Seq(Picker!Kind) /\ Len(sent') + 1 = received'
        /\ NoError'
    BY <1>1, <1>2
  <2>2. SentRight'
    BY <1>1, <1>2 DEF SentRight, Answers
  <2>3. Answers(received, answer)'
    BY <1>4 DEF Answers
  <2> QED
    BY <1>4, <2>1, <2>2, <2>3 DEF Turn
<1>5. CASE Picker!HandleRequestHeaders
  <2>1. /\ envoy = "requestHeaders" /\ envoy' = "requestBody" /\ pc' = "respond"
        /\ answer' = "requestHeaders" /\ UNCHANGED <<complete, latencies>>
    BY <1>5 DEF Picker!HandleRequestHeaders, Picker!Recv, Picker!ctx
  <2>2. received' = 1
    BY <1>1, <2>1 DEF PickerInv, Expects
  <2>3. Turn'
    BY <1>4, <2>1, <2>2 DEF Answers, Picker!Kind
  <2> QED
    BY <1>3, <2>1, <2>2, <2>3 DEF PickerInv, Expects, LatencyInv
<1>6. CASE Picker!HandleRequestBody
  <2>1. /\ envoy = "requestBody" /\ envoy' = "responseHeaders" /\ pc' = "lookup"
        /\ UNCHANGED <<complete, latencies>>
    BY <1>6 DEF Picker!HandleRequestBody, Picker!Recv, Picker!ctx
  <2>2. received = 1 /\ received' = 2
    BY <1>1, <2>1 DEF PickerInv, Expects
  <2>3. SentRight'
    BY <1>1, <1>2 DEF SentRight, Answers
  <2>4. Turn'
    BY <1>1, <1>2, <2>1, <2>2, <2>3 DEF Turn
  <2> QED
    BY <1>3, <2>1, <2>2, <2>4 DEF PickerInv, Expects, LatencyInv
<1>7. CASE Picker!HandleResponseHeaders
  <2>1. /\ envoy = "responseHeaders" /\ envoy' \in {"responseBody", "done"}
        /\ pc' = "respond" /\ answer' = "responseHeaders"
        /\ UNCHANGED <<complete, latencies>>
    BY <1>7 DEF Picker!HandleResponseHeaders, Picker!Recv
  <2>2. received' = 3
    BY <1>1, <2>1 DEF PickerInv, Expects
  <2>3. Turn'
    BY <1>4, <2>1, <2>2 DEF Answers, Picker!Kind
  <2> QED
    BY <1>3, <2>1, <2>2, <2>3 DEF PickerInv, Expects, LatencyInv
<1>8. CASE Picker!HandleStreaming \/ Picker!HandleNonStreaming
  <2>1. /\ envoy = "responseBody" /\ envoy' \in {"responseBody", "done"}
        /\ pc' = "respond" /\ answer' \in {"responseBody", "empty"}
    BY <1>8 DEF Picker!HandleStreaming, Picker!HandleNonStreaming, Picker!Recv
  <2>2. received' > 3 /\ received' > 2
    BY <1>1, <1>2, <2>1 DEF PickerInv, Expects
  <2>3. Turn'
    BY <1>4, <2>1, <2>2 DEF Answers, Picker!Kind
  <2>4. \/ complete' = FALSE /\ latencies' = 0
        \/ complete' = TRUE /\ latencies' = 1 /\ envoy' = "done"
    <3>1. CASE Picker!HandleStreaming
      <4>1. /\ complete' = (complete \/ envoy' = "done")
            /\ complete' => latencies' = latencies + 1
            /\ ~complete' => latencies' = latencies
        BY <3>1 DEF Picker!HandleStreaming, Picker!RecordRequestLatencies
      <4>2. latencies + 1 = 1
        BY <1>3
      <4>3. complete' = (envoy' = "done")
        BY <1>3, <4>1, Zenon
      <4>4. complete' \in BOOLEAN
        BY <4>3, Zenon
      <4> QED
        BY <1>3, <4>1, <4>2, <4>3, <4>4, Zenon
    <3>2. CASE Picker!HandleNonStreaming
      <4>1. \/ complete' = TRUE /\ latencies' = latencies + 1
            \/ complete' = complete /\ latencies' = latencies
        BY <3>2 DEF Picker!HandleNonStreaming, Picker!RecordRequestLatencies
      <4>2. envoy' = "done"
        BY <3>2 DEF Picker!HandleNonStreaming, Picker!Recv
      <4> QED
        BY <1>3, <4>1, <4>2
    <3> QED
      BY <1>8, <3>1, <3>2
  <2>5. LatencyInv'
    BY <2>4 DEF LatencyInv
  <2> QED
    BY <2>1, <2>2, <2>3, <2>5 DEF PickerInv, Expects
<1>9. CASE Picker!StatusPanics
  <2>1. pc' = "ended" /\ envoy' = "done" /\ UNCHANGED <<sent, complete, latencies>>
    BY <1>9 DEF Picker!StatusPanics, Picker!Recv, Picker!Ends, Picker!ctx
  <2> QED
    BY <1>1, <1>2, <2>1, BrokenStep
<1> QED
  BY <1>5, <1>6, <1>7, <1>8, <1>9 DEF Picker!EnvoySends

\* The steps of the handlers between a message and its answer, BuildErrResponse
\* and Send.
LEMMA HandlerStep ==
    ASSUME PickerInv, Picker!Handler PROVE PickerInv'
<1>1. ASSUME Picker!ModelLookup \/ Picker!Schedule \/ Picker!PoolGet
      PROVE  PickerInv'
  <2>1. /\ pc \in {"lookup", "schedule", "pool"}
        /\ UNCHANGED <<envoy, received, sent, complete, latencies>>
        /\ \/ pc' \in {"schedule", "pool"} /\ (NoError => NoError')
           \/ pc' = "respond" /\ ~NoError'
           \/ pc' = "respond" /\ (NoError => NoError') /\ answer' = "requestBody"
    BY <1>1, Zenon DEF NoError, Picker!ModelLookup, Picker!Schedule, Picker!PoolGet, Picker!Step,
                Picker!Fail, Picker!ctx
  <2>2. received = 2 /\ Len(sent) = 1 /\ NoError /\ sent \in Seq(Picker!Kind)
        /\ SentRight
    BY <2>1 DEF PickerInv, Turn
  <2>3. SentRight'
    BY <2>1, <2>2 DEF SentRight, Answers
  <2>4. Turn'
    BY <2>1, <2>2, <2>3 DEF Turn, Answers, Picker!Kind
  <2> QED
    BY <2>1, <2>4 DEF PickerInv, Expects, LatencyInv
<1>2. ASSUME Picker!BuildErrResponse PROVE PickerInv'
  <2>1. /\ pc = "respond" /\ UNCHANGED <<envoy, received, sent, complete, latencies>>
        /\ \/ NoError /\ pc' = "send" /\ answer' = answer /\ NoError'
           \/ ~NoError /\ pc' = "send" /\ answer' = "immediate" /\ NoError'
           \/ pc' = "ended"
    BY <1>2, Zenon DEF NoError, Picker!BuildErrResponse, Picker!Ends, Picker!ctx
  <2>2. Len(sent) + 1 = received /\ received \in Nat /\ sent \in Seq(Picker!Kind)
        /\ SentRight
        /\ IF NoError THEN Answers(received, answer) /\ answer \in Picker!Kind
                       ELSE received = 2
    BY <2>1 DEF PickerInv, Turn
  <2>3. SentRight'
    BY <2>1, <2>2 DEF SentRight, Answers
  <2>4. CASE pc' = "send"
    <3>1. Answers(received', answer') /\ answer' \in Picker!Kind /\ NoError'
      BY <2>1, <2>2, <2>4 DEF Answers, Picker!Kind
    <3>2. Answers(received, answer)'
      BY <3>1 DEF Answers
    <3>3. Turn'
      BY <2>1, <2>2, <2>3, <2>4, <3>1, <3>2 DEF Turn
    <3> QED
      BY <2>1, <3>3 DEF PickerInv, Expects, LatencyInv
  <2> QED
    BY <2>1, <2>4, EndedStep
<1>3. ASSUME Picker!SendResponse PROVE PickerInv'
  <2>1. /\ pc = "send" /\ pc' = "recv" /\ sent' = Append(sent, answer)
        /\ (envoy' = envoy \/ envoy' = "done")
        /\ UNCHANGED <<received, complete, latencies>> /\ (NoError => NoError')
    BY <1>3, Zenon DEF NoError, Picker!SendResponse, Picker!ctx
  <2>2. Len(sent) + 1 = received /\ received \in Nat /\ sent \in Seq(Picker!Kind)
        /\ SentRight
        /\ NoError /\ Answers(received, answer) /\ answer \in Picker!Kind
    BY <2>1 DEF PickerInv, Turn
  <2>3. /\ Len(sent') = received /\ sent' \in Seq(Picker!Kind)
        /\ \A i \in 1..Len(sent) : sent'[i] = sent[i]
        /\ sent'[received] = answer
    BY <2>1, <2>2
  <2>4. \A i \in 1..received : Answers(i, sent'[i])
    BY <2>2, <2>3 DEF SentRight, Answers
  <2>5. SentRight'
    BY <2>3, <2>4 DEF SentRight, Answers
  <2>6. Turn'
    BY <2>1, <2>2, <2>3, <2>5 DEF Turn
  <2> QED
    BY <2>1, <2>6 DEF PickerInv, Expects, LatencyInv
<1>4. ASSUME Picker!SendFails PROVE PickerInv'
  BY <1>4, EndedStep DEF Picker!SendFails, Picker!Ends, Picker!ctx
<1> QED
  BY <1>1, <1>2, <1>3, <1>4 DEF Picker!Handler

\* The picker's stream ends, the datastore changes, or the picker has no part
\* in the step.
LEMMA PickerRest ==
    ASSUME PickerInv,
           \/ Picker!UnknownRequest \/ Picker!StreamCloses \/ Picker!DatastoreChanges
           \/ UNCHANGED <<envoy, received, sent, pc, err, answer, complete, latencies>>
    PROVE  PickerInv'
<1>1. CASE Picker!StreamCloses
  BY <1>1, EndedStep DEF Picker!StreamCloses, Picker!Ends, Picker!ctx
<1>2. CASE UNCHANGED <<envoy, received, sent, pc, err, answer, complete, latencies>>
  <2>1. SentRight'
    BY <1>2 DEF PickerInv, Turn, SentRight, Answers
  <2>2. Answers(received, answer) => Answers(received, answer)'
    BY <1>2 DEF Answers
  <2>3. NoError' = NoError
    BY <1>2, Zenon DEF NoError
  <2>4. Turn'
    BY <1>2, <2>1, <2>2, <2>3 DEF PickerInv, Turn
  <2> QED
    BY <1>2, <2>4 DEF PickerInv, Expects, LatencyInv
<1>3. CASE Picker!DatastoreChanges
  BY <1>2, <1>3 DEF Picker!DatastoreChanges, Picker!ctx
<1>4. CASE Picker!UnknownRequest
  <2>1. /\ pc' = "ended" /\ envoy' = "done" /\ received' = received + 1
        /\ UNCHANGED <<sent, complete, latencies>>
    BY <1>4 DEF Picker!UnknownRequest, Picker!Recv, Picker!Ends, Picker!ctx
  <2>2. received \in Nat
    BY DEF PickerInv, Turn
  <2> QED
    BY <2>1, <2>2, BrokenStep
<1> QED
  BY <1>1, <1>2, <1>3, <1>4

-----------------------------------------------------------------------------
(* The two servers together.                                                *)

\* Only ModelLookup blames the body, and only one that is not the client's.
LEMMA BlameStep ==
    ASSUME PathInv, picking = "open", UNCHANGED <<router, picking>>,
           Picker!EnvoySends \/ Picker!Handler \/ Picker!UnknownRequest
             \/ Picker!StreamCloses \/ Picker!DatastoreChanges
    PROVE  PathInv'
<1>1. UNCHANGED <<body, forwarded, total, rPc, rEnvoy>>
  BY DEF router
<1>2. Upstream'
  BY <1>1 DEF PathInv, Upstream
<1>3. CASE UNCHANGED <<err, refused>>
  BY <1>1, <1>2, <1>3, Zenon DEF PathInv
<1>4. CASE Picker!ModelLookup
  BY <1>1, <1>2, <1>4, Zenon DEF PathInv, Picker!ModelLookup, Picker!Fail, Picker!Step
<1>5. CASE Picker!Schedule \/ Picker!PoolGet
  BY <1>1, <1>2, <1>5, Zenon
     DEF PathInv, Picker!Schedule, Picker!PoolGet, Picker!Fail, Picker!Step
<1>6. CASE Picker!BuildErrResponse
  BY <1>1, <1>2, <1>6, Zenon DEF PathInv, Picker!BuildErrResponse, Picker!Ends
<1>7. CASE Picker!EnvoySends \/ Picker!SendResponse \/ Picker!SendFails
           \/ Picker!UnknownRequest \/ Picker!StreamCloses \/ Picker!DatastoreChanges
  BY <1>3, <1>7, Zenon
     DEF Picker!EnvoySends, Picker!HandleRequestHeaders, Picker!HandleRequestBody,
         Picker!HandleResponseHeaders, Picker!HandleStreaming, Picker!HandleNonStreaming,
         Picker!StatusPanics, Picker!SendResponse, Picker!SendFails,
         Picker!UnknownRequest, Picker!StreamCloses,
         Picker!DatastoreChanges
<1> QED
  BY <1>4, <1>5, <1>6, <1>7 DEF Picker!Handler

\* The invariant holds of the initial states.
LEMMA InvInit == Init => Inv
<1> SUFFICES ASSUME Init PROVE Inv
  OBVIOUS
<1>1. Fresh /\ err = "" /\ refused = "" /\ picking = "no"
  BY Zenon DEF Init, Picker!Init, Fresh, NoError
<1>2. PathInv
  BY <1>1, Zenon DEF PathInv
<1> QED
  BY <1>1, <1>2, FreshInv, RouterInit DEF Inv

\* Every step of Envoy, of either server or of the datastore keeps it.
LEMMA InvNext == Inv /\ [Next]_vars => Inv'
<1> SUFFICES ASSUME Inv, [Next]_vars PROVE Inv'
  OBVIOUS
<1>1. RouterInv /\ PickerInv /\ PathInv
  BY DEF Inv
<1>2. CASE Forward
  <2>1. /\ UNCHANGED router /\ Upstream /\ picking' = "open"
        /\ UNCHANGED <<envoy, received, sent, pc, err, answer, complete, latencies, refused>>
    BY <1>2, Zenon DEF Forward
  <2>2. UNCHANGED <<body, forwarded, total, rPc, rEnvoy>>
    BY <2>1 DEF router
  <2>3. PathInv'
    BY <1>1, <2>1, <2>2, Zenon DEF PathInv, Upstream
  <2> QED
    BY <1>1, <2>1, <2>3, RouterRest, PickerRest DEF Inv
<1>3. CASE PickerSteps
  <2>1. /\ UNCHANGED router /\ UNCHANGED <<router, picking>> /\ picking = "open"
        /\ Picker!EnvoySends \/ Picker!Handler
    BY <1>3, Zenon DEF PickerSteps
  <2> QED
    BY <1>1, <2>1, RouterRest, ReceiveStep, HandlerStep, BlameStep DEF Inv
<1>4. CASE PickerDisturbed
  <2>1. /\ UNCHANGED router /\ UNCHANGED <<router, picking>> /\ picking = "open"
        /\ Picker!UnknownRequest \/ Picker!StreamCloses \/ Picker!DatastoreChanges
    BY <1>4, Zenon DEF PickerDisturbed
  <2> QED
    BY <1>1, <2>1, RouterRest, PickerRest, BlameStep DEF Inv
<1>5. CASE Return
  <2>1. /\ UNCHANGED router /\ picking' = "over" /\ err' = "" /\ refused' = ""
    BY <1>5, Zenon DEF Return
  <2>2. Fresh'
    BY <1>5, Zenon DEF Return, Fresh, NoError
  <2>3. PickerInv'
    BY <2>2, FreshInv, PTL
  <2>4. PathInv'
    BY <2>1, Zenon DEF PathInv
  <2> QED
    BY <1>1, <2>1, <2>3, <2>4, RouterRest DEF Inv
<1>6. CASE RouterSteps \/ RouterCloses
  <2>1. /\ UNCHANGED <<picker, picking>> /\ picking # "open"
        /\ Router!EnvoySends \/ Router!Send \/ Router!StreamCloses
    BY <1>1, <1>6, Zenon DEF RouterSteps, RouterCloses, PathInv
  <2>2. RouterInv'
    BY <1>1, <2>1, RequestHeadersStep, RequestBodyStep, OtherMessageStep, SendStep,
       RouterRest DEF Router!EnvoySends
  <2>3. UNCHANGED <<envoy, received, sent, pc, err, answer, complete, latencies, refused,
                    picking>>
    BY <2>1 DEF picker
  <2>4. PathInv'
    BY <1>1, <2>1, <2>3, Zenon DEF PathInv
  <2> QED
    BY <1>1, <2>2, <2>3, <2>4, PickerRest DEF Inv
<1>7. CASE UNCHANGED vars
  <2>1. UNCHANGED router /\ UNCHANGED picker /\ UNCHANGED picking
    BY <1>7 DEF vars
  <2>2. UNCHANGED <<envoy, received, sent, pc, err, answer, complete, latencies, refused,
                    picking>>
    BY <2>1 DEF picker
  <2>3. UNCHANGED <<body, forwarded, total, rPc, rEnvoy>>
    BY <2>1 DEF router
  <2>4. PathInv'
    BY <1>1, <2>2, <2>3, Zenon DEF PathInv, Upstream
  <2> QED
    BY <1>1, <2>1, <2>2, <2>4, RouterRest, PickerRest DEF Inv
<1> QED
  BY <1>2, <1>3, <1>4, <1>5, <1>6, <1>7 DEF Next

\* The invariant holds of every state of a request on its path.
THEOREM PathInvCorrect == Spec => []Inv
BY InvInit, InvNext, PTL DEF Spec

\* The picker answers every message before it reads the next, with a response
\* of its kind, an immediate or an empty one, and records the latency of a
\* request once, with its complete response (Server.Process), for a response
\* of any length.
THEOREM AnsweredOnceCorrect == Spec => []AnsweredOnce
<1>1. ASSUME Inv PROVE AnsweredOnce
  <2>1. Turn /\ LatencyInv
    BY <1>1 DEF Inv, PickerInv
  <2>2. Picker!LatencyOnce
    BY <2>1, Zenon DEF LatencyInv, Picker!LatencyOnce
  <2>3. Picker!OneAnswerEach
    <3> SUFFICES ASSUME pc = "recv"
                 PROVE  /\ Len(sent) = received
                        /\ \A i \in 1..Len(sent) :
                              sent[i] \in CASE i = 1 -> {"requestHeaders"}
                                            [] i = 2 -> {"requestBody", "immediate"}
                                            [] i = 3 -> {"responseHeaders"}
                                            [] OTHER -> {"responseBody", "empty"}
      BY Zenon DEF Picker!OneAnswerEach
    <3>1. Len(sent) = received /\ SentRight
      BY <2>1 DEF Turn
    <3>2. ASSUME NEW i \in 1..Len(sent)
          PROVE  sent[i] \in CASE i = 1 -> {"requestHeaders"}
                               [] i = 2 -> {"requestBody", "immediate"}
                               [] i = 3 -> {"responseHeaders"}
                               [] OTHER -> {"responseBody", "empty"}
      <4>1. /\ i = 1 => i # 2 /\ i # 3
            /\ i = 2 => i # 1 /\ i # 3
            /\ i = 3 => i # 1 /\ i # 2
        OBVIOUS
      <4>2. i > 3 => i # 1 /\ i # 2 /\ i # 3
        OBVIOUS
      <4>3. \/ i = 1 /\ sent[i] \in {"requestHeaders"}
            \/ i = 2 /\ sent[i] \in {"requestBody", "immediate"}
            \/ i = 3 /\ sent[i] \in {"responseHeaders"}
            \/ i > 3 /\ sent[i] \in {"responseBody", "empty"}
        BY <3>1 DEF SentRight, Answers
      <4>4. CASE i = 1
        BY <4>1, <4>2, <4>3, <4>4, Zenon
      <4>5. CASE i = 2
        BY <4>1, <4>2, <4>3, <4>5, Zenon
      <4>6. CASE i = 3
        BY <4>1, <4>2, <4>3, <4>6, Zenon
      <4>7. CASE i # 1 /\ i # 2 /\ i # 3
        BY <4>3, <4>7, Zenon
      <4> QED
        BY <4>4, <4>5, <4>6, <4>7
    <3> QED
      BY <3>1, <3>2, Zenon
  <2> QED
    BY <2>2, <2>3 DEF AnsweredOnce
<1> QED
  BY <1>1, PathInvCorrect, PTL

\* A body of which the router's streaming mode left nothing out goes upstream
\* as it is with its model in the header, and the picker blames the body of no
\* request that names a model unless the router lost a part of it
\* (processRequestBody, HandleRequestBody), however the body is cut.
THEOREM ReadUnlessLastCarriesCorrect == Spec => []ReadUnlessLastCarries
<1>1. ASSUME Inv PROVE ReadUnlessLastCarries
  <2>1. RouterInv /\ PathInv
    BY <1>1 DEF Inv
  <2>2. rPc = "recv" /\ rEnvoy = "responseHeaders" => Answered /\ RouterType
    BY <2>1 DEF RouterInv, Receiving
  <2>3. Router!RoutedUnlessLastCarries
    BY <2>2 DEF Router!RoutedUnlessLastCarries, Answered, Found, Kept, RouterType
  <2>4. ASSUME body = "model", err = "BadRequest" \/ refused = "BadRequest"
        PROVE  streaming /\ buf < total
    <3>1. forwarded # "same" /\ Upstream
      BY <2>1, <2>4, Zenon DEF PathInv
    <3> QED
      BY <2>2, <2>4, <3>1 DEF Upstream, Answered, Kept, RouterType
  <2> QED
    BY <2>3, <2>4, Zenon DEF ReadUnlessLastCarries
<1> QED
  BY <1>1, PathInvCorrect, PTL

\* In streaming mode the router's responses to a request without trailers come
\* in the order that Envoy accepts, whatever its body, however it is cut and
\* wherever a Send fails (Server.Process of the body-based router).
THEOREM OrderUnlessTrailersCorrect == Spec => OrderUnlessTrailers
<1>1. ASSUME Inv, [Next]_vars
      PROVE  [streaming /\ ~trailers => Router!Order!Next]_rSent
  <2>1. RouterInv
    BY <1>1 DEF Inv
  <2>2. rSent' = rSent \/ Router!Send
    BY <1>1, Zenon
       DEF Next, vars, router, Forward, PickerSteps, PickerDisturbed, Return,
           RouterSteps, RouterCloses, Router!EnvoySends, Router!HandleRequestHeaders,
           Router!BufferedBody, Router!StreamedPart, Router!StreamedEnd,
           Router!HandleRequestTrailers, Router!HandleResponseHeaders,
           Router!HandleResponseBody, Router!ResponseTrailers, Router!StreamCloses
  <2>3. CASE Router!Send
    <3>1. Orderly /\ (rSent' = rSent \/ rSent' = Append(rSent, Head(out).kind))
      BY <2>1, <2>3, SendInOrder DEF Router!Send
    <3> QED
      BY <3>1, Zenon DEF Orderly, Router!Order!Next, Router!Order!Send
  <2> QED
    BY <2>2, <2>3
<1> QED
  BY <1>1, PathInvCorrect, PTL DEF Spec, OrderUnlessTrailers, Router!OrderUnlessTrailers
=============================================================================
