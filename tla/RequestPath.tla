----------------------------- MODULE RequestPath -----------------------------
(***************************************************************************)
(* One HTTP request on its way through Envoy: the body-based router         *)
(* (BodyBasedRouting) handles it first, then, with the body the router      *)
(* forwards, the endpoint picker (BufferedServer), and the response passes  *)
(* the router on its way back.                                              *)
(***************************************************************************)
EXTENDS Naturals, Sequences

CONSTANTS
    MaxChunks,    \* bound: messages a body is cut into
    MaxChanges    \* bound: changes of the datastore during the request

ASSUME PathAssumption == MaxChunks \in Nat \ {0} /\ MaxChanges \in Nat

VARIABLES
    streaming, body, total, trailers, rEnvoy, n, buf, rChunks, rPc, out, rSent,
    header, forwarded,
    resp, envoy, chunks, received, model, pods, pool, changes, pc, err, answer,
    sse, status, complete, sent, refused, errors, latencies,
    picking     \* the picker's stream: "no", "open" or "over"

router == <<streaming, body, total, trailers, rEnvoy, n, buf, rChunks, rPc, out, rSent,
            header, forwarded>>
picker == <<resp, envoy, chunks, received, model, pods, pool, changes, pc, err, answer,
            sse, status, complete, sent, refused, errors, latencies>>
vars == <<router, picker, picking>>

Router == INSTANCE BodyBasedRouting
          WITH envoy <- rEnvoy, chunks <- rChunks, pc <- rPc, sent <- rSent

\* The picker finds a model only in the body that the client wrote.
Picker == INSTANCE BufferedServer
          WITH req <- IF body = "model" /\ forwarded = "same" THEN "ok" ELSE "bad",
               streaming <- sse

AnyResponse == [sse |-> FALSE, ok |-> TRUE, plain |-> "none", body |-> "ok"]

\* The picker has no stream yet; its datastore is looked at from Forward on.
Init ==
    /\ Router!Init
    /\ Picker!Init /\ resp = AnyResponse /\ ~model /\ ~pods /\ ~pool
    /\ picking = "no"

\* The router is done with a request that has a body; for one without, nothing
\* is picked in buffered mode.
Upstream == rPc = "recv" /\ rEnvoy = "responseHeaders" /\ total > 0

\* The picker's stream begins; the datastore is in any state.
Forward ==
    /\ Upstream /\ picking = "no"
    /\ picking' = "open"
    /\ resp' \in Picker!Response
    /\ model' \in BOOLEAN /\ pods' \in BOOLEAN /\ pool' \in BOOLEAN
    /\ UNCHANGED <<router, envoy, chunks, received, changes, pc, err, answer, sse, status,
                   complete, sent, refused, errors, latencies>>

PickerSteps ==
    /\ picking = "open" /\ UNCHANGED <<router, picking>>
    /\ Picker!EnvoySends \/ Picker!Handler

PickerDisturbed ==
    /\ picking = "open" /\ UNCHANGED <<router, picking>>
    /\ Picker!UnknownRequest \/ Picker!StreamCloses \/ Picker!DatastoreChanges

\* The picker has answered everything, or its stream has ended, and the
\* response goes back through the router; the context of the stream is gone.
Return ==
    /\ picking = "open" /\ picking' = "over"
    /\ pc = "ended" \/ (pc = "recv" /\ envoy = "done")
    /\ resp' = AnyResponse
    /\ model' = FALSE /\ pods' = FALSE /\ pool' = FALSE /\ changes' = 0
    /\ envoy' = "requestHeaders" /\ chunks' = 0 /\ received' = 0
    /\ pc' = "recv" /\ err' = "" /\ answer' = "empty"
    /\ sse' = FALSE /\ status' = "" /\ complete' = FALSE
    /\ sent' = <<>> /\ refused' = "" /\ errors' = <<>> /\ latencies' = 0
    /\ UNCHANGED router

\* The router's stream may close while the picker works, which does not notice:
\* here it closes before or after.
RouterSteps ==
    /\ UNCHANGED <<picker, picking>>
    /\ Upstream => picking = "over"
    /\ Router!EnvoySends \/ Router!Send

RouterCloses ==
    /\ UNCHANGED <<picker, picking>>
    /\ picking # "open"
    /\ Router!StreamCloses

Next == Forward \/ PickerSteps \/ PickerDisturbed \/ Return \/ RouterSteps \/ RouterCloses

Spec == Init /\ [][Next]_vars

\* Envoy sends on when it is answered, and a handler returns; streams need not close.
FairSpec == Spec /\ WF_vars(Forward \/ Return \/ RouterSteps) /\ WF_vars(PickerSteps)

-----------------------------------------------------------------------------
(* Properties.                                                              *)

\* The picker answers every message before it reads the next, with a response
\* of its kind, an immediate response, or an empty one (Server.Process), and
\* it records the latency of a request once, with its complete response.
AnsweredOnce == Picker!OneAnswerEach /\ Picker!LatencyOnce

\* The router's responses come in the order that Envoy accepts.
OrderUnlessTrailers == Router!OrderUnlessTrailers

\* A body of which the router left nothing out goes upstream as it is, with its
\* model in the header, and the picker then never blames the body of a request
\* that names a model (BadRequest in HandleRequestBody).
ReadUnlessLastCarries ==
    /\ Router!RoutedUnlessLastCarries
    /\ body = "model" /\ (err = "BadRequest" \/ refused = "BadRequest")
          => streaming /\ buf < total

\* The request ends: the picker's stream is over and so is the router's, or
\* the router has answered all of it.
RequestEnds ==
    <>(/\ picking # "open"
       /\ rPc \in {"ok", "error"} \/ (rPc = "recv" /\ rEnvoy = "done"))
=============================================================================
