---------------------------- MODULE ExtProcOrder ----------------------------
(***************************************************************************)
(* What an ext_proc server promises Envoy in FULL_DUPLEX_STREAMED mode: the *)
(* answers to one HTTP request and to its response come back header first,  *)
(* then body, and an immediate response only in place of all of them.       *)
(***************************************************************************)
EXTENDS Sequences

VARIABLE sent   \* the kinds of the responses sent to Envoy, in order

\* The kind that was sent last; "none" before the first.
Last == IF sent = <<>> THEN "none" ELSE sent[Len(sent)]

\* A response of the kind may follow one of the kinds in after.
Send(kind, after) == Last \in after /\ sent' = Append(sent, kind)

Init == sent = <<>>

Next ==
    \/ Send("requestHeaders", {"none"})
    \/ Send("requestBody", {"requestHeaders"})
    \/ Send("responseHeaders", {"requestHeaders", "requestBody"})
    \/ Send("responseBody", {"responseHeaders", "responseBody"})
    \/ Send("responseEnd", {"responseHeaders", "responseBody"})
    \/ Send("immediate", {"none"})

Spec == Init /\ [][Next]_sent
=============================================================================
