----------------------------- MODULE MetricSpec -----------------------------
(***************************************************************************)
(* The metric flags (pkg/epp/backend/metrics/metrics_spec.go): a name, with *)
(* or without labels in braces.  A flag s is a sequence of symbols, and a   *)
(* substring of it is a slice <<i, j>>: the symbols between the positions   *)
(* i and j, both left out.                                                  *)
(***************************************************************************)
EXTENDS Naturals, Sequences, FiniteSets, FiniteSetsExt

Symbol == {"letter", "open", "close", "comma", "equals", "blank"}
Braces == {"open", "close"}

Positions(s, cs) == {i \in DOMAIN s : s[i] \in cs}
Ink(s) == Positions(s, Symbol \ {"blank"})

Slice == Nat \X Nat

Within(x) == (x[1] + 1)..(x[2] - 1)
Whole(s) == <<0, Len(s) + 1>>
Text(s, x) == SubSeq(s, x[1] + 1, x[2] - 1)

\* strings.TrimSpace, strings.Index (0 for -1) and strings.Split: the parts,
\* each under the position of the cut it follows.
TrimSpace(s) ==
    [x \in Slice |->
        LET ink == Ink(s) \cap Within(x)
        IN  IF ink = {} THEN <<x[1], x[1] + 1>> ELSE <<Min(ink) - 1, Max(ink) + 1>>]
Index(s, c) ==
    [x \in Slice |->
        LET found == Positions(s, {c}) \cap Within(x)
        IN  IF found = {} THEN 0 ELSE Min(found)]
Split(s, c) ==
    [x \in Slice |->
        LET cuts == {x[1]} \cup (Positions(s, {c}) \cap Within(x))
        IN  [i \in cuts |-> <<i, Min({j \in cuts \cup {x[2]} : i < j})>>]]

Nil == [status |-> "nil"]
Invalid == [status |-> "invalid"]

\* The parts of a label pair, none of which may be blank.
labelParts(s) ==
    [pair \in Slice |->
        LET parts == Split(s, "equals")[TrimSpace(s)[pair]]
        IN  [i \in DOMAIN parts |-> TrimSpace(s)[parts[i]]]]
IsPair(parts) == Cardinality(DOMAIN parts) = 2 /\ \A i \in DOMAIN parts : Within(parts[i]) # {}

\* The map of labels: a later pair for a label overwrites an earlier one.
LabelMap(s, pairs) ==
    LET name(k) == Text(s, pairs[k][Min(DOMAIN pairs[k])])
        value(k) == Text(s, pairs[k][Max(DOMAIN pairs[k])])
    IN  [l \in {name(k) : k \in DOMAIN pairs} |->
            value(Max({k \in DOMAIN pairs : name(k) = l}))]

\* Mutant: what follows the label section is not looked at.
TrailingIgnored(str, end) == FALSE

\* "Check for extra characters after labels".
Trailing(str, end) == end # str[2] - 1

stringToMetricSpec(specStr) ==
    LET str == TrimSpace(specStr)[Whole(specStr)]
        start == Index(specStr, "open")[str]
        end == Index(specStr, "close")[str]
        metricName == IF start = 0 THEN str ELSE TrimSpace(specStr)[<<str[1], start>>]
        split == Split(specStr, "comma")[<<start, end>>]
        labelPairs == [k \in DOMAIN split |-> labelParts(specStr)[split[k]]]
        braced == start # 0 \/ end # 0
    IN  IF specStr = <<>> THEN Nil
        ELSE IF \/ braced /\ (start = 0 \/ end <= start + 1)
                \/ braced /\ \E k \in DOMAIN labelPairs : ~IsPair(labelPairs[k])
                \/ braced /\ Trailing(str, end)
                \/ Within(metricName) = {}
        THEN Invalid
        ELSE [status |-> "ok", name |-> Text(specStr, metricName),
              labels |-> IF braced THEN LabelMap(specStr, labelPairs) ELSE <<>>]

\* One malformed flag of the three is enough to refuse the mapping.
NewMetricMapping(queuedStr, kvUsageStr, loraReqInfoStr) ==
    LET specs == [TotalQueuedRequests |-> stringToMetricSpec(queuedStr),
                  KVCacheUtilization |-> stringToMetricSpec(kvUsageStr),
                  LoraRequestInfo |-> stringToMetricSpec(loraReqInfoStr)]
    IN  IF \E m \in DOMAIN specs : specs[m].status = "invalid"
        THEN Invalid ELSE [status |-> "ok", specs |-> specs]

-----------------------------------------------------------------------------
(* The reference: where the symbols of a well-formed flag stand.            *)

Blank(s, i, j) == \A k \in Ink(s) : k <= i \/ k >= j

\* The text between two marks is one label, one equals sign and one value.
IsField(s, i, j) ==
    \E e \in (i + 1)..(j - 1) :
        /\ \A k \in (i + 1)..(j - 1) : s[k] = "equals" <=> k = e
        /\ ~Blank(s, i, e) /\ ~Blank(s, e, j)

WellFormed(s) ==
    \/ Positions(s, Braces) = {} /\ Ink(s) # {}
    \/ \E open, close \in DOMAIN s :
          /\ s[open] = "open" /\ s[close] = "close" /\ open < close
          /\ Positions(s, {"close"}) = {close}
          /\ \A k \in Positions(s, {"open"}) : open <= k
          /\ ~Blank(s, 0, open) /\ Blank(s, close, Len(s) + 1)
          /\ LET marks == {open, close} \cup {k \in open..close : s[k] = "comma"}
             IN  \A i, j \in marks :
                    (i < j /\ \A k \in marks : k <= i \/ k >= j) => IsField(s, i, j)
=============================================================================
