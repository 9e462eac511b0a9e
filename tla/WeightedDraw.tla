---------------------------- MODULE WeightedDraw ----------------------------
(***************************************************************************)
(* RandomWeightedDraw (pkg/epp/handlers/streamingserver.go): the choice of  *)
(* a target model by its weight.  At most ten targets with weights up to    *)
(* 1,000,000 (api/v1alpha2): the int32 sum cannot overflow.                 *)
(***************************************************************************)
EXTENDS Naturals, Sequences, FiniteSets

CONSTANTS
    MaxTargets,   \* bound: target models
    MaxWeight     \* bound: weight of one

ASSUME DrawAssumption == MaxTargets \in Nat \ {0} /\ MaxWeight \in Nat \ {0}

\* The weights of an InferenceModel's targets: every target has one, or none
\* has (zeros).
Targets == UNION {[1..n -> 1..MaxWeight] \cup {[k \in 1..n |-> 0]} : n \in 1..MaxTargets}

Unweighted(w) == w[1] = 0

\* weights, after each iteration of the loop that adds them up.
Weights(w) ==
    LET weights[i \in 0..Len(w)] == IF i = 0 THEN 0 ELSE weights[i - 1] + w[i]
    IN  weights

\* What r.Int31n draws from: the sum of the weights, or the number of targets.
Draws(w) ==
    IF Unweighted(w) THEN 0..(Len(w) - 1) ELSE 0..(Weights(w)[Len(w)] - 1)

\* Mutant: a random number equal to the weight is still the target's.
IterateInclusive(w, loop, i) ==
    IF loop.chosen # 0 THEN loop
    ELSE IF loop.randomVal <= w[i] THEN [loop EXCEPT !.chosen = i]
    ELSE [loop EXCEPT !.randomVal = @ - w[i]]

\* One iteration of the loop over the targets; after the return it stays.
Iterate(w, loop, i) ==
    IF loop.chosen # 0 THEN loop
    ELSE IF loop.randomVal < w[i] THEN [loop EXCEPT !.chosen = i]
    ELSE [loop EXCEPT !.randomVal = @ - w[i]]

\* randomVal and the target chosen, after each iteration.
Loop(w, draw) ==
    LET loop[i \in 0..Len(w)] ==
            IF i = 0 THEN [randomVal |-> draw, chosen |-> 0] ELSE Iterate(w, loop[i - 1], i)
    IN  loop

\* The index of the target drawn; 0 is the empty name after the loop.
RandomWeightedDraw(w, draw) ==
    IF Unweighted(w) THEN draw + 1 ELSE Loop(w, draw)[Len(w)].chosen

\* All that a draw may return, over all targets and random numbers.
Drawn == UNION {{RandomWeightedDraw(w, d) : d \in Draws(w)} : w \in Targets}

\* As many random numbers choose a target as its weight says, one number each
\* without weights, and none falls through to the empty name.
Proportional ==
    \A w \in Targets : \A k \in 0..Len(w) :
        Cardinality({d \in Draws(w) : RandomWeightedDraw(w, d) = k}) =
            IF k = 0 THEN 0 ELSE IF Unweighted(w) THEN 1 ELSE w[k]
=============================================================================
