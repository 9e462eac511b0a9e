-------------------------- MODULE Scheduler_proofs --------------------------
(***************************************************************************)
(* Proofs about Filters and Scheduler, for any pods, metrics and            *)
(* thresholds.  With metrics that do not change while it runs, the filter   *)
(* tree keeps a pod for every critical request, and drops a sheddable one   *)
(* exactly if no pod has capacity.  Both rest on the least-filters never    *)
(* keeping nothing: the pod with the least value falls into the first       *)
(* range.  The walk of Schedule, whose metrics do change, is tied to these  *)
(* operators by an invariant of its loops.                                  *)
(***************************************************************************)
EXTENDS Scheduler, FiniteSetTheorems, WellFoundedInduction, TLAPS

-----------------------------------------------------------------------------
(* The filter functions.                                                    *)

\* A nonempty set of naturals has a least element.
LEMMA LeastExists ==
    ASSUME NEW S \in SUBSET Nat, S # {}
    PROVE  \E v \in S : \A u \in S : v <= u
<1>1. PICK v \in S : \A u \in S : ~(<<u, v>> \in OpToRel(<, Nat))
      BY NatLessThanWellFounded, WFMin
<1>2. \A u \in S : ~(u < v)
      BY <1>1 DEF OpToRel
<1>3. QED
      BY <1>2

\* A nonempty bounded one has a greatest element.
LEMMA MostExists ==
    ASSUME NEW B \in Nat, NEW S \in SUBSET (0..B), S # {}
    PROVE  \E v \in S : \A u \in S : u <= v
<1> DEFINE Up == {u \in Nat : \A v \in S : v <= u}
<1>1. B \in Up
      OBVIOUS
<1>2. PICK u \in Up : \A x \in Up : u <= x
      BY <1>1, LeastExists
<1>3. u \in S
  <2> SUFFICES ASSUME u \notin S PROVE FALSE
      OBVIOUS
  <2>1. \A v \in S : v <= u - 1 /\ u - 1 \in Nat
        OBVIOUS
  <2>2. u - 1 \in Up
        BY <2>1
  <2>3. QED
        BY <1>2, <2>2
<1>4. QED
      BY <1>3

\* Least and Most are values of f, the bounds of all the others.
LEMMA BoundsOf ==
    ASSUME NEW ps, ps # {}, NEW f, \A p \in ps : f[p] \in 0..MaxInt
    PROVE  /\ \E p \in ps : f[p] = Least(f, ps)
           /\ \A p \in ps : Least(f, ps) <= f[p] /\ f[p] <= Most(f, ps)
           /\ Most(f, ps) \in 0..MaxInt
<1> DEFINE S == {f[p] : p \in ps}
<1>1. S \in SUBSET (0..MaxInt) /\ S \in SUBSET Nat /\ S # {}
      OBVIOUS
<1> MaxInt \in Nat
    BY ConfigAssumption
<1>2. \E v \in S : \A u \in S : v <= u
  <2> HIDE DEF S
  <2> QED BY <1>1, LeastExists
<1>3. Least(f, ps) \in S /\ \A p \in ps : Least(f, ps) <= f[p]
      BY <1>2 DEF Least
<1>4. \E v \in S : \A u \in S : u <= v
  <2> HIDE DEF S
  <2> QED BY <1>1, MostExists
<1>5. Most(f, ps) \in S /\ \A p \in ps : f[p] <= Most(f, ps)
      BY <1>4 DEF Most
<1>6. QED
      BY <1>1, <1>3, <1>5

\* A finite nonempty set has a positive number of elements.
LEMMA PositiveCount ==
    ASSUME NEW ps, IsFiniteSet(ps), ps # {}
    PROVE  Cardinality(ps) \in Nat \ {0}
  BY FS_CardinalityType, FS_EmptySet

Measured(ps, m) == \A p \in ps : IsMetrics(m[p])

\* leastQueuingFilterFunc keeps a pod of any nonempty slice.
LEMMA LeastQueuingKeeps ==
    ASSUME NEW ps, IsFiniteSet(ps), ps # {}, NEW m, Measured(ps, m)
    PROVE  leastQueuing(ps, m) # {} /\ leastQueuing(ps, m) \subseteq ps
<1> DEFINE q == [p \in ps |-> m[p].queue]
           n == Cardinality(ps)
           lo == Least(q, ps)
           hi == Most(q, ps)
<1>1. \A p \in ps : q[p] \in 0..MaxInt
      BY DEF Measured, IsMetrics
<1>2. PICK p \in ps : q[p] = lo /\ lo <= hi /\ hi \in 0..MaxInt
      BY <1>1, BoundsOf
<1>3. n \in Nat \ {0}
      BY PositiveCount
<1>4. MaxInt \in Nat /\ lo \in Nat /\ hi \in Nat /\ hi - lo \in Nat
      BY <1>1, <1>2, ConfigAssumption
<1> HIDE DEF lo, hi, n
<1>5. Quotient(hi - lo, n) \in Nat
      BY <1>3, <1>4 DEF Quotient
<1>6. inFirstQueueRange(m[p], m[p], lo, hi, n)
      BY <1>2, <1>4, <1>5 DEF inFirstQueueRange
<1>7. QED
      BY <1>6 DEF leastQueuing, lo, hi, n

\* leastKVCacheFilterFunc too.
LEMMA LeastKVCacheKeeps ==
    ASSUME NEW ps, IsFiniteSet(ps), ps # {}, NEW m, Measured(ps, m)
    PROVE  leastKVCache(ps, m) # {} /\ leastKVCache(ps, m) \subseteq ps
<1> DEFINE k == [p \in ps |-> m[p].kv]
           n == Cardinality(ps)
           lo == Least(k, ps)
           hi == Most(k, ps)
<1>1. \A p \in ps : k[p] \in 0..MaxInt
      BY DEF Measured, IsMetrics
<1>2. PICK p \in ps : k[p] = lo /\ lo <= hi /\ hi \in 0..MaxInt
      BY <1>1, BoundsOf
<1>3. n \in Nat \ {0}
      BY PositiveCount
<1>4. MaxInt \in Nat /\ lo \in Nat /\ hi \in Nat /\ hi - lo \in Nat
      BY <1>1, <1>2, ConfigAssumption
<1> HIDE DEF lo, hi, n
<1>5. (lo - lo) * n = 0
      BY <1>3, <1>4
<1>6. inFirstKVRange(m[p], m[p], lo, hi, n)
      BY <1>2, <1>4, <1>5 DEF inFirstKVRange
<1>7. QED
      BY <1>6 DEF leastKVCache, lo, hi, n

\* What loRASoftAffinityFilter passes on is a nonempty part of its argument.
LEMMA SoftAffinityPasses ==
    ASSUME NEW ps, ps # {}, NEW m, NEW c, NEW t, NEW l \in Apply("lora", c, t, ps, m)
    PROVE  PassOn(l, ps) # {} /\ PassOn(l, ps) \subseteq ps
  BY DEF Apply, softAffinity, PassOn

\* Queue, adapter and kv cache filters in a row keep a nonempty part.
LEMMA QueueLoRAAndKVCacheKeeps ==
    ASSUME NEW ps, IsFiniteSet(ps), ps # {}, NEW m, Measured(ps, m),
           NEW c, NEW t, NEW out \in QueueLoRAAndKVCache(c, t, ps, m)
    PROVE  out # {} /\ out \subseteq ps
<1> DEFINE q == leastQueuing(ps, m)
<1>1. q # {} /\ q \subseteq ps /\ PassOn(q, ps) = q
      BY LeastQueuingKeeps DEF PassOn
<1>2. PICK l \in Apply("lora", c, t, q, m) : out = leastKVCache(PassOn(l, q), m)
      BY <1>1 DEF QueueLoRAAndKVCache
<1> DEFINE s == PassOn(l, q)
<1> HIDE DEF q
<1>3. s # {} /\ s \subseteq q
      BY <1>1, SoftAffinityPasses
<1>4. IsFiniteSet(s) /\ Measured(s, m)
      BY <1>1, <1>3, FS_Subset DEF Measured
<1> HIDE DEF s
<1>5. QED
      BY <1>1, <1>2, <1>3, <1>4, LeastKVCacheKeeps DEF s

\* Queue and kv cache filters in a row do.
LEMMA QueueAndKVCacheKeeps ==
    ASSUME NEW ps, IsFiniteSet(ps), ps # {}, NEW m, Measured(ps, m),
           NEW c, NEW t, NEW out \in QueueAndKVCache(c, t, ps, m)
    PROVE  out # {} /\ out \subseteq ps
<1> DEFINE q == leastQueuing(ps, m)
<1>1. q # {} /\ q \subseteq ps /\ PassOn(q, ps) = q
      BY LeastQueuingKeeps DEF PassOn
<1>2. out = leastKVCache(q, m)
      BY <1>1 DEF QueueAndKVCache
<1> HIDE DEF q
<1>3. IsFiniteSet(q) /\ Measured(q, m)
      BY <1>1, FS_Subset DEF Measured
<1>4. QED
      BY <1>1, <1>2, <1>3, LeastKVCacheKeeps

\* A critical request is never dropped while the pool has a pod, and goes to
\* a pod with a short queue if there is one.
THEOREM CriticalPlaced ==
    ASSUME NEW ps, IsFiniteSet(ps), ps # {}, NEW m, Measured(ps, m),
           NEW t, NEW out \in Outcomes(TRUE, t, ps, m)
    PROVE  /\ out # {}
           /\ (\E p \in ps : lowQueueing(m[p])) => \A p \in out : lowQueueing(m[p])
<1> DEFINE low == {p \in ps : lowQueueing(m[p])}
<1>1. out \in LowLatency(TRUE, t, ps, m)
      BY DEF Outcomes
<1>2. CASE low = {}
  <2>1. out \in QueueLoRAAndKVCache(TRUE, t, ps, m)
        BY <1>1, <1>2 DEF LowLatency
  <2>2. QED
        BY <2>1, <1>2, QueueLoRAAndKVCacheKeeps
<1>3. CASE low # {}
  <2>1. PICK l \in Apply("lora", TRUE, t, low, m) :
               out \in QueueAndKVCache(TRUE, t, PassOn(l, low), m)
        BY <1>1, <1>3 DEF LowLatency
  <2> DEFINE s == PassOn(l, low)
  <2>2. s # {} /\ s \subseteq low
        BY <1>3, SoftAffinityPasses
  <2>3. IsFiniteSet(s) /\ Measured(s, m)
        BY <2>2, FS_Subset DEF Measured
  <2> HIDE DEF s
  <2>4. out # {} /\ out \subseteq s
        BY <2>1, <2>2, <2>3, QueueAndKVCacheKeeps DEF s
  <2>5. QED
        BY <2>2, <2>4
<1>4. QED
      BY <1>2, <1>3

\* A sheddable request is dropped exactly if no pod has capacity for it, and
\* is placed on one that has.
THEOREM SheddablePlaced ==
    ASSUME NEW ps, IsFiniteSet(ps), NEW m, Measured(ps, m),
           NEW t, NEW out \in Outcomes(FALSE, t, ps, m)
    PROVE  /\ out = {} <=> \A p \in ps : ~hasCapacity(m[p], m[p])
           /\ \A p \in out : p \in ps /\ hasCapacity(m[p], m[p])
<1> DEFINE cap == {p \in ps : hasCapacity(m[p], m[p])}
<1>1. out \in Sheddable(FALSE, t, ps, m)
      BY DEF Outcomes
<1>2. CASE cap = {}
      BY <1>1, <1>2 DEF Sheddable
<1>3. CASE cap # {}
  <2>1. out \in QueueLoRAAndKVCache(FALSE, t, cap, m)
        BY <1>1, <1>3 DEF Sheddable
  <2>2. IsFiniteSet(cap) /\ Measured(cap, m)
        BY FS_Subset DEF Measured
  <2>3. out # {} /\ out \subseteq cap
    <3> HIDE DEF cap
    <3> QED BY <2>1, <2>2, <1>3, QueueLoRAAndKVCacheKeeps
  <2>4. QED
        BY <1>3, <2>3
<1>4. QED
      BY <1>2, <1>3

-----------------------------------------------------------------------------
(* The invariants of the walk.                                              *)

Visited == pods \ left

\* What a least-filter compares, of the metrics as they are now.
Value(p) == Field(metrics[p])

Steady(p) == <<metrics[p], metrics[p], metrics[p]>>

\* min and max are the extremes of the pods seen, and the values the loop
\* starts with before the first.
Extremes(seen) ==
    /\ \A p \in seen : min <= Value(p) /\ Value(p) <= max
    /\ IF seen = {} THEN min = MaxInt /\ max = 0
       ELSE \E p, q \in seen : Value(p) = min /\ Value(q) = max

\* A filter during which no metrics changed has done with the pods it visited
\* what its definition says.
LoopInv ==
    running /\ refreshes = entered =>
        /\ kind \in {"queue", "kv"} => Extremes(IF pass = 1 THEN Visited ELSE pods)
        /\ filtered = IF keeping THEN {p \in Visited : Keeps(Steady(p))} ELSE {}
        /\ kind = "lora" =>
            available = {p \in Visited : /\ ~Keeps(Steady(p))
                                         /\ hasRoom(metrics[p], metrics[p])}

\* Where the walk is tells what has been admitted.
AdmitInv ==
    /\ node \in {"critical", "low", "capacity", "drop"} => admitted = {}
    /\ node \in {"affinity", "queue2", "queue3", "lora3", "kv"} =>
        (critical /\ admitted = {}) \/ pods \subseteq admitted
    /\ node = "low" => critical
    /\ AdmittedOnly

\* A filter has pods to choose from unless the store is empty; the drop filter
\* runs for cause.
CauseInv ==
    /\ node = "critical" =>
        pods = store /\ filtered = IF critical THEN Visited ELSE {}
    /\ running => pods # {} \/ store = {}
    /\ node = "capacity" => ~critical \/ store = {}
    /\ node = "drop" => store = {} \/ ~critical
    /\ FailsOnlyForCause

\* What the walk can still return, filter by filter, is among the outcomes.
RestIn(outcomes) ==
    /\ node = "critical" => Outcomes(critical, target, pods, metrics) \subseteq outcomes
    /\ node = "low"      => LowLatency(critical, target, pods, metrics) \subseteq outcomes
    /\ node = "capacity" => Sheddable(critical, target, pods, metrics) \subseteq outcomes
    /\ node = "affinity" => \A l \in Apply("lora", critical, target, pods, metrics) :
            QueueAndKVCache(critical, target, PassOn(l, pods), metrics) \subseteq outcomes
    /\ node = "queue2"   => QueueAndKVCache(critical, target, pods, metrics) \subseteq outcomes
    /\ node = "queue3"   => QueueLoRAAndKVCache(critical, target, pods, metrics) \subseteq outcomes
    /\ node = "lora3"    => \A l \in Apply("lora", critical, target, pods, metrics) :
            leastKVCache(PassOn(l, pods), metrics) \in outcomes
    /\ node = "kv"       => leastKVCache(pods, metrics) \in outcomes
    /\ node = "drop"     => {} \in outcomes
    /\ node = NoNode     => result \in outcomes

RestInv == refreshes = 0 => RestIn(Outcomes(critical, target, store, metrics))

\* The types the argument needs.
WalkType ==
    /\ store \subseteq Pod /\ metrics \in [Pod -> Metric] /\ critical \in BOOLEAN
    /\ refreshes \in 0..MaxRefreshes /\ entered \in 0..refreshes
    /\ node \in DOMAIN Tree \cup {NoNode} /\ pass \in {1, 2}
    /\ pods \subseteq store /\ left \subseteq pods
    /\ filtered \subseteq pods /\ available \subseteq pods
    /\ min \in 0..MaxInt /\ max \in 0..MaxInt

WalkInv == WalkType /\ LoopInv /\ AdmitInv /\ CauseInv /\ RestInv

-----------------------------------------------------------------------------
(* The loads of one iteration, and the tree.                                *)

\* An iteration reads metrics the pod had, replaces them as often as refreshes
\* says, and if that did not move has read the same ones every time.
LEMMA Loaded ==
    ASSUME WalkType, NEW p \in Pod, NEW k \in {3, 4}, NEW s \in Loads(p, k), Load(p, s)
    PROVE  /\ \A i \in 1..k : s[i] \in Metric
           /\ metrics' \in [Pod -> Metric]
           /\ refreshes' \in 0..MaxRefreshes /\ refreshes <= refreshes'
           /\ refreshes' = refreshes =>
               metrics' = metrics /\ \A i \in 1..k : s[i] = metrics[p]
<1> USE SchedulerAssumption
<1>1. s \in [1..k -> Metric] /\ s[1] = metrics[p] /\ Changes(s) <= MaxRefreshes - refreshes
  BY DEF Loads
<1>2. Len(s) = k
  BY <1>1
<1> DEFINE D == {i \in 2..k : s[i] # s[i - 1]}
<1>3. IsFiniteSet(D)
  <2>1. IsFiniteSet(2..k)
    BY FS_Interval
  <2> QED
    BY <2>1, FS_Subset
<1>4. Changes(s) = Cardinality(D) /\ Changes(s) \in Nat
  BY <1>2, <1>3, FS_CardinalityType DEF Changes
<1>5. /\ refreshes \in Nat /\ MaxRefreshes \in Nat
      /\ refreshes' = refreshes + Changes(s) /\ metrics' = [metrics EXCEPT ![p] = s[k]]
  BY <1>2 DEF WalkType, Load
<1>6. metrics' \in [Pod -> Metric]
  BY <1>1, <1>5 DEF WalkType
<1>7. refreshes' \in 0..MaxRefreshes /\ refreshes <= refreshes'
  BY <1>1, <1>4, <1>5
<1>8. ASSUME refreshes' = refreshes
      PROVE  metrics' = metrics /\ \A i \in 1..k : s[i] = metrics[p]
  <2>1. Cardinality(D) = 0
    BY <1>4, <1>5, <1>8
  <2>2. D = {}
    BY <2>1, <1>3, FS_EmptySet
  <2>3. s[2] = s[1] /\ s[3] = s[2] /\ (k = 4 => s[4] = s[3])
    BY <2>2
  <2>4. \A i \in 1..k : s[i] = metrics[p]
    BY <1>1, <2>3
  <2> QED
    BY <1>5, <2>4 DEF WalkType
<1> QED
  BY <1>1, <1>6, <1>7, <1>8

\* The nodes of the tree.
LEMMA TreeAt ==
    /\ DOMAIN Tree = {"critical", "low", "affinity", "queue2", "queue3", "lora3", "kv",
                      "capacity", "drop"}
    /\ Tree["critical"].kind = "critical" /\ Tree["critical"].ok = "low" /\ Tree["critical"].fail = "capacity"
    /\ Tree["low"].kind = "low" /\ Tree["low"].ok = "affinity" /\ Tree["low"].fail = "queue3"
    /\ Tree["affinity"].kind = "lora" /\ Tree["affinity"].ok = "queue2" /\ Tree["affinity"].fail = "queue2"
    /\ Tree["queue2"].kind = "queue" /\ Tree["queue2"].ok = "kv" /\ Tree["queue2"].fail = "kv"
    /\ Tree["queue3"].kind = "queue" /\ Tree["queue3"].ok = "lora3" /\ Tree["queue3"].fail = "lora3"
    /\ Tree["lora3"].kind = "lora" /\ Tree["lora3"].ok = "kv" /\ Tree["lora3"].fail = "kv"
    /\ Tree["kv"].kind = "kv" /\ Tree["kv"].ok = "return" /\ Tree["kv"].fail = "return"
    /\ Tree["capacity"].kind = "capacity" /\ Tree["capacity"].ok = "queue3" /\ Tree["capacity"].fail = "drop"
    /\ Tree["drop"].kind = "drop" /\ Tree["drop"].ok = "return" /\ Tree["drop"].fail = "return"
  BY DEF Tree

\* The field that a least-filter compares is in the range of its locals.
LEMMA FieldInRange ==
    ASSUME NEW x \in Metric
    PROVE  Field(x) \in 0..MaxInt
  BY SchedulerAssumption DEF Field, IsMetrics

\* A step within a filter leaves what was admitted and the cause of a failure
\* alone, and while nothing was refreshed what can still be returned.
LEMMA WithinFilter ==
    ASSUME WalkInv, running, refreshes <= refreshes', refreshes' \in Nat,
           refreshes' = refreshes => metrics' = metrics,
           UNCHANGED <<request, node, pods, result, history>>,
           node = "critical" => filtered' = IF critical THEN Visited' ELSE {}
    PROVE  AdmitInv' /\ CauseInv' /\ RestInv'
<1> USE DEF request, history
<1>1. running' /\ ~Done'
  BY DEF running, Done
<1>2. AdmitInv'
  BY <1>1 DEF WalkInv, AdmitInv, AdmittedOnly
<1>3. CauseInv'
  BY <1>1 DEF WalkInv, CauseInv, FailsOnlyForCause
<1>4. RestInv'
  <2> SUFFICES ASSUME refreshes' = 0 PROVE RestIn(Outcomes(critical, target, store, metrics))'
    BY DEF RestInv
  <2>1. refreshes = 0 /\ metrics' = metrics
    BY DEF WalkInv, WalkType
  <2> QED
    BY <2>1 DEF WalkInv, RestInv, RestIn
<1> QED
  BY <1>2, <1>3, <1>4

\* An iteration of the loop that finds min and max.
LEMMA MinMaxStep ==
    ASSUME WalkInv, NEW p \in Pod, MinMax(p)
    PROVE  WalkInv'
<1>1. PICK s \in Loads(p, 4) :
        /\ Load(p, s)
        /\ min' = IF Field(s[1]) <= min THEN Field(s[2]) ELSE min
        /\ max' = IF Field(s[3]) >= max THEN Field(s[4]) ELSE max
  BY DEF MinMax
<1>2. /\ running /\ kind \in {"queue", "kv"} /\ pass = 1
      /\ p \in left /\ left' = left \ {p}
      /\ UNCHANGED <<request, node, pass, pods, filtered, available, result, history>>
  BY DEF MinMax
<1>3. WalkType
  BY DEF WalkInv
<1>4. /\ \A i \in 1..4 : s[i] \in Metric
      /\ metrics' \in [Pod -> Metric]
      /\ refreshes' \in 0..MaxRefreshes /\ refreshes <= refreshes'
      /\ refreshes' = refreshes =>
          metrics' = metrics /\ \A i \in 1..4 : s[i] = metrics[p]
  BY <1>1, <1>3, Loaded
<1>5. Field(s[1]) \in 0..MaxInt /\ Field(s[2]) \in 0..MaxInt
      /\ Field(s[3]) \in 0..MaxInt /\ Field(s[4]) \in 0..MaxInt
  BY <1>4, FieldInRange
<1>6. min' \in 0..MaxInt /\ max' \in 0..MaxInt
  BY <1>1, <1>3, <1>5 DEF WalkType
<1>7. WalkType'
  BY <1>2, <1>3, <1>4, <1>6, SchedulerAssumption DEF WalkType, request, history
<1>8. LoopInv'
  <2> SUFFICES ASSUME refreshes' = entered'
               PROVE  /\ Extremes(Visited)'
                      /\ filtered' = {}
    BY <1>2 DEF LoopInv, kind, keeping
  <2>1. refreshes = entered /\ refreshes' = refreshes
    BY <1>2, <1>3, <1>4, SchedulerAssumption DEF WalkType, history
  <2>2. Extremes(Visited) /\ filtered = {}
    BY <2>1, <1>2 DEF WalkInv, LoopInv, keeping
  <2>3. Visited' = Visited \cup {p}
    BY <1>2, <1>3 DEF Visited, WalkType
  <2>4. metrics' = metrics /\ \A i \in 1..4 : s[i] = metrics[p]
    BY <2>1, <1>4
  <2>5. \A q : Value(q)' = Value(q)
    BY <2>4, <1>2 DEF Value, Field, kind
  <2>6. /\ min' = IF Value(p) <= min THEN Value(p) ELSE min
        /\ max' = IF Value(p) >= max THEN Value(p) ELSE max
    BY <2>4, <1>1 DEF Value
  <2>7. \A q \in Visited \cup {p} : Value(q) \in 0..MaxInt
    BY <1>2, <1>3, FieldInRange DEF Value, Visited, WalkType
  <2>8. \A q \in Visited \cup {p} : min' <= Value(q) /\ Value(q) <= max'
    BY <2>2, <2>6, <2>7, <1>3, SchedulerAssumption DEF Extremes, WalkType
  <2>9. \E q, r \in Visited \cup {p} : Value(q) = min' /\ Value(r) = max'
    <3>1. CASE Visited = {}
      BY <3>1, <2>2, <2>6, <2>7 DEF Extremes
    <3>2. CASE Visited # {}
      BY <3>2, <2>2, <2>6, <2>7 DEF Extremes
    <3> QED
      BY <3>1, <3>2
  <2>10. Extremes(Visited)'
    BY <2>3, <2>5, <2>8, <2>9 DEF Extremes
  <2> QED
    BY <2>2, <2>10, <1>2
<1>9. AdmitInv' /\ CauseInv' /\ RestInv'
  <2>1. node # "critical"
    BY <1>2, TreeAt DEF kind
  <2> QED
    BY <2>1, <1>2, <1>4, WithinFilter, SchedulerAssumption
<1> QED
  BY <1>7, <1>8, <1>9 DEF WalkInv

\* The second loop of a least-filter starts with the extremes of all its pods.
LEMMA SecondPassStep ==
    ASSUME WalkInv, SecondPass
    PROVE  WalkInv'
<1>1. /\ running /\ kind \in {"queue", "kv"} /\ pass = 1 /\ left = {}
      /\ pass' = 2 /\ left' = pods
      /\ UNCHANGED <<request, metrics, refreshes, node, pods, min, max, filtered,
                     available, result, history>>
  BY DEF SecondPass
<1>2. WalkType'
  BY <1>1 DEF WalkInv, WalkType, request, history
<1>3. LoopInv'
  <2> SUFFICES ASSUME refreshes' = entered'
               PROVE  Extremes(pods)' /\ filtered' = {} /\ Visited' = {}
    BY <1>1 DEF LoopInv, kind, keeping
  <2> refreshes = entered
    BY <1>1 DEF history
  <2>1. Extremes(Visited) /\ filtered = {}
    BY <1>1 DEF WalkInv, LoopInv, keeping
  <2>2. Visited = pods /\ Visited' = {}
    BY <1>1 DEF Visited
  <2> QED
    BY <1>1, <2>1, <2>2 DEF Extremes, Value, Field, kind
<1>4. node # "critical"
  BY <1>1, TreeAt DEF kind
<1>5. AdmitInv' /\ CauseInv' /\ RestInv'
  BY <1>1, <1>4, WithinFilter DEF WalkInv, WalkType
<1> QED
  BY <1>2, <1>3, <1>5 DEF WalkInv

\* An iteration of the loop that keeps pods.
LEMMA VisitStep ==
    ASSUME WalkInv, NEW p \in Pod, Visit(p)
    PROVE  WalkInv'
<1>1. PICK s \in Loads(p, 3) :
        /\ Load(p, s)
        /\ filtered' = IF Keeps(s) THEN filtered \cup {p} ELSE filtered
        /\ available' = IF kind = "lora" /\ ~Keeps(s) /\ hasRoom(s[2], s[3])
                        THEN available \cup {p} ELSE available
  BY DEF Visit
<1>2. /\ running /\ keeping
      /\ p \in left /\ left' = left \ {p}
      /\ UNCHANGED <<request, node, pass, pods, min, max, result, history>>
  BY DEF Visit
<1>3. WalkType
  BY DEF WalkInv
<1>4. /\ metrics' \in [Pod -> Metric]
      /\ refreshes' \in 0..MaxRefreshes /\ refreshes <= refreshes'
      /\ refreshes' = refreshes =>
          metrics' = metrics /\ \A i \in 1..3 : s[i] = metrics[p]
  BY <1>1, <1>3, Loaded
<1>5. Visited' = Visited \cup {p} /\ p \notin Visited
  BY <1>2, <1>3 DEF Visited, WalkType
<1>6. WalkType'
  <2>1. filtered' \subseteq pods /\ available' \subseteq pods
    BY <1>1, <1>2, <1>3 DEF WalkType
  <2> QED
    BY <2>1, <1>2, <1>3, <1>4, SchedulerAssumption DEF WalkType, request, history
<1>7. LoopInv'
  <2> SUFFICES ASSUME refreshes' = entered' PROVE LoopInv'
    BY DEF LoopInv
  <2>1. refreshes = entered /\ refreshes' = refreshes
    BY <1>2, <1>3, <1>4, SchedulerAssumption DEF WalkType, history
  <2>2. metrics' = metrics /\ s[1] = metrics[p] /\ s[2] = metrics[p] /\ s[3] = metrics[p]
    BY <2>1, <1>4
  <2>3. Keeps(s) <=> Keeps(Steady(p))
    BY <2>2 DEF Keeps, Steady
  <2>4. \A q : Keeps(Steady(q))' <=> Keeps(Steady(q))
    <3>1. kind' = kind /\ \A q : Steady(q)' = Steady(q)
      BY <2>2, <1>2 DEF Steady, kind
    <3>2. UNCHANGED <<critical, target, min, max, pods>>
      BY <1>2 DEF request
    <3> QED
      BY <3>1, <3>2 DEF Keeps
  <2>5. filtered = {q \in Visited : Keeps(Steady(q))}
    BY <2>1, <1>2 DEF WalkInv, LoopInv
  <2>6. filtered' = {q \in Visited' : Keeps(Steady(q))'}
    BY <2>3, <2>4, <2>5, <1>1, <1>5
  <2>7. kind = "lora" =>
          available' = {q \in Visited' : /\ ~Keeps(Steady(q))'
                                         /\ hasRoom(metrics'[q], metrics'[q])}
    <3> SUFFICES ASSUME kind = "lora"
                 PROVE  available' = {q \in Visited' : /\ ~Keeps(Steady(q))'
                                                       /\ hasRoom(metrics'[q], metrics'[q])}
      OBVIOUS
    <3>1. available = {q \in Visited : ~Keeps(Steady(q)) /\ hasRoom(metrics[q], metrics[q])}
      BY <2>1, <1>2 DEF WalkInv, LoopInv
    <3>2. available' = IF ~Keeps(Steady(p)) /\ hasRoom(metrics[p], metrics[p])
                       THEN available \cup {p} ELSE available
      BY <2>2, <2>3, <1>1
    <3> QED
      BY <3>1, <3>2, <2>2, <2>4, <1>5
  <2>8. kind \in {"queue", "kv"} => Extremes(pods)
    BY <2>1, <1>2 DEF WalkInv, LoopInv, keeping, WalkType
  <2>9. kind' = kind /\ keeping' /\ pass' = pass /\ (kind \in {"queue", "kv"} => pass = 2)
    BY <1>2 DEF kind, keeping
  <2>10. kind \in {"queue", "kv"} => Extremes(pods)'
    BY <2>2, <2>8, <1>2 DEF Extremes, Value, Field, kind
  <2> QED
    BY <2>6, <2>7, <2>9, <2>10 DEF LoopInv
<1>8. node = "critical" => filtered' = IF critical THEN Visited' ELSE {}
  <2> SUFFICES ASSUME node = "critical" PROVE filtered' = IF critical THEN Visited' ELSE {}
    OBVIOUS
  <2>1. kind = "critical"
    BY TreeAt DEF kind
  <2>2. Keeps(s) <=> critical
    BY <2>1 DEF Keeps
  <2>3. filtered = IF critical THEN Visited ELSE {}
    BY DEF WalkInv, CauseInv
  <2> QED
    BY <2>2, <2>3, <1>1, <1>5
<1>9. AdmitInv' /\ CauseInv' /\ RestInv'
  BY <1>2, <1>4, <1>8, WithinFilter, SchedulerAssumption
<1> QED
  BY <1>6, <1>7, <1>9 DEF WalkInv

\* A refresher stores metrics: the filter that runs is no longer undisturbed.
LEMMA RefreshStep ==
    ASSUME WalkInv, NEW p \in Pod, Refresh(p)
    PROVE  WalkInv'
<1> USE SchedulerAssumption
<1>1. /\ running /\ refreshes' = refreshes + 1 /\ refreshes' \in 1..MaxRefreshes
      /\ metrics' \in [Pod -> Metric]
      /\ UNCHANGED <<request, locals, result, history>>
  BY DEF Refresh, WalkInv, WalkType
<1>2. WalkType'
  BY <1>1 DEF WalkInv, WalkType, request, locals, history
<1>3. refreshes' # entered'
  BY <1>1 DEF WalkInv, WalkType, history
<1>4. LoopInv'
  BY <1>3 DEF LoopInv
<1>5. node = "critical" => filtered' = IF critical THEN Visited' ELSE {}
  BY <1>1 DEF locals, Visited, WalkInv, CauseInv
<1>6. UNCHANGED <<request, node, pods, result, history>>
  BY <1>1 DEF locals
<1>7. refreshes <= refreshes' /\ refreshes' # refreshes /\ refreshes' \in Nat
  BY <1>1 DEF WalkInv, WalkType
<1>8. AdmitInv' /\ CauseInv' /\ RestInv'
  BY <1>1, <1>5, <1>6, <1>7, WithinFilter
<1> QED
  BY <1>2, <1>4, <1>8 DEF WalkInv

-----------------------------------------------------------------------------
(* A filter returns.                                                        *)

\* The least and the greatest value, however they are found.
LEMMA ExtremesAre ==
    ASSUME NEW ps, NEW f, \A p \in ps : f[p] \in Int, NEW lo, NEW hi,
           \A p \in ps : lo <= f[p] /\ f[p] <= hi,
           \E p \in ps : f[p] = lo, \E p \in ps : f[p] = hi
    PROVE  Least(f, ps) = lo /\ Most(f, ps) = hi
<1> DEFINE S == {f[p] : p \in ps}
<1>1. lo \in S /\ hi \in S /\ S \subseteq Int
  OBVIOUS
<1>2. Least(f, ps) \in S /\ \A p \in ps : Least(f, ps) <= f[p]
  BY <1>1 DEF Least
<1>3. Most(f, ps) \in S /\ \A p \in ps : f[p] <= Most(f, ps)
  BY <1>1 DEF Most
<1>4. Least(f, ps) <= lo /\ lo <= Least(f, ps) /\ Least(f, ps) \in Int
  BY <1>1, <1>2
<1>5. Most(f, ps) <= hi /\ hi <= Most(f, ps) /\ Most(f, ps) \in Int
  BY <1>1, <1>3
<1> QED
  BY <1>1, <1>4, <1>5

\* A filter during which no metrics changed returns what its definition says.
LEMMA Undisturbed ==
    ASSUME WalkInv, running, keeping, left = {}, refreshes = entered,
           NEW out \in Returned
    PROVE  /\ kind = "critical" => out = IF critical THEN pods ELSE {}
           /\ kind = "low" => out = {p \in pods : lowQueueing(metrics[p])}
           /\ kind = "capacity" => out = {p \in pods : hasCapacity(metrics[p], metrics[p])}
           /\ kind = "queue" => out = leastQueuing(pods, metrics)
           /\ kind = "kv" => out = leastKVCache(pods, metrics)
           /\ kind = "lora" => out \in Apply("lora", critical, target, pods, metrics)
<1>1. Visited = pods
  BY DEF Visited
<1>2. filtered = {p \in pods : Keeps(Steady(p))}
  BY <1>1 DEF WalkInv, LoopInv
<1>3. \A p : Steady(p)[1] = metrics[p] /\ Steady(p)[2] = metrics[p]
  BY DEF Steady
<1>4. ASSUME kind = "critical" PROVE out = IF critical THEN pods ELSE {}
  BY <1>2, <1>4 DEF Keeps, Returned
<1>5. ASSUME kind = "low" PROVE out = {p \in pods : lowQueueing(metrics[p])}
  BY <1>2, <1>3, <1>5 DEF Keeps, Returned
<1>6. ASSUME kind = "capacity" PROVE out = {p \in pods : hasCapacity(metrics[p], metrics[p])}
  BY <1>2, <1>3, <1>6 DEF Keeps, Returned
<1>7. kind \in {"queue", "kv"} =>
        /\ \A p \in pods : min <= Value(p) /\ Value(p) <= max
        /\ pods # {} => (\E p \in pods : Value(p) = min) /\ \E p \in pods : Value(p) = max
  BY <1>1 DEF WalkInv, LoopInv, Extremes, keeping, WalkType
<1>8. \A p \in pods : Value(p) \in Int
  BY FieldInRange, SchedulerAssumption DEF Value, WalkInv, WalkType
<1>9. ASSUME kind = "queue" PROVE out = leastQueuing(pods, metrics)
  <2> DEFINE q == [p \in pods |-> metrics[p].queue]
  <2>1. \A p \in pods : q[p] = Value(p)
    BY <1>9 DEF Value, Field
  <2>2. ASSUME pods # {} PROVE Least(q, pods) = min /\ Most(q, pods) = max
    <3> HIDE DEF q
    <3>1. \A p \in pods : q[p] \in Int
      BY <2>1, <1>8
    <3>2. \A p \in pods : min <= q[p] /\ q[p] <= max
      BY <2>1, <1>7, <1>9
    <3>3. (\E p \in pods : q[p] = min) /\ \E p \in pods : q[p] = max
      BY <2>1, <2>2, <1>7, <1>9
    <3> QED
      BY <3>1, <3>2, <3>3, ExtremesAre
  <2>3. out = {p \in pods :
                 inFirstQueueRange(metrics[p], metrics[p], min, max, Cardinality(pods))}
    BY <1>2, <1>3, <1>9 DEF Keeps, Returned
  <2> QED
    BY <2>2, <2>3 DEF leastQueuing
<1>10. ASSUME kind = "kv" PROVE out = leastKVCache(pods, metrics)
  <2> DEFINE k == [p \in pods |-> metrics[p].kv]
  <2>1. \A p \in pods : k[p] = Value(p)
    BY <1>10 DEF Value, Field
  <2>2. ASSUME pods # {} PROVE Least(k, pods) = min /\ Most(k, pods) = max
    <3> HIDE DEF k
    <3>1. \A p \in pods : k[p] \in Int
      BY <2>1, <1>8
    <3>2. \A p \in pods : min <= k[p] /\ k[p] <= max
      BY <2>1, <1>7, <1>10
    <3>3. (\E p \in pods : k[p] = min) /\ \E p \in pods : k[p] = max
      BY <2>1, <2>2, <1>7, <1>10
    <3> QED
      BY <3>1, <3>2, <3>3, ExtremesAre
  <2>3. out = {p \in pods :
                 inFirstKVRange(metrics[p], metrics[p], min, max, Cardinality(pods))}
    BY <1>2, <1>3, <1>10 DEF Keeps, Returned
  <2> QED
    BY <2>2, <2>3 DEF leastKVCache
<1>11. ASSUME kind = "lora" PROVE out \in Apply("lora", critical, target, pods, metrics)
  <2> DEFINE A == {p \in pods : hasAffinity(metrics[p], target)}
             B == {p \in pods : /\ ~hasAffinity(metrics[p], target)
                                /\ hasRoom(metrics[p], metrics[p])}
  <2>1. \A p \in pods : Keeps(Steady(p)) <=> hasAffinity(metrics[p], target)
    BY <1>3, <1>11 DEF Keeps
  <2>2. available = {p \in Visited : ~Keeps(Steady(p)) /\ hasRoom(metrics[p], metrics[p])}
    BY <1>11 DEF WalkInv, LoopInv
  <2>3. filtered = A /\ available = B
    BY <1>1, <1>2, <2>1, <2>2
  <2>4. out \in softAffinity(A, B)
    BY <1>11, <2>3 DEF Returned
  <2>5. Apply("lora", critical, target, pods, metrics) = softAffinity(A, B)
    BY Zenon DEF Apply
  <2> QED
    BY <2>4, <2>5
<1> QED
  BY <1>4, <1>5, <1>6, <1>9, <1>10, <1>11

\* A new filter starts with its argument: its loop has visited nothing yet.
LEMMA EnterLoop ==
    ASSUME WalkType, NEW n \in DOMAIN Tree, NEW ps \in SUBSET pods, Enter(n, ps),
           UNCHANGED <<request, metrics, refreshes>>
    PROVE  WalkType' /\ LoopInv'
<1> USE SchedulerAssumption, ConfigAssumption
<1>1. /\ node' = n /\ pass' = 1 /\ pods' = ps /\ left' = ps /\ min' = MaxInt /\ max' = 0
      /\ filtered' = {} /\ available' = {} /\ entered' = refreshes
  BY DEF Enter
<1>2. WalkType'
  BY <1>1 DEF WalkType, request
<1>3. Visited' = {}
  BY <1>1 DEF Visited
<1>4. Extremes(Visited)'
  BY <1>1, <1>3 DEF Extremes
<1>5. LoopInv'
  BY <1>1, <1>3, <1>4 DEF LoopInv
<1> QED
  BY <1>2, <1>5

\* What FilterNext does at each node: the kv cache and the drop filter end the
\* walk, every other filter is followed by another one.
LEMMA Returns ==
    ASSUME WalkInv, FilterReturns
    PROVE  \E out \in Returned :
               /\ out \subseteq pods
               /\ kind \notin {"lora", "drop"} => out = filtered
               /\ kind = "drop" => out = {}
               /\ node \in {"kv", "drop"} =>
                   /\ result' = out /\ node' = NoNode
                   /\ UNCHANGED <<pass, pods, left, min, max, filtered, available, entered>>
               /\ node \notin {"kv", "drop"} =>
                   /\ Enter(IF out # {} THEN Tree[node].ok ELSE Tree[node].fail, PassOn(out, pods))
                   /\ UNCHANGED result
<1>1. PICK out \in Returned : FilterNext(out)
  BY DEF FilterReturns
<1>2. node \in DOMAIN Tree
  BY DEF FilterReturns, running, WalkInv, WalkType
<1>3. /\ out \subseteq pods
      /\ kind \notin {"lora", "drop"} => out = filtered
      /\ kind = "drop" => out = {}
  BY <1>1 DEF Returned, softAffinity, WalkInv, WalkType
<1> DEFINE next == IF out # {} THEN Tree[node].ok ELSE Tree[node].fail
<1>4. next = "return" <=> node \in {"kv", "drop"}
  BY <1>2, TreeAt
<1>5. IF next = "return"
      THEN /\ result' = out
           /\ node' = NoNode
           /\ UNCHANGED <<pass, pods, left, min, max, filtered, available, entered>>
      ELSE Enter(next, PassOn(out, pods)) /\ UNCHANGED result
  BY <1>1 DEF FilterNext
<1> HIDE DEF next
<1>6. node \in {"kv", "drop"} =>
        /\ result' = out /\ node' = NoNode
        /\ UNCHANGED <<pass, pods, left, min, max, filtered, available, entered>>
  BY <1>4, <1>5
<1>7. node \notin {"kv", "drop"} => Enter(next, PassOn(out, pods)) /\ UNCHANGED result
  BY <1>4, <1>5
<1> QED
  BY <1>1, <1>3, <1>6, <1>7 DEF next

\* The filter that runs returns, and the walk goes on or ends.
LEMMA ReturnStep ==
    ASSUME WalkInv, FilterReturns
    PROVE  WalkInv'
<1> USE SchedulerAssumption
<1>1. PICK out \in Returned :
        /\ out \subseteq pods
        /\ kind \notin {"lora", "drop"} => out = filtered
        /\ kind = "drop" => out = {}
        /\ node \in {"kv", "drop"} =>
            /\ result' = out /\ node' = NoNode
            /\ UNCHANGED <<pass, pods, left, min, max, filtered, available, entered>>
        /\ node \notin {"kv", "drop"} =>
            /\ Enter(IF out # {} THEN Tree[node].ok ELSE Tree[node].fail, PassOn(out, pods))
            /\ UNCHANGED result
  BY Returns
<1>2. /\ running /\ node \in DOMAIN Tree
      /\ kind # "drop" => keeping /\ left = {}
      /\ admitted' = IF kind \in {"low", "capacity"} THEN filtered ELSE admitted
      /\ UNCHANGED <<store, critical, target, metrics, refreshes>>
  BY DEF FilterReturns, WalkInv, WalkType, running, request
<1>3. WalkType /\ LoopInv /\ AdmitInv /\ CauseInv /\ RestInv
  BY DEF WalkInv
<1> DEFINE next == IF out # {} THEN Tree[node].ok ELSE Tree[node].fail
           rest == PassOn(out, pods)
<1>4. rest \subseteq pods /\ (pods # {} => rest # {}) /\ (out # {} => rest = out)
      /\ (out = {} => rest = pods)
  BY <1>1 DEF PassOn
<1>5. PICK goal : /\ goal = Outcomes(critical, target, store, metrics)
                  /\ goal = Outcomes(critical, target, store, metrics)'
  BY <1>2
<1>6. ASSUME refreshes = 0 PROVE RestIn(goal) /\ refreshes = entered
  BY <1>3, <1>5, <1>6 DEF RestInv, WalkType
<1>7. ASSUME refreshes = entered, kind # "drop"
      PROVE  /\ kind = "critical" => out = IF critical THEN pods ELSE {}
             /\ kind = "low" => out = {p \in pods : lowQueueing(metrics[p])}
             /\ kind = "capacity" => out = {p \in pods : hasCapacity(metrics[p], metrics[p])}
             /\ kind = "queue" => out = leastQueuing(pods, metrics)
             /\ kind = "kv" => out = leastKVCache(pods, metrics)
             /\ kind = "lora" => out \in Apply("lora", critical, target, pods, metrics)
  BY <1>1, <1>2, <1>7, Undisturbed
<1> HIDE DEF rest
<1>10. CASE node \in {"kv", "drop"}
  <2>1. /\ result' = out /\ node' = NoNode /\ Done'
        /\ UNCHANGED <<pass, pods, left, min, max, filtered, available, entered, admitted>>
    BY <1>1, <1>2, <1>10, TreeAt DEF Done, running, kind
  <2>2. WalkType' /\ LoopInv'
    BY <2>1, <1>2, <1>3 DEF WalkType, LoopInv, Done
  <2>3. NoNode \notin {"critical", "low", "affinity", "queue2", "queue3", "lora3", "kv",
                       "capacity", "drop"}
    BY TreeAt
  <2>4. CASE node = "kv"
    <3> kind = "kv"
      BY <2>4, TreeAt DEF kind
    <3>1. AdmitInv'
      BY <2>1, <2>3, <2>4, <1>1, <1>2, <1>3 DEF AdmitInv, AdmittedOnly
    <3>2. ASSUME out = {} PROVE store = {} \/ refreshes > entered
      <4> SUFFICES ASSUME store # {}, refreshes = entered PROVE FALSE
        BY <1>3 DEF WalkType
      <4>1. out = leastKVCache(pods, metrics)
        BY <1>7
      <4>2. pods # {} /\ IsFiniteSet(pods) /\ Measured(pods, metrics)
        BY <1>2, <1>3, FS_Subset DEF CauseInv, WalkType, Measured
      <4> QED
        BY <4>1, <4>2, <3>2, LeastKVCacheKeeps
    <3>3. CauseInv'
      BY <2>1, <2>3, <1>2, <3>2 DEF CauseInv, FailsOnlyForCause, Done
    <3>4. RestInv'
      BY <2>1, <2>3, <2>4, <1>2, <1>5, <1>6, <1>7 DEF RestInv, RestIn
    <3> QED
      BY <2>2, <3>1, <3>3, <3>4 DEF WalkInv
  <2>5. CASE node = "drop"
    <3> kind = "drop"
      BY <2>5, TreeAt DEF kind
    <3> out = {}
      BY <1>1
    <3>1. AdmitInv'
      BY <2>1, <2>3, <1>2 DEF AdmitInv, AdmittedOnly
    <3>2. CauseInv'
      BY <2>1, <2>3, <2>5, <1>2, <1>3 DEF AdmitInv, CauseInv, FailsOnlyForCause, Done
    <3>3. RestInv'
      BY <2>1, <2>3, <2>5, <1>2, <1>5, <1>6 DEF RestInv, RestIn
    <3> QED
      BY <2>2, <3>1, <3>2, <3>3 DEF WalkInv
  <2> QED
    BY <1>10, <2>4, <2>5
<1>11. CASE node \notin {"kv", "drop"}
  <2>1. Enter(next, rest) /\ UNCHANGED result
    BY <1>1, <1>11 DEF rest
  <2>2. next \in DOMAIN Tree /\ next # "critical"
    BY <1>2, <1>11, TreeAt
  <2>3. node' = next /\ pods' = rest /\ entered' = refreshes /\ filtered' = {} /\ running'
    BY <2>1, <2>2 DEF Enter, running
  <2>4. WalkType' /\ LoopInv'
    BY <2>1, <2>2, <1>2, <1>3, <1>4, EnterLoop DEF request
  <2>5. kind # "drop"
    BY <1>2, <1>11, TreeAt DEF kind
  <2>6. AdmittedOnly' /\ FailsOnlyForCause'
    BY <2>3 DEF AdmittedOnly, FailsOnlyForCause, Done
  <2>7. pods' # {} \/ store' = {}
    BY <2>3, <1>2, <1>3, <1>4 DEF CauseInv
  <2>8. ASSUME refreshes' = 0
        PROVE  RestIn(goal) /\ refreshes = entered
    BY <2>8, <1>2, <1>6
  <2>9. CASE node = "critical"
    <3>1. kind = "critical" /\ out = filtered /\ next = IF out # {} THEN "low" ELSE "capacity"
      BY <2>9, <1>1, TreeAt DEF kind
    <3>2. out = IF critical THEN pods ELSE {}
      BY <3>1, <2>5, <2>9, <1>2, <1>3 DEF CauseInv, Visited
    <3>3. AdmitInv'
      BY <3>1, <3>2, <2>3, <2>6, <2>9, <1>2, <1>3 DEF AdmitInv
    <3>4. CauseInv'
      BY <3>1, <3>2, <2>3, <2>6, <2>7, <2>9, <1>2, <1>3 DEF CauseInv
    <3>5. RestInv'
      <4> SUFFICES ASSUME refreshes' = 0 PROVE RestIn(goal)'
        BY <1>5 DEF RestInv
      <4>1. Outcomes(critical, target, pods, metrics) \subseteq goal
        BY <2>8, <2>9 DEF RestIn
      <4>2. rest = pods
        BY <3>2, <1>4
      <4>3. CASE out # {}
        <5>1. LowLatency(critical, target, rest, metrics) \subseteq goal
          BY <4>1, <4>2, <4>3, <3>2, <1>4 DEF Outcomes
        <5> QED
          BY <5>1, <4>3, <3>1, <2>2, <2>3, <1>2 DEF RestIn
      <4>4. CASE out = {}
        <5>1. Sheddable(critical, target, rest, metrics) \subseteq goal
          BY <4>1, <4>2, <4>4, <3>2 DEF Outcomes
        <5> QED
          BY <5>1, <4>4, <3>1, <2>2, <2>3, <1>2 DEF RestIn
      <4> QED
        BY <4>3, <4>4
    <3> QED
      BY <2>4, <3>3, <3>4, <3>5 DEF WalkInv
  <2>10. CASE node = "low"
    <3>1. kind = "low" /\ out = filtered /\ next = IF out # {} THEN "affinity" ELSE "queue3"
      BY <2>10, <1>1, TreeAt DEF kind
    <3>2. critical /\ admitted' = out
      BY <3>1, <2>10, <1>2, <1>3 DEF AdmitInv
    <3>3. AdmitInv'
      BY <3>1, <3>2, <2>3, <2>6, <1>2, <1>4 DEF AdmitInv
    <3>4. CauseInv'
      BY <3>1, <2>2, <2>3, <2>6, <2>7 DEF CauseInv
    <3>5. RestInv'
      <4> SUFFICES ASSUME refreshes' = 0 PROVE RestIn(goal)'
        BY <1>5 DEF RestInv
      <4>1. LowLatency(critical, target, pods, metrics) \subseteq goal
        BY <2>8, <2>10 DEF RestIn
      <4>2. out = {p \in pods : lowQueueing(metrics[p])}
        BY <3>1, <2>5, <2>8, <1>7
      <4>3. CASE out # {}
        <5>1. \A l \in Apply("lora", critical, target, rest, metrics) :
                  QueueAndKVCache(critical, target, PassOn(l, rest), metrics) \subseteq goal
          BY <4>1, <4>2, <4>3, <1>4 DEF LowLatency
        <5> QED
          BY <5>1, <4>3, <3>1, <2>2, <2>3, <1>2 DEF RestIn
      <4>4. CASE out = {}
        <5>1. QueueLoRAAndKVCache(critical, target, rest, metrics) \subseteq goal
          BY <4>1, <4>2, <4>4, <1>4 DEF LowLatency
        <5> QED
          BY <5>1, <4>4, <3>1, <2>2, <2>3, <1>2 DEF RestIn
      <4> QED
        BY <4>3, <4>4
    <3> QED
      BY <2>4, <3>3, <3>4, <3>5 DEF WalkInv
  <2>11. CASE node = "capacity"
    <3>1. kind = "capacity" /\ out = filtered /\ next = IF out # {} THEN "queue3" ELSE "drop"
      BY <2>11, <1>1, TreeAt DEF kind
    <3>2. admitted' = out
      BY <3>1, <1>2
    <3>3. AdmitInv'
      BY <3>1, <3>2, <2>3, <2>6, <1>2, <1>4 DEF AdmitInv
    <3>4. CauseInv'
      BY <3>1, <2>2, <2>3, <2>6, <2>7, <2>11, <1>2, <1>3 DEF CauseInv
    <3>5. RestInv'
      <4> SUFFICES ASSUME refreshes' = 0 PROVE RestIn(goal)'
        BY <1>5 DEF RestInv
      <4>1. Sheddable(critical, target, pods, metrics) \subseteq goal
        BY <2>8, <2>11 DEF RestIn
      <4>2. out = {p \in pods : hasCapacity(metrics[p], metrics[p])}
        BY <3>1, <2>5, <2>8, <1>7
      <4>3. CASE out # {}
        <5>1. QueueLoRAAndKVCache(critical, target, rest, metrics) \subseteq goal
          BY <4>1, <4>2, <4>3, <1>4 DEF Sheddable
        <5> QED
          BY <5>1, <4>3, <3>1, <2>2, <2>3, <1>2 DEF RestIn
      <4>4. CASE out = {}
        <5>1. {} \in goal
          BY <4>1, <4>2, <4>4 DEF Sheddable
        <5> QED
          BY <5>1, <4>4, <3>1, <2>2, <2>3, <1>2 DEF RestIn
      <4> QED
        BY <4>3, <4>4
    <3> QED
      BY <2>4, <3>3, <3>4, <3>5 DEF WalkInv
  <2>12. CASE node \in {"affinity", "queue2", "queue3", "lora3"}
    <3>1. /\ next \in {"queue2", "lora3", "kv"}
          /\ kind \in {"lora", "queue"} /\ admitted' = admitted
      <4>1. /\ Tree[node].ok \in {"queue2", "lora3", "kv"}
            /\ Tree[node].fail \in {"queue2", "lora3", "kv"}
        <5> HIDE DEF next
        <5> QED BY <2>12, TreeAt
      <4>2. kind \in {"lora", "queue"}
        BY <2>12, TreeAt DEF kind
      <4> QED
        BY <4>1, <4>2, <1>2
    <3>2. (critical /\ admitted = {}) \/ rest \subseteq admitted
      BY <2>12, <1>3, <1>4 DEF AdmitInv
    <3>3. AdmitInv'
      BY <3>1, <3>2, <2>3, <2>6, <1>2 DEF AdmitInv
    <3>4. CauseInv'
      BY <3>1, <2>2, <2>3, <2>6, <2>7 DEF CauseInv
    <3>5. RestInv'
      <4> SUFFICES ASSUME refreshes' = 0 PROVE RestIn(goal)'
        BY <1>5 DEF RestInv
      <4>1. CASE node = "affinity"
        <5>1. next = "queue2" /\ out \in Apply("lora", critical, target, pods, metrics)
          BY <4>1, <2>5, <2>8, <1>7, TreeAt DEF kind
        <5>2. QueueAndKVCache(critical, target, rest, metrics) \subseteq goal
          BY <5>1, <4>1, <2>8 DEF RestIn, rest
        <5> QED
          BY <5>1, <5>2, <2>2, <2>3, <1>2 DEF RestIn
      <4>2. CASE node = "queue2"
        <5>1. next = "kv" /\ out = leastQueuing(pods, metrics)
          BY <4>2, <2>5, <2>8, <1>7, TreeAt DEF kind
        <5>2. leastKVCache(rest, metrics) \in goal
          BY <5>1, <4>2, <2>8 DEF RestIn, rest, QueueAndKVCache
        <5> QED
          BY <5>1, <5>2, <2>2, <2>3, <1>2 DEF RestIn
      <4>3. CASE node = "queue3"
        <5>1. next = "lora3" /\ out = leastQueuing(pods, metrics)
          BY <4>3, <2>5, <2>8, <1>7, TreeAt DEF kind
        <5>2. \A l \in Apply("lora", critical, target, rest, metrics) :
                  leastKVCache(PassOn(l, rest), metrics) \in goal
          BY <5>1, <4>3, <2>8 DEF RestIn, rest, QueueLoRAAndKVCache
        <5> QED
          BY <5>1, <5>2, <2>2, <2>3, <1>2 DEF RestIn
      <4>4. CASE node = "lora3"
        <5>1. next = "kv" /\ out \in Apply("lora", critical, target, pods, metrics)
          BY <4>4, <2>5, <2>8, <1>7, TreeAt DEF kind
        <5>2. leastKVCache(rest, metrics) \in goal
          BY <5>1, <4>4, <2>8 DEF RestIn, rest
        <5> QED
          BY <5>1, <5>2, <2>2, <2>3, <1>2 DEF RestIn
      <4> QED
        BY <2>12, <4>1, <4>2, <4>3, <4>4
    <3> QED
      BY <2>4, <3>3, <3>4, <3>5 DEF WalkInv
  <2> QED
    BY <2>9, <2>10, <2>11, <2>12, <1>2, <1>11, TreeAt
<1> QED
  BY <1>10, <1>11

\* Schedule starts at the root of the tree with the pods of the store.
LEMMA WalkInit == Init => WalkInv
<1> SUFFICES ASSUME Init PROVE WalkInv
  OBVIOUS
<1> USE SchedulerAssumption, ConfigAssumption DEF Init
<1>1. node = "critical" /\ node \in DOMAIN Tree /\ kind = "critical" /\ node # NoNode /\ running
  BY TreeAt DEF kind, running
<1>2. WalkType
  BY <1>1 DEF WalkType
<1>3. Visited = {}
  BY DEF Visited
<1>4. LoopInv
  BY <1>1, <1>3 DEF LoopInv
<1>5. AdmitInv /\ CauseInv
  BY <1>1, <1>3 DEF AdmitInv, CauseInv, AdmittedOnly, FailsOnlyForCause, Done
<1>6. RestInv
  BY <1>1 DEF RestInv, RestIn
<1> QED
  BY <1>2, <1>4, <1>5, <1>6 DEF WalkInv

\* The walk keeps its invariants, whatever the refreshers do meanwhile.
THEOREM WalkInvCorrect == Spec => []WalkInv
<1>1. WalkInv /\ [Next]_svars => WalkInv'
  <2> SUFFICES ASSUME WalkInv, [Next]_svars PROVE WalkInv'
    OBVIOUS
  <2>1. CASE UNCHANGED svars
    <3> USE <2>1 DEF svars, request, locals, history
    <3>1. running' = running /\ kind' = kind /\ Visited' = Visited /\ (keeping' <=> keeping)
      BY DEF running, kind, Visited, keeping
    <3>2. WalkType'
      BY DEF WalkInv, WalkType
    <3>3. LoopInv'
      BY <3>1 DEF WalkInv, LoopInv, Extremes, Value, Field, Keeps, Steady, kind
    <3>4. AdmitInv'
      BY <3>1 DEF WalkInv, AdmitInv, AdmittedOnly, Done
    <3>5. CauseInv'
      BY <3>1 DEF WalkInv, CauseInv, FailsOnlyForCause, Done
    <3>6. RestInv'
      BY DEF WalkInv, RestInv, RestIn
    <3> QED
      BY <3>2, <3>3, <3>4, <3>5, <3>6 DEF WalkInv
  <2> QED
    BY <2>1, MinMaxStep, VisitStep, SecondPassStep, ReturnStep, RefreshStep DEF Next, Schedule
<1> QED
  BY <1>1, WalkInit, PTL DEF Spec

\* A request is placed on a pod that the low-queue or the capacity filter was
\* seen to keep: a sheddable one always, a critical one if there was such a pod.
THEOREM AdmittedOnlyCorrect == Spec => []AdmittedOnly
<1>1. WalkInv => AdmittedOnly
  BY DEF WalkInv, AdmitInv
<1> QED
  BY <1>1, WalkInvCorrect, PTL

\* Schedule fails only without a pod, without room for a sheddable request, or
\* because metrics changed while the kv cache filter ran.
THEOREM FailsOnlyForCauseCorrect == Spec => []FailsOnlyForCause
<1>1. WalkInv => FailsOnlyForCause
  BY DEF WalkInv, CauseInv
<1> QED
  BY <1>1, WalkInvCorrect, PTL

\* While no metrics change, the walk with its loops, its two passes and its
\* success and failure edges yields what the written-out cascade does.
THEOREM StableOutcomeCorrect == Spec => []StableOutcome
<1>1. WalkInv => StableOutcome
  BY DEF WalkInv, RestInv, RestIn, StableOutcome, Done, running
<1> QED
  BY <1>1, WalkInvCorrect, PTL
=============================================================================
