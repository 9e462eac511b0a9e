------------------------------ MODULE Filters ------------------------------
(***************************************************************************)
(* The scheduler's filter functions and its filter tree (pkg/epp/           *)
(* scheduling), as operators on a set of pods and on the metrics m each pod *)
(* has while the filter runs.  Scheduler runs the same tree step by step,   *)
(* with metrics that change underneath it.                                  *)
(***************************************************************************)
EXTENDS Integers, FiniteSets

CONSTANTS
    KVCacheThreshold,        \* Config, kv usage in the unit of the metrics
    QueueThresholdCritical,
    QueueingThresholdLoRA,
    MaxInt                   \* the largest value of a queue or kv usage

ASSUME ConfigAssumption ==
    /\ KVCacheThreshold \in Nat
    /\ QueueThresholdCritical \in Nat
    /\ QueueingThresholdLoRA \in Nat
    /\ MaxInt \in Nat

\* Metrics: waiting queue, kv cache usage, active adapters, adapter slots.
IsMetrics(x) ==
    /\ x.queue \in 0..MaxInt /\ x.kv \in 0..MaxInt /\ x.max \in Nat
    /\ IsFiniteSet(x.active)

(* Predicates on one pod.  x and y are what successive GetMetrics calls     *)
(* return.                                                                  *)
lowQueueing(x) == x.queue < QueueingThresholdLoRA

hasCapacity(x, y) ==
    x.queue <= QueueThresholdCritical /\ y.kv <= KVCacheThreshold

hasAffinity(x, target) == target \in x.active

hasRoom(x, y) == Cardinality(x.active) < y.max

(* Go divides integers towards zero. *)
Quotient(a, n) == IF a >= 0 THEN a \div n ELSE -((-a) \div n)

(* The first of n equal ranges between min and max: integer division for    *)
(* queues, exact (floating point) division for the kv cache.                *)
inFirstQueueRange(x, y, min, max, n) ==
    x.queue >= min /\ y.queue <= min + Quotient(max - min, n)

inFirstKVRange(x, y, min, max, n) ==
    x.kv >= min /\ (y.kv - min) * n <= max - min

Least(f, pods) == CHOOSE v \in {f[p] : p \in pods} : \A p \in pods : v <= f[p]
Most(f, pods) == CHOOSE v \in {f[p] : p \in pods} : \A p \in pods : f[p] <= v

leastQueuing(pods, m) ==
    LET q == [p \in pods |-> m[p].queue]
    IN {p \in pods : inFirstQueueRange(m[p], m[p], Least(q, pods),
                                       Most(q, pods), Cardinality(pods))}

leastKVCache(pods, m) ==
    LET k == [p \in pods |-> m[p].kv]
    IN {p \in pods : inFirstKVRange(m[p], m[p], Least(k, pods),
                                    Most(k, pods), Cardinality(pods))}

\* loRASoftAffinityFilter: the group is drawn when both have pods.
softAffinity(affinity, available) ==
    IF affinity # {} /\ available # {} THEN {affinity, available}
    ELSE IF affinity # {} THEN {affinity} ELSE {available}

(* The tree.  ok: the filter to run on success, on the filtered pods; fail: *)
(* the one on failure, on the filter's own input; "return" ends the walk.   *)
Tree ==
    [critical  |-> [kind |-> "critical", ok |-> "low",      fail |-> "capacity"],
     low       |-> [kind |-> "low",      ok |-> "affinity", fail |-> "queue3"],
     affinity  |-> [kind |-> "lora",     ok |-> "queue2",   fail |-> "queue2"],
     queue2    |-> [kind |-> "queue",    ok |-> "kv",       fail |-> "kv"],
     queue3    |-> [kind |-> "queue",    ok |-> "lora3",    fail |-> "lora3"],
     lora3     |-> [kind |-> "lora",     ok |-> "kv",       fail |-> "kv"],
     kv        |-> [kind |-> "kv",       ok |-> "return",   fail |-> "return"],
     capacity  |-> [kind |-> "capacity", ok |-> "queue3",   fail |-> "drop"],
     drop      |-> [kind |-> "drop",     ok |-> "return",   fail |-> "return"]]

\* What one filter function can return for pods, with stable metrics.
Apply(kind, critical, target, pods, m) ==
    CASE kind = "critical" -> {IF critical THEN pods ELSE {}}
      [] kind = "low"      -> {{p \in pods : lowQueueing(m[p])}}
      [] kind = "capacity" -> {{p \in pods : hasCapacity(m[p], m[p])}}
      [] kind = "queue"    -> {leastQueuing(pods, m)}
      [] kind = "kv"       -> {leastKVCache(pods, m)}
      [] kind = "lora"     ->
            softAffinity({p \in pods : hasAffinity(m[p], target)},
                         {p \in pods : /\ ~hasAffinity(m[p], target)
                                       /\ hasRoom(m[p], m[p])})
      [] kind = "drop"     -> {{}}

\* The pods the rest of the walk runs on after a filter returned out.
PassOn(out, pods) == IF out = {} THEN pods ELSE out

(* The two tails of the tree and the whole of it, written out: the sets the *)
(* scheduler may draw from ({}: the request is dropped).                    *)
QueueAndKVCache(c, t, pods, m) ==
    LET q == PassOn(leastQueuing(pods, m), pods) IN {leastKVCache(q, m)}

QueueLoRAAndKVCache(c, t, pods, m) ==
    LET q == PassOn(leastQueuing(pods, m), pods)
    IN {leastKVCache(PassOn(l, q), m) : l \in Apply("lora", c, t, q, m)}

LowLatency(c, t, pods, m) ==
    LET low == {p \in pods : lowQueueing(m[p])}
    IN IF low = {} THEN QueueLoRAAndKVCache(c, t, pods, m)
       ELSE UNION {QueueAndKVCache(c, t, PassOn(l, low), m) :
                      l \in Apply("lora", c, t, low, m)}

Sheddable(c, t, pods, m) ==
    LET cap == {p \in pods : hasCapacity(m[p], m[p])}
    IN IF cap = {} THEN {{}} ELSE QueueLoRAAndKVCache(c, t, cap, m)

Outcomes(critical, target, pods, m) ==
    IF critical /\ pods # {} THEN LowLatency(critical, target, pods, m)
    ELSE Sheddable(critical, target, pods, m)
=============================================================================
