----------------------------- MODULE Scheduler -----------------------------
(***************************************************************************)
(* Scheduler.Schedule (pkg/epp/scheduling) as it runs: the filter tree is   *)
(* walked over the PodMetrics pointers PodGetAll returned, and every        *)
(* GetMetrics call in it loads the pod's current metrics, which refresher   *)
(* goroutines replace at any time.  A filter that looks at the pods twice   *)
(* may therefore see two different pictures.                                *)
(***************************************************************************)
EXTENDS Filters, Sequences

CONSTANTS
    Pod,
    Metric,        \* the metrics a pod may report
    Target,        \* resolved target models
    NoNode,        \* not a node of the tree
    MaxRefreshes   \* bound: metrics replaced during one Schedule

ASSUME SchedulerAssumption ==
    /\ \A x \in Metric : IsMetrics(x)
    /\ IsFiniteSet(Pod)
    /\ MaxRefreshes \in Nat
    /\ NoNode \notin DOMAIN Tree

VARIABLES
    store,      \* the pods PodGetAll returns
    metrics,    \* the metrics of each pod, as its refresher left them
    refreshes,  \* refreshes since the call began
    critical,   \* req.Critical
    target,     \* req.ResolvedTargetModel
    node,       \* the filter that runs
    pass,       \* its loop: 1 or 2
    pods,       \* its argument
    left,       \* the pods its loop has still to visit
    min, max,   \* locals of the least-filters
    filtered,   \* filtered, or filtered_affinity
    available,  \* filtered_available
    result,     \* the pods Filter returned, once node is NoNode
    admitted,   \* history: the pods the low-queue or capacity filter kept
    entered     \* history: refreshes when the current filter started

request == <<store, critical, target>>
locals == <<node, pass, pods, left, min, max, filtered, available>>
history == <<admitted, entered>>
svars == <<request, metrics, refreshes, locals, result, history>>

kind == Tree[node].kind
running == node # NoNode

TypeOK ==
    /\ store \subseteq Pod /\ result \subseteq store
    /\ metrics \in [Pod -> Metric]
    /\ refreshes \in 0..MaxRefreshes
    /\ critical \in BOOLEAN /\ target \in Target
    /\ node \in DOMAIN Tree \cup {NoNode}
    /\ pass \in 1..2
    /\ left \subseteq pods /\ filtered \subseteq pods /\ available \subseteq pods
    /\ pods \subseteq store
    /\ min \in 0..MaxInt /\ max \in 0..MaxInt
    /\ filtered \cap available = {}
    /\ admitted \subseteq store /\ entered \in 0..refreshes

(* The k loads of p's metrics in one loop iteration: the first sees the     *)
(* current value, and before each further one the refresher may store       *)
(* another.                                                                 *)
Changes(s) == Cardinality({i \in 2..Len(s) : s[i] # s[i-1]})

Loads(p, k) ==
    {s \in [1..k -> Metric] :
        /\ s[1] = metrics[p]
        /\ Changes(s) <= MaxRefreshes - refreshes}

Load(p, s) ==
    /\ metrics' = [metrics EXCEPT ![p] = s[Len(s)]]
    /\ refreshes' = refreshes + Changes(s)

-----------------------------------------------------------------------------
\* A filter function starts: its locals are fresh.
Enter(n, ps) ==
    /\ node' = n
    /\ pass' = 1
    /\ pods' = ps
    /\ left' = ps
    /\ min' = MaxInt
    /\ max' = 0
    /\ filtered' = {}
    /\ available' = {}
    /\ entered' = refreshes

\* The refresher of p stores what it scraped (UpdateMetrics).
Refresh(p) ==
    /\ running
    /\ refreshes < MaxRefreshes
    /\ \E x \in Metric \ {metrics[p]} : metrics' = [metrics EXCEPT ![p] = x]
    /\ refreshes' = refreshes + 1
    /\ UNCHANGED <<request, locals, result, history>>

\* Mutant: the kv cache filter was copied from the queue filter.
FieldQueue(x) == x.queue

\* The field a least-filter compares.
Field(x) == IF kind = "queue" THEN x.queue ELSE x.kv

\* One iteration of the loop of a least-filter that finds min and max.
MinMax(p) ==
    /\ running /\ kind \in {"queue", "kv"} /\ pass = 1
    /\ p \in left
    /\ left' = left \ {p}
    /\ \E s \in Loads(p, 4) :
        /\ Load(p, s)
        /\ min' = IF Field(s[1]) <= min THEN Field(s[2]) ELSE min
        /\ max' = IF Field(s[3]) >= max THEN Field(s[4]) ELSE max
    /\ UNCHANGED <<request, node, pass, pods, filtered, available, result, history>>

\* The second loop starts.
SecondPass ==
    /\ running /\ kind \in {"queue", "kv"} /\ pass = 1
    /\ left = {}
    /\ pass' = 2
    /\ left' = pods
    /\ UNCHANGED <<request, metrics, refreshes, node, pods, min, max, filtered,
                   available, result, history>>

\* One iteration of the loop that keeps pods: a predicate filter's only loop,
\* a least-filter's second.
Keeps(s) ==
    \/ kind = "critical" /\ critical
    \/ kind = "low" /\ lowQueueing(s[1])
    \/ kind = "capacity" /\ hasCapacity(s[1], s[2])
    \/ kind = "queue" /\ inFirstQueueRange(s[1], s[2], min, max, Cardinality(pods))
    \/ kind = "kv" /\ inFirstKVRange(s[1], s[2], min, max, Cardinality(pods))
    \/ kind = "lora" /\ hasAffinity(s[1], target)

keeping == kind # "drop" /\ (kind \in {"queue", "kv"} => pass = 2)

Visit(p) ==
    /\ running /\ keeping
    /\ p \in left
    /\ left' = left \ {p}
    /\ \E s \in Loads(p, 3) :
        /\ Load(p, s)
        /\ filtered' = IF Keeps(s) THEN filtered \cup {p} ELSE filtered
        /\ available' = IF kind = "lora" /\ ~Keeps(s) /\ hasRoom(s[2], s[3])
                        THEN available \cup {p} ELSE available
    /\ UNCHANGED <<request, node, pass, pods, min, max, result, history>>

\* The filter function returns and Filter goes on: with what it kept to the
\* next filter on success, with its own argument to the next on failure.
Returned ==
    IF kind = "lora" THEN softAffinity(filtered, available)
    ELSE IF kind = "drop" THEN {{}} ELSE {filtered}

\* Mutant: on failure the next filter gets all the pods of the store.
FilterNextFromStore(out) ==
    LET next == IF out # {} THEN Tree[node].ok ELSE Tree[node].fail
    IN IF next = "return"
       THEN /\ result' = out
            /\ node' = NoNode
            /\ UNCHANGED <<pass, pods, left, min, max, filtered, available, entered>>
       ELSE Enter(next, IF out = {} THEN store ELSE out) /\ UNCHANGED result

\* Mutant: a filter that keeps nothing passes nothing on.
FilterNextEmpty(out) ==
    LET next == IF out # {} THEN Tree[node].ok ELSE Tree[node].fail
    IN IF next = "return"
       THEN /\ result' = out
            /\ node' = NoNode
            /\ UNCHANGED <<pass, pods, left, min, max, filtered, available, entered>>
       ELSE Enter(next, out) /\ UNCHANGED result

FilterNext(out) ==
    LET next == IF out # {} THEN Tree[node].ok ELSE Tree[node].fail
    IN IF next = "return"
       THEN /\ result' = out
            /\ node' = NoNode
            /\ UNCHANGED <<pass, pods, left, min, max, filtered, available, entered>>
       ELSE Enter(next, PassOn(out, pods)) /\ UNCHANGED result

FilterReturns ==
    /\ running
    /\ kind = "drop" \/ (keeping /\ left = {})
    /\ \E out \in Returned : FilterNext(out)
    /\ admitted' = IF kind \in {"low", "capacity"} THEN filtered ELSE admitted
    /\ UNCHANGED <<request, metrics, refreshes>>

-----------------------------------------------------------------------------
\* Schedule is called: PodGetAll has returned store.
Init ==
    /\ store \in SUBSET Pod
    /\ metrics \in [Pod -> Metric]
    /\ refreshes = 0
    /\ critical \in BOOLEAN
    /\ target \in Target
    /\ node = "critical" /\ pass = 1 /\ pods = store /\ left = store
    /\ min = MaxInt /\ max = 0 /\ filtered = {} /\ available = {}
    /\ result = {} /\ admitted = {} /\ entered = 0

Schedule ==
    \/ \E p \in Pod : MinMax(p) \/ Visit(p)
    \/ SecondPass \/ FilterReturns

Next == Schedule \/ \E p \in Pod : Refresh(p)

Spec == Init /\ [][Next]_svars

-----------------------------------------------------------------------------
(* Properties.                                                              *)

Done == ~running

\* While no metrics change, the walk of the tree yields what the written-out
\* cascade of filters does.
StableOutcome ==
    Done /\ refreshes = 0 => result \in Outcomes(critical, target, store, metrics)

\* Whatever changes meanwhile, a request is placed on a pod that was seen to
\* have room: a sheddable one always, a critical one if there was such a pod.
AdmittedOnly ==
    Done /\ (~critical \/ admitted # {}) => result \subseteq admitted

\* Schedule fails only if there is no pod, if no pod has room for a sheddable
\* request, or because metrics changed while the last filter ran.
FailsOnlyForCause ==
    Done /\ result = {} =>
        \/ store = {}
        \/ ~critical /\ admitted = {}
        \/ refreshes > entered

\* scheduler.go:154: that the filters leave no pod for a critical request
\* "should never happen".
NeverEmpty == Done /\ critical /\ store # {} => result # {}
=============================================================================
