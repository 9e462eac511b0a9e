---------------------------- MODULE PodDatastore ----------------------------
(***************************************************************************)
(* The endpoints half of the EPP datastore: the pool pointer and the pods   *)
(* sync.Map of pkg/epp/datastore, the InferencePool and Pod reconcilers of  *)
(* pkg/epp/controller that fill them, and the life of the metrics refresher *)
(* goroutine that every stored PodMetrics owns (pkg/epp/backend/metrics).   *)
(*                                                                         *)
(* The two reconcilers run in goroutines of their own (controller-runtime   *)
(* gives each controller one worker), so everything between two accesses to *)
(* shared state is a step: pc, key and held are the locals of the worker.   *)
(* The API objects are what the informer cache holds; every change of one   *)
(* enqueues its key, as controller-runtime does.                            *)
(***************************************************************************)
EXTENDS Naturals, FiniteSets

CONSTANTS
    Pod,         \* namespaced names of pods
    Selectors,   \* pool selectors, each a set of labels
    PodLabels,   \* label sets a pod may carry
    IP,          \* pod addresses
    NoKey,       \* the key of a worker that handles no pod
    MaxPM,       \* bound: PodMetrics objects ever allocated
    MaxEvents,   \* bound: changes of API objects
    MaxFaults    \* bound: failing Get and List calls

ASSUME BoundsAssumption ==
    /\ MaxPM \in Nat
    /\ MaxEvents \in Nat
    /\ MaxFaults \in Nat

ASSUME DomainsAssumption ==
    /\ Pod # {}
    /\ Selectors # {}
    /\ PodLabels # {}
    /\ IP # {}
    /\ NoKey \notin Pod

VARIABLES
    cPool,    \* the InferencePool object in the informer cache
    cPod,     \* the Pod objects in the informer cache
    poolQ,    \* the pool's key is in its work queue
    podQ,     \* the pod keys in the pod work queue
    events,   \* changes of API objects so far
    faults,   \* failed Get and List calls so far
    dsPool,   \* datastore.pool (phase "absent" for nil)
    dsPods,   \* datastore.pods: the PodMetrics under each key, 0 for none
    nextPM,   \* the next PodMetrics to be allocated
    info,     \* PodMetrics.pod: the address it scrapes
    closed,   \* PodMetrics whose done channel is closed
    running,  \* PodMetrics whose refresher goroutine runs
    pc,       \* program counter of each worker
    key,      \* the pod a worker is handling
    held,     \* the PodMetrics pointer a worker holds, 0 for none
    addr,     \* the address in the pod a worker adds or updates
    podObj,   \* Pod reconciler: its copy of the pod
    poolObj,  \* pool reconciler: its copy of the pool
    listed,   \* PodResyncAll: listed ready pods (and addresses) not handled yet
    active,   \* PodResyncAll: activePods
    todo      \* PodResyncAll: keys that Range still visits

cluster == <<cPool, cPod, poolQ, podQ, events>>
store == <<dsPool, dsPods, nextPM, info, closed, running>>
worker == <<pc, key, held, addr>>
locals == <<podObj, poolObj, listed, active, todo>>
vars == <<cluster, faults, store, worker, locals>>

Worker == {"pod", "pool"}
PM == 1..MaxPM
Phase == {"absent", "live", "terminating"}
PoolObj == [phase : Phase, selector : Selectors]
PodObj == [phase : Phase, labels : PodLabels, ready : BOOLEAN, ip : IP]
NoIP == CHOOSE i \in IP : TRUE
NoPool == [phase |-> "absent", selector |-> CHOOSE s \in Selectors : TRUE]
NoPod == [phase |-> "absent", labels |-> CHOOSE l \in PodLabels : TRUE,
          ready |-> FALSE, ip |-> NoIP]

PC == {"idle", "get", "match", "load", "store", "delete", "stop",
       "apply", "list", "add", "range"}

\* Where a worker is handling the pod key[w].
Handling == {"get", "match", "load", "store", "delete", "stop"}

\* selectorFromInferencePoolSelector(..).Matches: every label of the selector
\* is on the pod.
Matches(selector, labels) == selector \subseteq labels

podIsReady(o) == o.ready

TypeOK ==
    /\ cPool \in PoolObj /\ dsPool \in PoolObj /\ poolObj \in PoolObj
    /\ cPod \in [Pod -> PodObj] /\ podObj \in PodObj
    /\ poolQ \in BOOLEAN /\ podQ \subseteq Pod
    /\ events \in 0..MaxEvents /\ faults \in 0..MaxFaults
    /\ dsPods \in [Pod -> 0..MaxPM]
    /\ nextPM \in 1..(MaxPM + 1)
    /\ info \in [PM -> IP]
    /\ closed \subseteq PM /\ running \subseteq PM
    /\ pc \in [Worker -> PC]
    /\ key \in [Worker -> Pod \cup {NoKey}]
    /\ held \in [Worker -> 0..MaxPM]
    /\ addr \in [Worker -> IP]
    /\ listed \subseteq Pod \X IP
    /\ active \subseteq Pod /\ todo \subseteq Pod
    /\ \A w \in Worker :
        /\ pc[w] \in Handling => key[w] \in Pod
        /\ pc[w] = "stop" => held[w] \in PM

-----------------------------------------------------------------------------
(* The cluster: API objects change and their keys are enqueued (external).  *)

PoolChange ==
    /\ events < MaxEvents
    /\ \E o \in PoolObj :
        /\ o # cPool
        /\ o.phase = "absent" => o = NoPool
        /\ o.phase = "terminating" => cPool.phase # "absent"
        /\ o.phase = "live" => cPool.phase # "terminating"
        /\ cPool' = o
    /\ poolQ' = TRUE
    /\ events' = events + 1
    /\ UNCHANGED <<cPod, podQ, faults, store, worker, locals>>

\* A pod keeps its address for life: a new one means a new pod of that name.
PodChange(p) ==
    /\ events < MaxEvents
    /\ \E o \in PodObj :
        /\ o # cPod[p]
        /\ o.phase = "absent" => o = NoPod
        /\ o.phase = "terminating" => cPod[p].phase # "absent"
        /\ o.phase = "live" => cPod[p].phase # "terminating"
        /\ (o.phase # "absent" /\ cPod[p].phase # "absent") => o.ip = cPod[p].ip
        /\ cPod' = [cPod EXCEPT ![p] = o]
    /\ podQ' = podQ \cup {p}
    /\ events' = events + 1
    /\ UNCHANGED <<cPool, poolQ, faults, store, worker, locals>>

-----------------------------------------------------------------------------
(* Steps of a worker.  A call that returns frees the worker's locals.       *)

Goto(w, label) == pc' = [pc EXCEPT ![w] = label]

\* Where PodUpdateOrAddIfNotExist and PodDelete return to.
Caller(w) ==
    IF w = "pod" THEN "idle" ELSE IF pc[w] = "store" THEN "add" ELSE "range"

Return(w) ==
    /\ pc' = [pc EXCEPT ![w] = Caller(w)]
    /\ key' = [key EXCEPT ![w] = NoKey]
    /\ held' = [held EXCEPT ![w] = 0]
    /\ addr' = [addr EXCEPT ![w] = NoIP]

(* PodUpdateOrAddIfNotExist: a Load, and a Store that does not check again. *)

\* Mutant: the value of an entry is looked up under a key that never matches.
PodLoadMisses(w) ==
    /\ pc[w] = "load"
    /\ held' = [held EXCEPT ![w] = 0]
    /\ Goto(w, "store")
    /\ UNCHANGED <<cluster, faults, store, key, addr, locals>>

PodLoad(w) ==
    /\ pc[w] = "load"
    /\ held' = [held EXCEPT ![w] = dsPods[key[w]]]
    /\ Goto(w, "store")
    /\ UNCHANGED <<cluster, faults, store, key, addr, locals>>

\* pods.Load missed: NewPodMetrics starts a refresher and Store publishes it;
\* UpdatePod, on the new PodMetrics, is still to come.
PodStoreNew(w) ==
    /\ pc[w] = "store"
    /\ held[w] = 0
    /\ nextPM <= MaxPM
    /\ dsPods' = [dsPods EXCEPT ![key[w]] = nextPM]
    /\ info' = [info EXCEPT ![nextPM] = addr[w]]
    /\ running' = running \cup {nextPM}
    /\ nextPM' = nextPM + 1
    /\ held' = [held EXCEPT ![w] = nextPM]
    /\ UNCHANGED <<cluster, faults, dsPool, closed, pc, key, addr, locals>>

\* Mutant: the PodMetrics that Load returned is stored again.
PodUpdateRestores(w) ==
    /\ pc[w] = "store"
    /\ held[w] # 0
    /\ dsPods' = [dsPods EXCEPT ![key[w]] = held[w]]
    /\ info' = [info EXCEPT ![held[w]] = addr[w]]
    /\ Return(w)
    /\ UNCHANGED <<cluster, faults, dsPool, nextPM, closed, running, locals>>

\* UpdatePod on the PodMetrics that Load returned or that was stored.
PodUpdate(w) ==
    /\ pc[w] = "store"
    /\ held[w] # 0
    /\ info' = [info EXCEPT ![held[w]] = addr[w]]
    /\ Return(w)
    /\ UNCHANGED <<cluster, faults, dsPool, dsPods, nextPM, closed, running, locals>>

(* PodDelete: LoadAndDelete, then StopRefreshLoop on what it returned.      *)

PodDeleteMiss(w) ==
    /\ pc[w] = "delete"
    /\ dsPods[key[w]] = 0
    /\ Return(w)
    /\ UNCHANGED <<cluster, faults, store, locals>>

\* Mutant: Load, with the Delete left for later.
PodDeleteLoads(w) ==
    /\ pc[w] = "delete"
    /\ dsPods[key[w]] # 0
    /\ held' = [held EXCEPT ![w] = dsPods[key[w]]]
    /\ Goto(w, "stop")
    /\ UNCHANGED <<cluster, faults, store, key, addr, locals>>

PodDelete(w) ==
    /\ pc[w] = "delete"
    /\ dsPods[key[w]] # 0
    /\ held' = [held EXCEPT ![w] = dsPods[key[w]]]
    /\ dsPods' = [dsPods EXCEPT ![key[w]] = 0]
    /\ Goto(w, "stop")
    /\ UNCHANGED <<cluster, faults, dsPool, nextPM, info, closed, running,
                   key, addr, locals>>

\* Mutant: the entry is dropped and its refresher is not told.
StopRefreshLoopSkipped(w) ==
    /\ pc[w] = "stop"
    /\ Return(w)
    /\ UNCHANGED <<cluster, faults, store, locals>>

StopRefreshLoop(w) ==
    /\ pc[w] = "stop"
    /\ closed' = closed \cup {held[w]}
    /\ Return(w)
    /\ UNCHANGED <<cluster, faults, dsPool, dsPods, nextPM, info, running, locals>>

\* startRefreshLoop: the goroutine sees done closed at the head of its loop.
RefresherExit(m) ==
    /\ m \in running \cap closed
    /\ running' = running \ {m}
    /\ UNCHANGED <<cluster, faults, dsPool, dsPods, nextPM, info, closed,
                   worker, locals>>

-----------------------------------------------------------------------------
(* The Pod reconciler.                                                      *)

\* Mutant: without a pool the key is put back at once.
PodReconcileRequeues(p) ==
    /\ pc["pod"] = "idle"
    /\ p \in podQ
    /\ IF dsPool.phase = "absent"
       THEN UNCHANGED <<pc, key, podQ>>
       ELSE /\ Goto("pod", "get")
            /\ key' = [key EXCEPT !["pod"] = p]
            /\ podQ' = podQ \ {p}
    /\ UNCHANGED <<cPool, cPod, poolQ, events, faults, store, held, addr, locals>>

\* PodReconciler.Reconcile: without a pool the key is dropped, not requeued.
PodReconcile(p) ==
    /\ pc["pod"] = "idle"
    /\ p \in podQ
    /\ podQ' = podQ \ {p}
    /\ IF dsPool.phase = "absent"
       THEN UNCHANGED <<pc, key>>
       ELSE Goto("pod", "get") /\ key' = [key EXCEPT !["pod"] = p]
    /\ UNCHANGED <<cPool, cPod, poolQ, events, faults, store, held, addr, locals>>

\* c.Get: NotFound deletes the entry.
PodGet ==
    /\ pc["pod"] = "get"
    /\ IF cPod[key["pod"]].phase = "absent"
       THEN Goto("pod", "delete") /\ UNCHANGED podObj
       ELSE Goto("pod", "match") /\ podObj' = cPod[key["pod"]]
    /\ UNCHANGED <<cluster, faults, store, key, held, addr, poolObj, listed,
                   active, todo>>

\* The worker returns an error: controller-runtime requeues the key.
Requeue ==
    /\ podQ' = podQ \cup {key["pod"]}
    /\ Return("pod")
    /\ UNCHANGED <<cPool, cPod, poolQ, events, store, poolObj, listed, active, todo>>

PodGetFails ==
    /\ pc["pod"] = "get"
    /\ faults < MaxFaults
    /\ faults' = faults + 1
    /\ Requeue
    /\ UNCHANGED podObj

\* PodReconciler.updateDatastore.  PoolLabelsMatch dereferences the pool it
\* reads now, which may be nil again: the panic is recovered by
\* controller-runtime (RecoverPanic defaults to true) and counts as an error.
PodMatchPanics ==
    /\ pc["pod"] = "match"
    /\ podObj.phase = "live"
    /\ dsPool.phase = "absent"
    /\ podObj' = NoPod
    /\ Requeue
    /\ UNCHANGED faults

PodMatch ==
    /\ pc["pod"] = "match"
    /\ podObj.phase = "live" => dsPool.phase # "absent"
    /\ IF \/ podObj.phase = "terminating"
          \/ ~Matches(dsPool.selector, podObj.labels)
          \/ ~podIsReady(podObj)
       THEN Goto("pod", "delete") /\ UNCHANGED addr
       ELSE Goto("pod", "load") /\ addr' = [addr EXCEPT !["pod"] = podObj.ip]
    /\ podObj' = NoPod
    /\ UNCHANGED <<cluster, faults, store, key, held, poolObj, listed, active, todo>>

-----------------------------------------------------------------------------
(* The InferencePool reconciler.                                            *)

\* InferencePoolReconciler.Reconcile: the pool as the cache has it.
PoolReconcile ==
    /\ pc["pool"] = "idle"
    /\ poolQ
    /\ poolQ' = FALSE
    /\ poolObj' = cPool
    /\ Goto("pool", "apply")
    /\ UNCHANGED <<cPool, cPod, podQ, events, faults, store, key, held, addr,
                   podObj, listed, active, todo>>

PoolGetFails ==
    /\ pc["pool"] = "idle"
    /\ poolQ
    /\ faults < MaxFaults
    /\ faults' = faults + 1
    /\ UNCHANGED <<cluster, store, worker, locals>>

\* Clear: the map is emptied, the refreshers of its values are not stopped.
Clear ==
    /\ pc["pool"] = "apply"
    /\ poolObj.phase # "live"
    /\ dsPool' = NoPool
    /\ dsPods' = [p \in Pod |-> 0]
    /\ poolObj' = NoPool
    /\ Goto("pool", "idle")
    /\ UNCHANGED <<cluster, faults, nextPM, info, closed, running, key, held,
                   addr, podObj, listed, active, todo>>

\* Mutant: only the first pool is followed by a resync.
NeedsResyncFirst(old, new) == old.phase = "absent"

\* InferencePoolReconciler.updateDatastore: PoolGet, PoolSet, and a resync
\* when there was no pool or the selector differs.
NeedsResync(old, new) == old.phase = "absent" \/ old.selector # new.selector

PoolSet ==
    /\ pc["pool"] = "apply"
    /\ poolObj.phase = "live"
    /\ dsPool' = poolObj
    /\ Goto("pool", IF NeedsResync(dsPool, poolObj) THEN "list" ELSE "idle")
    /\ poolObj' = IF NeedsResync(dsPool, poolObj) THEN poolObj ELSE NoPool
    /\ UNCHANGED <<cluster, faults, dsPods, nextPM, info, closed, running, key,
                   held, addr, podObj, listed, active, todo>>

\* PodResyncAll: the cached list, filtered by selector and readiness only.
Listable(p) ==
    /\ cPod[p].phase # "absent"
    /\ Matches(poolObj.selector, cPod[p].labels)
    /\ podIsReady(cPod[p])

PodResyncAll ==
    /\ pc["pool"] = "list"
    /\ listed' = {<<p, cPod[p].ip>> : p \in {q \in Pod : Listable(q)}}
    /\ active' = {p \in Pod : Listable(p)}
    /\ poolObj' = NoPool
    /\ Goto("pool", "add")
    /\ UNCHANGED <<cluster, faults, store, key, held, addr, podObj, todo>>

\* The list fails: logged, and the reconcile still succeeds.
PodListFails ==
    /\ pc["pool"] = "list"
    /\ faults < MaxFaults
    /\ faults' = faults + 1
    /\ poolObj' = NoPool
    /\ Goto("pool", "idle")
    /\ UNCHANGED <<cluster, store, key, held, addr, podObj, listed, active, todo>>

ResyncAdd(p, i) ==
    /\ pc["pool"] = "add"
    /\ <<p, i>> \in listed
    /\ listed' = listed \ {<<p, i>>}
    /\ key' = [key EXCEPT !["pool"] = p]
    /\ addr' = [addr EXCEPT !["pool"] = i]
    /\ Goto("pool", "load")
    /\ UNCHANGED <<cluster, faults, store, held, podObj, poolObj, active, todo>>

\* pods.Range visits every key present throughout the call, and may visit a
\* key that is stored while it runs.
ResyncRange ==
    /\ pc["pool"] = "add"
    /\ listed = {}
    /\ \E late \in SUBSET {p \in Pod : dsPods[p] = 0} :
        todo' = (late \cup {p \in Pod : dsPods[p] # 0}) \ active
    /\ active' = {}
    /\ Goto("pool", "range")
    /\ UNCHANGED <<cluster, faults, store, key, held, addr, podObj, poolObj, listed>>

ResyncDelete(p) ==
    /\ pc["pool"] = "range"
    /\ p \in todo
    /\ todo' = todo \ {p}
    /\ key' = [key EXCEPT !["pool"] = p]
    /\ Goto("pool", "delete")
    /\ UNCHANGED <<cluster, faults, store, held, addr, podObj, poolObj, listed, active>>

ResyncDone ==
    /\ pc["pool"] = "range"
    /\ todo = {}
    /\ Goto("pool", "idle")
    /\ UNCHANGED <<cluster, faults, store, key, held, addr, locals>>

-----------------------------------------------------------------------------
\* The process starts with an empty store and every existing key enqueued.
Init ==
    /\ cPool \in {o \in PoolObj : o.phase = "absent" => o = NoPool}
    /\ cPod \in [Pod -> {o \in PodObj : o.phase = "absent" => o = NoPod}]
    /\ poolQ = (cPool.phase # "absent")
    /\ podQ = {p \in Pod : cPod[p].phase # "absent"}
    /\ events = 0 /\ faults = 0
    /\ dsPool = NoPool
    /\ dsPods = [p \in Pod |-> 0]
    /\ nextPM = 1
    /\ info = [m \in PM |-> NoIP]
    /\ closed = {} /\ running = {}
    /\ pc = [w \in Worker |-> "idle"]
    /\ key = [w \in Worker |-> NoKey]
    /\ held = [w \in Worker |-> 0]
    /\ addr = [w \in Worker |-> NoIP]
    /\ podObj = NoPod /\ poolObj = NoPool
    /\ listed = {} /\ active = {} /\ todo = {}

Environment == PoolChange \/ \E p \in Pod : PodChange(p)

StoreOps(w) ==
    \/ PodLoad(w) \/ PodStoreNew(w) \/ PodUpdate(w)
    \/ PodDeleteMiss(w) \/ PodDelete(w) \/ StopRefreshLoop(w)

PodWorker ==
    \/ \E p \in Pod : PodReconcile(p)
    \/ PodGet \/ PodGetFails \/ PodMatch \/ PodMatchPanics
    \/ StoreOps("pod")

PoolWorker ==
    \/ PoolReconcile \/ PoolGetFails \/ Clear \/ PoolSet
    \/ PodResyncAll \/ PodListFails
    \/ \E p \in Pod, i \in IP : ResyncAdd(p, i)
    \/ ResyncRange \/ ResyncDone
    \/ \E p \in Pod : ResyncDelete(p)
    \/ StoreOps("pool")

Next == Environment \/ PodWorker \/ PoolWorker \/ \E m \in PM : RefresherExit(m)

\* Worker goroutines and refreshers are scheduled by the Go runtime; API
\* objects need not change.
Fairness ==
    /\ WF_vars(PodWorker)
    /\ WF_vars(PoolWorker)
    /\ \A m \in PM : WF_vars(RefresherExit(m))

Spec == Init /\ [][Next]_vars
FairSpec == Spec /\ Fairness

-----------------------------------------------------------------------------
(* Properties.                                                              *)

Stored == {dsPods[p] : p \in Pod} \ {0}

Quiescent ==
    /\ ~poolQ /\ podQ = {}
    /\ \A w \in Worker : pc[w] = "idle"

\* What pod_reconciler.updateDatastore accepts, for the pool of the cluster.
Eligible(p) ==
    /\ cPool.phase = "live"
    /\ cPod[p].phase = "live"
    /\ Matches(cPool.selector, cPod[p].labels)
    /\ podIsReady(cPod[p])

\* StopRefreshLoop closes a channel, and closing it twice panics: whoever is
\* about to stop a refresher is the only one that ever will, however the Pod
\* reconciler's PodDelete and PodResyncAll's interleave on one key.
CloseOnce ==
    /\ \A w \in Worker : pc[w] = "stop" => held[w] \in running \ closed
    /\ \A v, w \in Worker :
        (v # w /\ pc[v] = "stop" /\ pc[w] = "stop") => held[v] # held[w]

\* A stored PodMetrics has a running refresher that nobody has stopped (the
\* scheduler never reads metrics that no longer change), and no two keys
\* share one.
StoredRefreshes ==
    /\ Stored \subseteq running \ closed
    /\ \A p, q \in Pod : (p # q /\ dsPods[p] # 0) => dsPods[p] # dsPods[q]

\* The refresher of m runs, it is not told to stop and nobody is about to.
Orphan(m) ==
    /\ m \in running \ closed /\ m \notin Stored
    /\ \A w \in Worker : pc[w] = "stop" => held[w] # m

\* The entry of m goes without a stop: Clear drops it, or a Store replaces it
\* whose Load had found none.
Dropped(m) ==
    \E p \in Pod :
        /\ dsPods[p] = m
        /\ \/ dsPool'.phase = "absent" /\ pc["pool"] = "apply" /\ pc'["pool"] = "idle"
           \/ \E w \in Worker :
                /\ pc[w] = "store" /\ key[w] = p /\ held[w] = 0
                /\ dsPods'[p] = held'[w]

LeakStep(m) ==
    /\ Orphan(m) => Orphan(m)'
    /\ ~Orphan(m) /\ Orphan(m)' => Dropped(m)

\* A refresher goroutine leaks in two ways only: Clear drops the entry of its
\* PodMetrics, or a Store replaces the entry after a Load that found none, which
\* the other reconciler overtook.  What has leaked stays: no later PodDelete,
\* resync or Clear ever stops it.
LeaksByClearOrOvertaken == [][\A m \in PM : LeakStep(m)]_vars

\* Once API objects stop changing, both work queues drain: no requeue, panic
\* and resync keep each other busy for ever.
EventuallyQuiescent == <>[]Quiescent

\* inferencepool_reconciler.go:80-82: a resync after a selector change leaves
\* no pod in the store that the new selector does not match.
StoreMatchesSelector ==
    Quiescent => \A p \in Pod :
        (dsPods[p] # 0 /\ dsPool.phase = "live" /\ cPod[p].phase = "live")
            => Matches(dsPool.selector, cPod[p].labels)

\* pod_reconciler.go:46: a pod that was skipped while there was no pool is
\* added when the pool is initialized.
PoolInitPopulates ==
    Quiescent => \A p \in Pod : Eligible(p) => dsPods[p] # 0

\* pod_metrics.go:121-123: a refresher whose pod was deleted is soon stopped,
\* so with no pod left in the store none goes on.
DeletedPodRefresherStops == <>[](Stored = {}) => <>[](running = {})
=============================================================================
