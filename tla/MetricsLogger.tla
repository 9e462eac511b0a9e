---------------------------- MODULE MetricsLogger ----------------------------
(***************************************************************************)
(* The goroutine of StartMetricsLogger (pkg/epp/backend/metrics/logger.go)  *)
(* that flushes the gauges of the pool, composed with DatastoreLock: it is  *)
(* one of the readers, and its PoolGet waits for the lock like any other.   *)
(* PodGetAll ranges over a sync.Map without a lock while the reconcilers    *)
(* store and delete pods.  Of the three gauges the number of pods is kept.  *)
(***************************************************************************)
EXTENDS DatastoreLock, FiniteSets

CONSTANTS
    Flusher,    \* the goroutine, one of the readers
    Pods        \* the pods that may be stored

ASSUME LoggerAssumption == Flusher \in Reader /\ IsFiniteSet(Pods)

VARIABLES
    pods,       \* the keys of ds.pods
    cancelled,  \* the context of the ext-proc runnable has ended
    flusher,    \* where the goroutine is
    stay,       \* pods in the map since the range began
    ever,       \* pods in the map at some time since then
    count,      \* podTotalCount
    ready       \* the gauge inference_pool_ready_pods

loggerVars == <<lvars, pods, cancelled, flusher, stay, ever, count, ready>>

LoggerTypeOK ==
    /\ LockTypeOK
    /\ pods \subseteq Pods
    /\ cancelled \in BOOLEAN
    /\ flusher \in {"check", "get", "range", "record", "off"}
    /\ stay \subseteq ever /\ ever \subseteq Pods
    /\ count \in Nat /\ ready \in Nat

LoggerInit ==
    /\ LockInit
    /\ pods = {} /\ cancelled = FALSE
    /\ flusher = "check" /\ stay = {} /\ ever = {}
    /\ count = 0 /\ ready = 0

-----------------------------------------------------------------------------
(* The rest of the process.                                                 *)

\* The map changes, perhaps while PodGetAll ranges over it.
Ranged ==
    /\ stay' = stay \cap pods'
    /\ ever' = IF flusher = "range" THEN ever \cup pods' ELSE ever

\* PodUpdateOrAddIfNotExist and PodDelete, which take no lock.
StoreOrDelete ==
    /\ \E p \in Pods : pods' = IF p \in pods THEN pods \ {p} ELSE pods \cup {p}
    /\ Ranged
    /\ UNCHANGED <<lvars, cancelled, flusher, count, ready>>

\* Clear removes the pool and the pods; another write leaves the pods alone.
Reconcile(w) ==
    /\ Write(w)
    /\ \/ ~pool' /\ pods' = {}
       \/ (pool' \/ ~pool) /\ pods' = pods
    /\ Ranged
    /\ UNCHANGED <<cancelled, flusher, count, ready>>

\* The other goroutines, up to a writer's turn.
Others ==
    /\ \/ \E r \in Reader \ {Flusher} : CallRead(r) \/ ReaderStep(r)
       \/ \E w \in Writer : CallWrite(w) \/ Lock(w) \/ Drain(w)
    /\ UNCHANGED <<pods, cancelled, flusher, stay, ever, count, ready>>

Cancel ==
    /\ cancelled' = TRUE
    /\ UNCHANGED <<lvars, pods, flusher, stay, ever, count, ready>>

-----------------------------------------------------------------------------
(* The goroutine.                                                           *)

\* The loop looks at its context, sleeps and calls PoolGet: a round that has
\* begun goes on.
FlusherWakes ==
    /\ flusher = "check"
    /\ IF cancelled THEN flusher' = "off" /\ UNCHANGED lvars
       ELSE flusher' = "get" /\ Call(Flusher, "PoolGet")
    /\ UNCHANGED <<pods, cancelled, stay, ever, count, ready>>

FlusherLocks ==
    /\ RLock(Flusher) \/ PoolHasSynced(Flusher)
    /\ UNCHANGED <<pods, cancelled, flusher, stay, ever, count, ready>>

\* Without a pool the round is over; with one the range over the pods begins.
FlusherPoolGet ==
    /\ PoolGet(Flusher)
    /\ IF Returned(Flusher) = "error" THEN flusher' = "check" /\ UNCHANGED <<stay, ever>>
       ELSE flusher' = "range" /\ stay' = pods /\ ever' = pods
    /\ UNCHANGED <<pods, cancelled, count, ready>>

\* PodGetAll sees the pods that stay and any of those that come or go while it
\* ranges.  Without pods the round is over and the gauge keeps its value.
PodGetAll ==
    /\ flusher = "range"
    /\ \E S \in SUBSET ever :
        /\ stay \subseteq S
        /\ flusher' = IF S = {} THEN "check" ELSE "record"
        /\ count' = Cardinality(S)
    /\ stay' = {} /\ ever' = {}
    /\ UNCHANGED <<lvars, pods, cancelled, ready>>

\* Mutant: the gauge only rises.
RecordKeepsMost ==
    /\ flusher = "record" /\ flusher' = "check"
    /\ ready' = (IF count > ready THEN count ELSE ready) /\ count' = 0
    /\ UNCHANGED <<lvars, pods, cancelled, stay, ever>>

RecordinferencePoolReadyPods ==
    /\ flusher = "record" /\ flusher' = "check"
    /\ ready' = count /\ count' = 0
    /\ UNCHANGED <<lvars, pods, cancelled, stay, ever>>

Flush ==
    \/ FlusherWakes \/ FlusherLocks \/ FlusherPoolGet
    \/ PodGetAll \/ RecordinferencePoolReadyPods

LoggerNext ==
    \/ Flush \/ Others \/ StoreOrDelete \/ Cancel
    \/ \E w \in Writer : Reconcile(w)

LoggerSpec == LoggerInit /\ [][LoggerNext]_loggerVars

(* A goroutine inside a call goes on, the flusher makes its rounds, and of   *)
(* several writers each gets its turn (sync.Mutex hands itself over to a    *)
(* waiter that starves).  Nobody else has to make a call.                   *)
LoggerFairSpec ==
    /\ LoggerSpec
    /\ WF_loggerVars(Flush)
    /\ \A r \in Reader \ {Flusher} : WF_loggerVars(Others /\ ReaderStep(r))
    /\ \A w \in Writer : /\ WF_loggerVars((Others /\ Drain(w)) \/ Reconcile(w))
                         /\ SF_loggerVars(Others /\ Lock(w))

-----------------------------------------------------------------------------
(* Properties.                                                              *)

\* Whatever the ranges saw while pods came and went, the gauge comes to show
\* the number of pods once they rest and there are any: it falls with them as
\* it rises (flushPrometheusMetricsOnce).  The goroutine must not be stopped,
\* nor caught behind a writer in PoolGet.
GaugesSettle ==
    (/\ <>[][UNCHANGED pods]_loggerVars
     /\ <>[](pool /\ pods # {} /\ ~cancelled /\ ~NestedWait))
        => <>[](ready = Cardinality(pods))

\* metrics.go:159: the gauge is "The number of ready pods in the inference
\* server pool", also when there are none.
GaugeFallsToZero ==
    <>[](pool /\ pods = {} /\ ~cancelled /\ ~NestedWait) => <>[](ready = 0)
=============================================================================
