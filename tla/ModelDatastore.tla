--------------------------- MODULE ModelDatastore ---------------------------
(***************************************************************************)
(* The models half of the EPP datastore (pkg/epp/datastore) and the         *)
(* InferenceModel reconciler that fills it.  Several InferenceModel objects *)
(* may carry one modelName; the store keeps one object per name and tries   *)
(* to keep the oldest.  The pool pointer is here only as far as the model   *)
(* operations depend on it: PoolSet and Clear are the pool reconciler's     *)
(* (PodDatastore has the whole of it).                                      *)
(***************************************************************************)
EXTENDS Naturals, FiniteSets

CONSTANTS
    Obj,         \* namespaced names of InferenceModel objects
    Name,        \* values of Spec.ModelName
    NoObj,       \* not an object name
    MaxEvents,   \* bound: changes of InferenceModel objects
    MaxPool,     \* bound: times the pool is set or cleared
    MaxFaults    \* bound: failing Get and List calls

ASSUME ModelBoundsAssumption ==
    /\ MaxEvents \in Nat
    /\ MaxPool \in Nat
    /\ MaxFaults \in Nat

ASSUME ModelDomainsAssumption == Name # {} /\ NoObj \notin Obj

VARIABLES
    cModel,    \* the InferenceModel objects in the informer cache
    clock,     \* the API server's clock, in the seconds timestamps have
    modelQ,    \* keys in the model work queue
    events,    \* changes of objects so far
    pools,     \* times the pool was set or cleared so far
    faults,    \* failed Get and List calls so far
    hasPool,   \* datastore.pool is not nil
    models,    \* datastore.models
    mpc,       \* the reconciler's program counter
    mKey,      \* the key it handles
    mObj,      \* its copy of the object
    mName      \* handleModelDeleted: the name to resync

clusterM == <<cModel, clock, modelQ, events>>
bounds == <<pools, faults>>
workerM == <<mpc, mKey, mObj, mName>>
mvars == <<clusterM, bounds, hasPool, models, workerM>>

Time == 0..MaxEvents
NoName == CHOOSE n \in Name : TRUE
Model == [phase : {"absent", "live", "terminating"}, name : Name, ts : Time,
          mine : BOOLEAN]
Entry == [obj : Obj, name : Name, ts : Time]
NoModel == [phase |-> "absent", name |-> NoName, ts |-> 0, mine |-> FALSE]
NoEntry == [obj |-> NoObj, name |-> NoName, ts |-> 0]

TypeOK ==
    /\ cModel \in [Obj -> Model] /\ mObj \in Model
    /\ clock \in Time
    /\ modelQ \subseteq Obj
    /\ events \in 0..MaxEvents /\ pools \in 0..MaxPool /\ faults \in 0..MaxFaults
    /\ hasPool \in BOOLEAN
    /\ models \in [Name -> Entry \cup {NoEntry}]
    /\ mpc \in {"idle", "apply", "resync"}
    /\ mKey \in Obj \cup {NoObj}
    /\ mName \in Name
    /\ mpc # "idle" => mKey \in Obj

-----------------------------------------------------------------------------
(* The cluster (external).  modelName is immutable and a creation timestamp *)
(* is the time of creation; metav1.Time has seconds, so two objects can     *)
(* share one.                                                               *)

\* eventPredicate, as SetupWithManager applies it to the old and the new object.
eventPredicate(m) == m.phase # "absent" /\ m.mine

\* Mutant: only the new object decides whether an event is handled.
ObserveNewOnly(o, new) ==
    /\ events < MaxEvents
    /\ events' = events + 1
    /\ cModel' = [cModel EXCEPT ![o] = new]
    /\ modelQ' = IF eventPredicate(new) THEN modelQ \cup {o} ELSE modelQ
    /\ UNCHANGED <<bounds, hasPool, models, workerM>>

Observe(o, new) ==
    /\ events < MaxEvents
    /\ events' = events + 1
    /\ cModel' = [cModel EXCEPT ![o] = new]
    /\ modelQ' = IF eventPredicate(cModel[o]) \/ eventPredicate(new)
                 THEN modelQ \cup {o} ELSE modelQ
    /\ UNCHANGED <<bounds, hasPool, models, workerM>>

ModelCreated(o) ==
    /\ cModel[o].phase = "absent"
    /\ \E n \in Name, b \in BOOLEAN, t \in {clock, clock + 1} :
        /\ clock' = t
        /\ Observe(o, [phase |-> "live", name |-> n, ts |-> t, mine |-> b])

PoolRefChanged(o) ==
    /\ cModel[o].phase # "absent"
    /\ Observe(o, [cModel[o] EXCEPT !.mine = ~@])
    /\ UNCHANGED clock

ModelTerminating(o) ==
    /\ cModel[o].phase = "live"
    /\ Observe(o, [cModel[o] EXCEPT !.phase = "terminating"])
    /\ UNCHANGED clock

ModelRemoved(o) ==
    /\ cModel[o].phase # "absent"
    /\ Observe(o, NoModel)
    /\ UNCHANGED clock

-----------------------------------------------------------------------------
(* The pool reconciler's effect on the models.                              *)

PoolSet ==
    /\ ~hasPool
    /\ pools < MaxPool
    /\ pools' = pools + 1
    /\ hasPool' = TRUE
    /\ UNCHANGED <<clusterM, faults, models, workerM>>

Clear ==
    /\ hasPool
    /\ pools < MaxPool
    /\ pools' = pools + 1
    /\ hasPool' = FALSE
    /\ models' = [n \in Name |-> NoEntry]
    /\ UNCHANGED <<clusterM, faults, workerM>>

-----------------------------------------------------------------------------
(* The InferenceModel reconciler.                                           *)

Finish ==
    /\ mpc' = "idle"
    /\ mKey' = NoObj
    /\ mObj' = NoModel
    /\ mName' = NoName

\* Mutant: a key is requeued also when Reconcile succeeds.
ModelReconcileRequeues(o) ==
    /\ mpc = "idle"
    /\ o \in modelQ
    /\ mKey' = o
    /\ mObj' = cModel[o]
    /\ mpc' = "apply"
    /\ UNCHANGED <<clusterM, bounds, hasPool, models, mName>>

ModelReconcile(o) ==
    /\ mpc = "idle"
    /\ o \in modelQ
    /\ modelQ' = modelQ \ {o}
    /\ mKey' = o
    /\ mObj' = cModel[o]
    /\ mpc' = "apply"
    /\ UNCHANGED <<cModel, clock, events, bounds, hasPool, models, mName>>

ModelGetFails ==
    /\ mpc = "idle"
    /\ modelQ # {}
    /\ faults < MaxFaults
    /\ faults' = faults + 1
    /\ UNCHANGED <<clusterM, pools, hasPool, models, workerM>>

Ours(m) == m.phase = "live" /\ m.mine

\* ModelSetIfOlder keeps an entry of another object that is strictly older.
Overrides(e, o, m) == e.obj \notin {NoObj, o} => ~(e.ts < m.ts)

ModelSetIfOlder ==
    /\ mpc = "apply"
    /\ Ours(mObj)
    /\ models' =
        IF Overrides(models[mObj.name], mKey, mObj)
        THEN [models EXCEPT ![mObj.name] =
                 [obj |-> mKey, name |-> mObj.name, ts |-> mObj.ts]]
        ELSE models
    /\ Finish
    /\ UNCHANGED <<clusterM, bounds, hasPool>>

\* handleModelDeleted, ModelDelete: map iteration meets some entry of the
\* object first, and only that one is deleted.
ModelDelete ==
    /\ mpc = "apply"
    /\ ~Ours(mObj)
    /\ \E n \in Name :
        /\ models[n].obj = mKey
        /\ models' = [models EXCEPT ![models[n].name] = NoEntry]
        /\ mName' = models[n].name
    /\ mpc' = "resync"
    /\ mObj' = NoModel
    /\ UNCHANGED <<clusterM, bounds, hasPool, mKey>>

ModelDeleteMiss ==
    /\ mpc = "apply"
    /\ ~Ours(mObj)
    /\ \A n \in Name : models[n].obj # mKey
    /\ Finish
    /\ UNCHANGED <<clusterM, bounds, hasPool, models>>

Candidate(o, n) == Ours(cModel[o]) /\ cModel[o].name = n

\* Mutant: any candidate will do.
OldestAny(o, n) == Candidate(o, n)

\* The list has no order: of several oldest objects any may come first.
Oldest(o, n) ==
    /\ Candidate(o, n)
    /\ \A x \in Obj : Candidate(x, n) => cModel[o].ts <= cModel[x].ts

\* handleModelDeleted, ModelResync: a critical section of its own.
ModelResync ==
    /\ mpc = "resync"
    /\ hasPool
    /\ \/ \E o \in Obj :
            /\ Oldest(o, mName)
            /\ models' = [models EXCEPT ![mName] =
                   [obj |-> o, name |-> cModel[o].name, ts |-> cModel[o].ts]]
       \/ /\ \A o \in Obj : ~Candidate(o, mName)
          /\ UNCHANGED models
    /\ Finish
    /\ UNCHANGED <<clusterM, bounds, hasPool>>

\* The list fails, or ds.pool is nil and the dereference panics (recovered):
\* the key is requeued, but its entry is gone and the retry finds none.
ModelResyncFails ==
    /\ mpc = "resync"
    /\ \/ ~hasPool /\ UNCHANGED faults
       \/ hasPool /\ faults < MaxFaults /\ faults' = faults + 1
    /\ modelQ' = modelQ \cup {mKey}
    /\ Finish
    /\ UNCHANGED <<cModel, clock, events, pools, hasPool, models>>

-----------------------------------------------------------------------------
Init ==
    /\ cModel \in [Obj -> {m \in Model : /\ m.ts = 0
                                         /\ m.phase = "absent" => m = NoModel}]
    /\ clock = 0
    /\ modelQ = {o \in Obj : eventPredicate(cModel[o])}
    /\ events = 0 /\ pools = 0 /\ faults = 0
    /\ hasPool \in BOOLEAN
    /\ models = [n \in Name |-> NoEntry]
    /\ mpc = "idle" /\ mKey = NoObj /\ mObj = NoModel /\ mName = NoName

EnvironmentM ==
    \/ \E o \in Obj : \/ ModelCreated(o) \/ PoolRefChanged(o)
                      \/ ModelTerminating(o) \/ ModelRemoved(o)
    \/ PoolSet \/ Clear

ModelWorker ==
    \/ \E o \in Obj : ModelReconcile(o)
    \/ ModelGetFails \/ ModelSetIfOlder \/ ModelDelete \/ ModelDeleteMiss
    \/ ModelResync \/ ModelResyncFails

Next == EnvironmentM \/ ModelWorker

Spec == Init /\ [][Next]_mvars
FairSpec == Spec /\ WF_mvars(ModelWorker)

-----------------------------------------------------------------------------
(* Properties.                                                              *)

QuiescentM == modelQ = {} /\ mpc = "idle"

\* Once objects stop changing the reconciler comes to rest, failed resyncs
\* included.
EventuallyQuiescentM == <>[]QuiescentM

\* inferencemodel_reconciler.go:79-82: at rest, the entry of a name is its
\* oldest object.
OldestActive ==
    QuiescentM => \A n \in Name :
        models[n].obj # NoObj => \A o \in Obj :
            Candidate(o, n) => models[n].ts <= cModel[o].ts
=============================================================================
