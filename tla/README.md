# A verification project for the endpoint picker

TLA+ models of the Gateway API inference extension with the Dynamo front end:
the endpoint picker (EPP), the body-based router (BBR), the life of the two
processes, the shared informer factory of the generated client, and the dynamic
LoRA sidecar. TLC checks them on small instances and TLAPS proves the central
results for every value of the constants. `PROJECT.json` lists components,
runs, mutants, the map from definitions to source lines, hazards, findings and
theorems; this file explains them.

## The system

```
 API server --informers--> Pod / InferencePool / InferenceModel reconcilers
                                     |  (one worker each)
                                     v
        refreshers <--start/stop-- datastore: pool + models (RWMutex), pods (sync.Map)
             |                       ^            ^
             v metrics               | PodGetAll  | ModelGet, PoolGet
           pods' PodMetrics <--- scheduler <--- ext_proc servers <--> Envoy
                                                  |
                                                  +--> Dynamo FrontEnd (SSE)
 Envoy <--> body-based router            ConfigMap --> LoRA sidecar --> vLLM
```

| Part | State | Operations | What is hard about it |
|---|---|---|---|
| pods in the datastore | pool pointer, `sync.Map` of PodMetrics, one goroutine each | PodUpdateOrAddIfNotExist, PodDelete, PodResyncAll, Clear, PoolSet | two reconcilers write the map without a common lock; a lookup and its store are two steps; lists go stale |
| models in the datastore | map from modelName to object | ModelSetIfOlder, ModelDelete, ModelResync, Clear | several objects per name; events of one key coalesce; delete and resync are two critical sections |
| datastore lock | `sync.RWMutex` | every pool and model call | PoolGet takes the read lock twice |
| metrics refresher | metrics and address of one pod | startRefreshLoop, refreshMetrics, FetchMetrics, promToPodMetrics, UpdatePod, StopRefreshLoop | the address changes and the loop is stopped during a scrape; pages are partial |
| scheduler | none of its own | Schedule over a filter tree | metrics change under the filters, and some filters look twice |
| streaming server | request context per stream | Process, HandleRequestHeaders, HandleRequestBody, HandleResponseBody, updateStateAndSendIfNeeded | order of answers, errors on every path, accounting in a deferred function |
| FrontEnd call | parser buffers | callFrontEndForWorker | streams that break off, event names, comments |
| buffered server | request context per stream | Process and its handlers | as above, with one answer per message |
| body-based router | body buffer, responses to send | Process and its handlers | header answer is held back until the body has ended |
| request path | both of the above | Envoy calls the router, then the picker, then the router again | what one loses the other misreads |
| metrics logger | gauges of the pool | StartMetricsLogger, flushPrometheusMetricsOnce | ranges over the pods while they change, and waits for the datastore lock |
| processes | flags, runnables, contexts, streams | run(), mgr.Start, AsRunnable, GRPCServer, Check | groups that stop in order, a stop before Serve, failures and signals at once, streams that are open |
| informer factory | informers, which are started, a wait group | InformerFor, Start, Shutdown, WaitForCacheSync | called from several goroutines; Shutdown waits without the lock |
| LoRA sidecar | none between reconciles | reconcile, on_modified, main loop | two threads, repeated reads of one file, restarts of either side |

Left out, and why, is at the end.

## Modules

| Module | Models | Correspondence |
|---|---|---|
| `PodDatastore` | `datastore.go` (pods), both reconcilers of it, `pod_metrics.go` start and stop | `dsPool`, `dsPods` are the store; a PodMetrics is a number, `info` its address, `running` and `closed` its goroutine and channel. `pc`, `key`, `held` ... are the two workers' locals. One action per access to shared state, so each gap between two accesses is an interleaving point; NewPodMetrics with Store (`PodStoreNew`) and UpdatePod (`PodUpdate`) are two |
| `PodDatastoreHistory` | the same, with a record of overlaps | `suspect`: pods reconciled while the pool reconciler was active; `raced`, `cleared` |
| `ModelDatastore` | `datastore.go` (models), `inferencemodel_reconciler.go` | `models` is the map; a key is taken, the object read, then set or deleted and resynced |
| `ModelDatastoreHistory` | the same, with a record of the known gaps | `tainted`: names an early re-creation, a failed resync or Clear touched |
| `Refresher` | `pod_metrics.go` (the loop), `metrics.go` | one pod; `pc` is the place in the loop, `target` and `updated` are the locals of a scrape. A figure is the address and the time it was true at. `ParentDone` ends the context the loop was started with |
| `DatastoreLock` | the RWMutex and its callers | `writer` announces itself first and readers that come later sleep, as in Go's implementation |
| `MetricsLogger` | the flushing goroutine of `logger.go` | extends `DatastoreLock`: the goroutine is one of its readers. `stay` and `ever` bound what the range over the map may see, `ready` is the gauge |
| `Filters` | `filter.go`, the tree of `scheduler.go` | every filter as an operator on sets of pods and their metrics, and the tree as data |
| `Scheduler` | `Schedule` as it runs | one step per `GetMetrics` load; `Refresh` replaces metrics between any two |
| `StreamingServer` | `streamingserver.go` | one stream; `pc` is the place in Process, `state` is RequestState, `err` the variable the deferred function sees |
| `ExtProcOrder` | what Envoy's full duplex mode asks for | abstract specification that `StreamingServer` implements |
| `FrontEndCall` | `callFrontEndForWorker` | one action per kind of line; buffers hold the values of lines, and a JSON object may stand in one data line or begin in one and end in the next |
| `WeightedDraw` | `RandomWeightedDraw` | both loops as recursive functions, from every random number |
| `BufferedServer` | `server.go`, `request.go`, `response.go` | one stream; `err` and `answer` are Process's variables; `StatusPanics` is the index into an empty status, `UnknownRequest` a message of no known type |
| `BodyBasedRouting` | BBR's `server.go`, `request.go`, `response.go` | both modes; `buf` is streamedBody, `out` the responses left to send |
| `RequestPath` | one request through BBR and then EPP | composes `BodyBasedRouting` and `BufferedServer`: both are instances with their own variables, and the body the picker reads is the one the router forwards. `Forward` and `Return` are Envoy's |
| `Process` | `cmd/epp/main.go`, `cmd/body-based-routing/main.go`, `runserver.go` of both, `controller_manager.go`, `runnable/`, `tls.go`, `health.go` | `step` is the place in run(), `pc` that of each runnable, `watcher` the goroutine of GRPCServer, `cancelled` the contexts of the groups. `app` says which process it is |
| `MetricSpec` | `metrics_spec.go` | the parser over strings of six symbols (letters, the two braces, comma, equals sign, blank); a substring is a slice, the pair of positions it lies between. `WellFormed` is the documented form |
| `InformerFactory` | `client-go/informers/externalversions` | one action per critical section; `run`, `stopCh` are the goroutines of Start. Syncing of a cache is external |
| `RunOnce` | what the comments of the factory promise | abstract specification that `InformerFactory` implements |
| `LoraSidecar` | `sidecar.py` | one step per read of the file and per request, for each of two threads; an exception nobody catches ends the watching thread (`WatcherDies`) |
| `*_proofs` | theorems on the module they are named after | `ModelDatastore_proofs` also has those on `DatastoreLock` and `MetricsLogger`, `StreamingServer_proofs` those on `FrontEndCall` and `WeightedDraw`, and `Process_proofs` those on `MetricSpec` and `LoraSidecar` |
| `MC*` | constants, symmetry and instances for TLC | |

Definitions with a comment "Mutant:" are wrong variants of a definition that
follows. Nothing uses them; replacing the definition by its
mutant must break the property `PROJECT.json` names, which shows that the
property depends on that piece of code.

Data are abstracted to what the control flow tells apart. A body is good or
bad JSON, a label set is a set the selector is or is not part of, a header is
present or not. What is converted is modelled by its effect: in
`StreamingServer` and `BodyBasedRouting` a body that is parsed and marshalled
again becomes `null` when parsing failed.

A panic in a reconciler is recovered by controller-runtime and the key is put
back (`PodMatchPanics`, `ModelResyncFails`). A panic in an ext_proc handler is
not recovered: `pc = "crashed"`.

## Runs

| Run | Bounds | Shows |
|---|---|---|
| `Pods` | 1 pod, 2 addresses, 3 API changes and 1 failing call, or 2 pods, 1 address and 1 API change; 2 selectors and label sets, 4 PodMetrics | `CloseOnce`: no done channel is closed twice. `StoredRefreshes`: what the scheduler reads is being refreshed. `ConvergesUnlessRaced`: at rest the store is the cluster's pods, except where the two reconcilers overlapped on the pod or a list failed; with two pods a resync handles one while the other is reconciled. `NoLeakUnlessRaced`: no goroutine is left without such an overlap or Clear. `LeaksByClearOrOvertaken`: step by step, a refresher leaks only through Clear or through a Store that an older Load made blind, and then nothing ever stops it. `EventuallyQuiescent`: the work queues drain, recovered panics included |
| `Models` | 3 objects, 2 names, 2 changes, 1 change of the pool, 1 failing call | `OldestServed` at every moment, `EntriesAreLive` at rest (and under the right key always), `EventuallyQuiescentM` |
| `Schedule` | 3 pods, 6 metrics on both sides of every threshold, 2 refreshes during the call | `StableOutcome`: the walk of the tree agrees with the cascade written out. `AdmittedOnly`: a request goes only to pods seen to have room. `FailsOnlyForCause`: no pod, no room, or metrics that changed under the last filter |
| `Gauges` | 2 readers, of which one is the metrics logger, 2 writers, 2 pods | `PoolGetNeverNil`: PoolGet returns a pool or an error. `CallsReturnUnlessNested`: nothing but a writer between the two read locks of PoolGet blocks a call. `GaugesSettle`: the gauge comes to show the number of pods once they no longer change, whether they have become more or fewer |
| `Streaming` | 3 body messages each way, 2 changes of the datastore, 4 targets of weight up to 4 | `OrderKept` (refinement of `ExtProcOrder`), `AccountsSettled`: one error at most, under its code, and the gauge back at 0; `ChunksInOrder`, `AnsweredUnlessTrailers`, `DrawInProportion` |
| `RequestPath` | bodies of up to 3 messages, 3 response messages, 2 changes of the datastore | `AnsweredOnce`: the picker answers each message once and records one latency. `ReadUnlessLastCarries`: a body the router has not cut goes upstream with its header, and the picker blames no other body. `OrderUnlessTrailers` (refinement of `ExtProcOrder`), `RequestEnds` |
| `FrontEnd` | 4 lines, 2 worker ids | `NoEventPassedOver`, `ResultIsOfLastEvent`, against a reading of whole events |
| `Sidecar` | 2 adapters, 2 changes of the file, 1 fault | `TouchesOnlyListed`, `Converges` |
| `Refresher` | 2 servers, 2 adapters, 2 changes of load, 2 changes of address, pool or channel, 1 bad scrape, LoRA metric configured or not | `NeverBackward`: a figure of one server never becomes older or vanishes. `StopTakesEffect`, `OneStaleStore`: at most the scrape under way is stored after a stop, or under an address it is not from. `MetricsConverge`: in the end the metrics are those of the server at the address |
| `Process` | 1 open stream, flags of up to 3 fragments of text, a second signal | `FlagsReadRight`: the parser of the metric flags agrees with the documented form. `CleanExit`: an exit with 0 was asked for and cuts no stream of a server that works. `StopEnds`: a signal or a failing server ends the process, also before Serve. `HealthyServes`: SERVING is made good |
| `Informers` | 2 callers, 2 types, 2 stop channels | `HeldIsShared`, `SyncedUnlessShutdown`, `RunsOnce` (refinement of `RunOnce`), `ShutdownEnds` |
| `Routing_ModelCopied` | 2 messages | expected violation, see Findings |

**Why the bounds are enough.** The races of the datastore need two workers and
one key, or two keys for the resync loops. Initial states are arbitrary cluster
states at process start, so even one API change falls into a full start-up
with both reconcilers active. Three changes are enough for a pool to be
replaced while a pod is. Three objects leave a resync two to choose from. Two
refreshes are one more than the smallest number that empties a filter. The
lock's trouble needs one reader and one writer; the second of each shows what
happens to bystanders. Three messages are a first, a middle and a last one. Two
changes of load make an older figure and a newer one, and two other changes a
move and a move back, or a move and a stop, around one scrape. Three messages
of a body also give the router a message before, at and after the one that
completes the model. With two pods the gauge can stand too high and too low
while there are pods; one stream can be cut; three fragments reach every error return of the flag parser and the repetition of
a label. Two callers of the informer factory are one in Shutdown or
WaitForCacheSync and one that starts informers meanwhile, and with two types one
can be started and the other not.

The two instances of `Pods` share one run: the variable `both`, fixed at the
start, tells them apart. Initial states that differ only in the names of
labels, addresses or pods have the same behaviours up to those names, and every
property treats the names alike, so `Representative` keeps one of each
(`Representative` restricts initial states only; unlike symmetry in TLC it is
sound for liveness).

**Fairness.** Weak fairness of each worker goroutine and refresher stands for
the Go scheduler and for work queues that hand out what they hold. The
environment is never fair: API objects, files and the datastore need not
change. In `MetricsLogger` a writer's `Lock` is strongly fair, since Go's mutex
hands over to a waiter that has starved; goroutines inside a call and the
flusher are weakly fair, and no call has to be made. In the servers Envoy is weakly fair:
it sends what it has, unless the stream closes. In `Refresher` the
goroutine is weakly fair: a request ends, with the timeout if not before. In
`LoraSidecar` both threads and the start of the server are fair, faults and
changes are bounded. In `RequestPath` Envoy and the router are one weakly fair
actor and the picker another. In `Process` the steps of run() and the runnables
together (they are finitely many, so one condition makes all of them happen),
and the end of a stream are weakly fair;
failures, signals and the end of the grace period are not, so that `StopEnds`
does not rest on the 30 seconds. In `InformerFactory` a caller that is inside a
call goes on, and an informer whose channel is closed returns; nobody has to
make a call or close a channel.

**Types.** `TypeOK`, where a module has one, documents the variables. It holds in
the instances of the runs and is not among their properties. That of `PodDatastore`
is proved (`TypeCorrect`), and the other invariants that are proved contain the
types their argument needs.

**Deadlock** is not checked where the modelled system stops by itself: a stream
ends, a call returns, and a cluster whose changes are used up comes to rest.
The sidecar and the informer factory never stop, and a process stops only in
`Exited`: there it is checked. In `MetricsLogger` goroutines may sleep for ever:
a reader between its two read locks and a writer wait for each other.

## Findings

* `Routing_ModelCopied`. In streaming mode the router does not append the bytes
  of the message that has EndOfStream. A body that ends in that message is
  parsed without them, and a model in it is not copied into the header.

Other statements of comments and documents do not hold in the models either.
Each is a definition beside the properties of its module and is refuted within
a few states when a configuration names it; the runs above check the weaker
property that does hold.

| Definition | Statement | How it fails |
|---|---|---|
| `PodDatastore!StoreMatchesSelector` | a resync leaves only pods of the new selector (`inferencepool_reconciler.go:80`) | a pod is matched before and added after the resync |
| `PodDatastore!PoolInitPopulates` | the initial list makes requeueing unnecessary (`pod_reconciler.go:46`) | the list fails and is not repeated |
| `PodDatastore!DeletedPodRefresherStops` | the refresher of a deleted pod "will soon be stopped" (`pod_metrics.go:123`) | `Clear` drops the pods of a deleted pool from the map and stops no refresher |
| `Refresher!DrainedShowsNone` | "only most recent is useful" of the LoRA series (`metrics.go:146`) | the series without adapters is skipped, and adapters that were unloaded stay active |
| `ModelDatastore!OldestActive` | the oldest object is active (`inferencemodel_reconciler.go:81`) | an object re-created before it was reconciled replaces an older one |
| `Scheduler!NeverEmpty` | an empty result "should never happen" (`scheduler.go:154`) | metrics change between the two loops of the last filter |
| `StreamingServer!NoEndpoints503` | 503 without endpoints (`docs/proposals/004-endpoint-picker-protocol/README.md:45`) | 429, or a panic of `rand.Intn(0)` |
| `StreamingServer!ResponsePassesThrough` | an unparsable response passes through (`streamingserver.go:214`) | it is replaced by `null` |
| `StreamingServer!ModelServerErrorsCounted` | request errors are counted (`site-src/guides/metrics.md:27`) | the status is in `:status`, the code reads `status` |
| `BufferedServer!ErrorsCounted` | each request reports its error (`server.go:73`) | `err` is overwritten by the result of `BuildErrResponse` |
| `BufferedServer!ResponsePassesThrough` | an unparsable response passes through (`server.go:120`) | a nil response is sent |
| `BufferedServer!SuccessNotCounted` | as above | one byte is compared with `"200"` |
| `FrontEndCall!PendingProcessed` | a pending event is processed at EOF (`streamingserver.go:746`) | the last line, without its newline, is dropped |
| `MetricsLogger!GaugeFallsToZero` | the gauge is the number of ready pods (`pkg/epp/metrics/metrics.go:159`) | without pods `flushPrometheusMetricsOnce` returns before it sets the gauge, which keeps its last value |
| `LoraSidecar!LoadsOnlyWanted` | the server is reconciled with the current file (`sidecar.py:254`) | two reads of one difference see two versions |

## Proofs

All theorems hold for every value of the constants that the named ASSUMEs
allow. TLC evaluates those assumptions in the runs.

**`PodDatastore_proofs`.** `TypeCorrect` is by induction, one step per action.
`CloseOnce` and `StoredRefreshes` are not inductive: a Store could publish a
PodMetrics someone is about to stop, as far as they say. `PMInv` adds who owns
a PodMetrics. One that was allocated is in the map under a single key, or held
by the single worker that took it out with LoadAndDelete, or by no one; what is
in the map or held runs and is not closed (`MapOwns`, `StopperOwns`), and
numbers not yet allocated are unused (`FreshUnused`). A Store publishes an
unused one and LoadAndDelete moves ownership, so the invariant is kept.
`PMInvCorrect`, `CloseOnceCorrect` and `StoredRefreshesCorrect` follow.
So does the action property `LeaksCorrect`: what is taken out of the map is held
by its stopper, unless Clear or an overtaken Store took it out, and what is
neither in the map nor held can never get back there.

The properties with history need more. `LeakInv` (for `NoLeakUnlessRaced`): as
long as nothing has raced one of the reconcilers is idle, what Load returned is
what the map holds, without a pool the map is empty and the pod reconciler idle,
and every refresher that was not told to stop is in the map or held by the
worker about to stop it. `ConvInv` (for `ConvergesUnlessRaced`) says of every
pod that is neither suspect nor queued who will make its entry right.
`PoolInv`: the store's pool is the cluster's, or the pool reconciler has a copy
of it or is queued. `SuspectInv`: while both reconcilers are active the pod in
hand is suspect, and without a pool an entry beyond suspicion is gone.
`EntryInv` follows the code: a pod reconciler past `c.Get` has a current copy
and past the match is bound to add or delete accordingly (`PodAt`); from the
list on, PodResyncAll has the pod in its list, in hand or in the map (`AddAt`),
and then in the map or still to be visited by Range (`RangeAt`); with the pool
reconciler at rest the entry is right (`Good`). `HeldInv`, that a PodMetrics
never moves to another key, makes an update of one entry harmless to the
others. The theorem holds for any number of pods, so it does not depend on the
two pods of the run.

The proof corrected the history: a step of anybody between PoolReconcile and
Clear counted as Clear and took pods off `suspect`, which made the property
weaker than its comment. `Surviving` now asks for the pool worker's own step.

**`InformerFactory_proofs`.** For any finite set of types, any callers and any
stop channels. The properties need four facts beside the types: the wait group
is the number of running goroutines (`CountInv`), what callers hold is what the
map holds (`HeldInv`), who waits in Shutdown has set the flag and who returned
saw no goroutine (`DownInv`), and whatever a caller of WaitForCacheSync still
owes is before it or behind it (`SyncInv`). `FactoryInvCorrect` is their
induction; `HeldIsSharedCorrect`, `SyncedCorrect` and the refinement
`RunsOnceCorrect` follow. The last needs the count: Shutdown returns at zero,
and only the count says that zero means that none runs.

**`StreamingServer_proofs`.** For bodies of any length and any number of
changes of the datastore. The properties are not inductive: `AccountsSettled`
speaks of ended streams only, and the order of the responses is kept by
RequestState, which it does not mention. `SInv` adds how far Envoy is
(`Progress`): while an endpoint is chosen nothing is sent or ready, an error
comes up only there, so that it never meets the status of a response, and a
request whose body is still to be sent is not yet running. `Accounts` says what
an open stream has counted and `LastSent` which response each RequestState
stands for. `AccountsSettledCorrect` and the refinement `OrderKeptCorrect`
follow. `ChunkInv` adds, for `ChunksInOrderCorrect`, that a streamed response is
sent up to the chunk that is ready, that its last part becomes ready only when
Envoy has no more to send, and that nothing of it is ready before its headers.

Of the FrontEnd call, for streams of any length: `CallInv` ties the buffers of
the parser to the lines read since the last blank one (`ReadInv`: each buffer
tells whether the event has no line of its kind with a value, which one, or
several, and the name is set exactly if the event is a worker event). Then
flushEvent, which sees the buffers only, finds what stands in the event, and the
first event that carries an id decides: `NoEventPassedOverCorrect` and
`ResultIsOfLastEventCorrect`.

Of the draw, for any number of targets and any weights: the running sums
are increasing; until the loop returns, `randomVal` is the random number less the
sum so far, so a target is chosen exactly by the numbers between the sum before
it and the sum with it, an interval with as many members as its weight.
`DrawIsProportional` counts it, and `DrawInProportionCorrect` follows.
`WeightsFit`: no sum exceeds the product of the two bounds, which with the limits
of the API types is far below 2^31.

**`Scheduler_proofs`.** On the operators of `Filters`, for any finite set of
pods and any metrics and thresholds: a critical request gets at least one pod,
and only pods with a short queue if there is one (`CriticalPlaced`); a sheddable
request gets pods exactly when one has capacity, and only such pods
(`SheddablePlaced`). Both rest on the least-filters never returning nothing,
because the pod with the least value is in the first range. On the walk of
Schedule, whose metrics change under it, `WalkInv`: a filter during which none
changed has done with the pods it visited what its definition says (`LoopInv`),
the place in the tree tells what was admitted (`AdmitInv`), a filter has pods to
choose from unless there are none at all (`CauseInv`), and while nothing has
changed at all, what the rest of the walk can return is among the outcomes of
the operators (`RestInv`). `AdmittedOnlyCorrect`, `FailsOnlyForCauseCorrect` and
`StableOutcomeCorrect` follow; the last carries the two theorems on operators
over to the code's loops.

**`Refresher_proofs`.** For any servers, adapters and bounds. The loop of
getLatestMetric is a recursive function; its result is characterised for the
pages a server produces, which have at most two samples of a family. `RInv`: the
figures in the store and in hand are of the past, and what a scrape in hand
brings is no older than what it will replace (`FigureInv`); a late store leaves
the goroutine at the head of its loop, where it sees the closed channel
(`LateInv`); after a stale store the next scrape is of the new address
(`StaleInv`). `StopTakesEffectCorrect`, `OneStaleStoreCorrect` and the action
property `NeverBackwardCorrect` follow.

**`ModelDatastore_proofs`.** For any objects, names and bounds, on the module with
history. `EntryInv`: an entry of an untainted name has the age of its object,
no object has entries under two of them, and the entry of a reconciled object is
one of the pool's. `CopyInv`: the copy the reconciler works on is up to date
or its key is enqueued again, and between ModelDelete and ModelResync the object
has no entry. With `OldestServed` itself these are inductive.

The attempt showed that `EntriesAreLive` was false beyond the bounds of the run:
of an object with entries under two names ModelDelete removes one, and when the
object is created again the other is taken for its entry. The history now counts
a re-creation as a gap also while an entry of the object exists.

Of the lock, for any sets of readers and writers: `LockInv` says that a writer
past Lock owns the lock, that one that writes has no reader beside it, that only
readers in RLock sleep and only behind a writer, and that what PoolHasSynced
returned is still true when PoolGet reads the pool. `LoggerUsesLock`: every
behaviour of the metrics logger with its surroundings is one of the lock, so the
invariant holds there too, and `PoolGetNeverNilCorrect` follows.

**`RequestPath_proofs`.** For bodies cut into any number of messages. `RouterInv`
says, for every place of the router and every message Envoy may send next, what
is left to send and which response was last; `PickerInv`, which message each
response of the picker answers (`Turn`) and that a complete response is
the last (`LatencyInv`); `PathInv`, that the picker works only while the router
waits for the response, and blames a body only if it is not the one the client
wrote. `AnsweredOnceCorrect`, `ReadUnlessLastCarriesCorrect` and the refinement
`OrderUnlessTrailersCorrect` follow.

**`Process_proofs`.** Of the end of a process, for any streams and order of
signals, failures, starts and stops: `CleanExit` speaks of the exit only.
`ExitInv` adds that no stream is open before ext-proc serves (`NotStarted`,
`Started`), that streams are open only while Serve runs or after it failed
(`StreamsInv`), that a watcher which is gone saw Serve return or has drained the
streams (`WatcherInv`), that the manager passes the group of the servers only
when ext-proc has returned (`StoppedInv`), and that it returns nil only for a
single signal (`SignalInv`). `CleanExitCorrect` follows.

Of the metric flags, for flags of any length: TrimSpace, Index and Split are
characterised by the positions they return (`TrimFacts`, `IndexFacts`,
`SplitFacts`), a pair is accepted exactly if a label and a value stand between its
marks (`PairIsField`, `FieldsArePairs`), and comparing the checks of the parser
one by one with `WellFormed` gives `RefusedIsMalformed`. `MalformedRefused` is
about all three flags of NewMetricMapping; `FlagsReadRightCorrect` follows with
the invariant that the flag stays a string. `NameRead` is about what is accepted:
the name returned is all of the text before the braces, trimmed.

Of the sidecar, for any adapters: `SidecarInv` says that what a thread has kept,
has left to do or is about to post was in the list its loop is about, at
some time (`HeldListed`). That is all a torn read leaves true, and it is enough
for the action property `TouchesOnlyListedCorrect`.

Each inductive invariant was checked by TLC on the instance of its run before it
was proved. The assumptions on constants are that bounds are natural numbers and
that sets that must have a member have one; the scheduler's pods and the types
of the informer factory are finite sets.

The library's induction theorems take the induction hypothesis as an operator,
which the provers cannot instantiate. The draw and the flag parser are proved
from the least counterexample instead: a non-empty set of numbers has a least
member (`WFMin`, as the lemmas `LeastNumber`, `FirstPosition` and
`LastPosition`), and the step before it leads to a contradiction.

**Only model-checked.** The liveness properties, which are out of the prover's
reach: `EventuallyQuiescent`, `EventuallyQuiescentM`, `CallsReturnUnlessNested`,
`AnsweredUnlessTrailers`, `RequestEnds`, `Converges`, `MetricsConverge`,
`StopEnds`, `HealthyServes`, `GaugesSettle`, `ShutdownEnds`. Every invariant and
action property that a passing run checks is also proved, and so are the
refinements.

## Not modelled

* The change of the pool's port during a scrape, which is one more failing
  scrape.
* Of the metrics: histograms of sizes, tokens and latencies (but for how often
  the buffered server records a latency); they change nothing the rest reads. The counters of the router are never
  registered (`cmd/body-based-routing/main.go:160` calls the picker's Register)
  and nothing observes them.
* Of `logger.go`, the averages of queue and cache that are set with the number
  of pods, and the goroutine that prints the pods when debugging.
* Generated clients, listers and deep copies apart from the informer factory;
  utilities, simulator, benchmarks.
* In the datastore, a pod that is terminating but still ready: `PodResyncAll`
  does not look at DeletionTimestamp and the Pod reconciler does, so what the
  store holds depends on who came last. `ConvergesUnlessRaced` exempts it.
* Envoy's protocol beyond what the servers see of it: `StreamingServer` assumes
  that there is a response only after the request's headers were answered, since
  Envoy holds the request until then (stated before `RecvResponseHeaders`).
* In the sidecar, changes of host, port and base model in the file.

## Plan

1. `Scheduler` over a datastore whose pods come and go, with the refreshers of
   `Refresher` behind the metrics it reads.
2. What stringToMetricSpec returns for the labels of a well-formed flag, as
   `NameRead` says it of the name.
