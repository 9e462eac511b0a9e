----------------------------- MODULE Refresher -----------------------------
(***************************************************************************)
(* The metrics of one pod (pkg/epp/backend/metrics): the refresher          *)
(* goroutine scrapes the model server at the pod's address and stores what  *)
(* the page says, while reconcilers give the pod another address, remove    *)
(* the pool or stop the refresher.                                          *)
(*                                                                          *)
(* A figure is represented by where and when it was true: the address of    *)
(* the server and the number of changes of load until then.                 *)
(***************************************************************************)
EXTENDS Naturals, Sequences, FiniteSets

CONSTANTS
    Address,      \* addresses of model servers
    None,         \* no server
    Adapter,      \* LoRA adapters
    Optional,     \* metrics that may be left out of the configuration
    MaxLoads,     \* bound: changes of load of the servers
    MaxChanges,   \* bound: changes of the pod's address and of the pool
    MaxFaults     \* bound: scrapes that fail or miss something

ASSUME RefresherAssumption ==
    /\ Address # {} /\ None \notin Address
    /\ Optional \subseteq {"queue", "kv", "lora"}
    /\ MaxLoads \in Nat /\ MaxChanges \in Nat /\ MaxFaults \in Nat

VARIABLES
    clock,      \* changes of load so far
    figures,    \* per server: the clock when its queue and kv cache last changed
    series,     \* per server and set of adapters: the value of its LoRA series,
                \* the clock when the set was last in use; 0 without a series
    mapping,    \* the metrics whose flag is not empty
    pool,       \* ds.pool is not nil
    pod,        \* pm.pod: the address
    changes, faults,
    closed,     \* pm.done is closed
    cancelled,  \* pm.parentCtx is cancelled: the process is stopping
    metrics,    \* pm.metrics
    pc,         \* where the goroutine is
    target,     \* the address FetchMetrics was called with
    updated,    \* what FetchMetrics returned; NoMetrics for nil
    late,       \* history: metrics stored after the loop was told to stop
    stale       \* history: metrics of another address stored since the pod moved

servers == <<clock, figures, series>>
control == <<mapping, pool, pod, changes, closed, cancelled>>
goroutine == <<pc, target, updated>>
history == <<late, stale>>
vars == <<servers, control, faults, metrics, goroutine, history>>

Figure == [from : Address \cup {None}, at : 0..MaxLoads]
Metrics == [queue : Figure, kv : Figure, active : SUBSET Adapter, max : 0..1]
NoFigure == [from |-> None, at |-> 0]
NewMetrics == [queue |-> NoFigure, kv |-> NoFigure, active |-> {}, max |-> 0]
NoMetrics == [NewMetrics EXCEPT !.max = 2]

TypeOK ==
    /\ clock \in 0..MaxLoads
    /\ figures \in [Address -> 0..clock]
    /\ series \in [Address -> [SUBSET Adapter -> 0..clock]]
    /\ mapping \subseteq {"queue", "kv", "lora"}
    /\ pool \in BOOLEAN /\ pod \in Address /\ closed \in BOOLEAN /\ cancelled \in BOOLEAN
    /\ changes \in 0..MaxChanges /\ faults \in 0..MaxFaults
    /\ metrics \in Metrics /\ updated \in Metrics \cup {NoMetrics}
    /\ pc \in {"loop", "pool", "pod", "fetch", "store", "exited"}
    /\ target \in Address \cup {None}
    /\ (target = None) <=> (pc \notin {"fetch", "store"})
    /\ late \in Nat /\ stale \in Nat

-----------------------------------------------------------------------------
(* The model servers and the reconcilers (external to the refresher).       *)

\* The load of a server changes; the series of the adapters in use is set to
\* the time, whether or not it exists.
LoadChanges(a) ==
    /\ clock < MaxLoads /\ clock' = clock + 1
    /\ figures' = [figures EXCEPT ![a] = clock']
    /\ \/ UNCHANGED series
       \/ \E s \in SUBSET Adapter : series' = [series EXCEPT ![a][s] = clock']
    /\ UNCHANGED <<control, faults, metrics, goroutine, history>>

\* A server starts anew, without a series.
ServerRestarts(a) ==
    /\ clock < MaxLoads /\ clock' = clock + 1
    /\ figures' = [figures EXCEPT ![a] = clock']
    /\ series' = [series EXCEPT ![a] = [s \in SUBSET Adapter |-> 0]]
    /\ UNCHANGED <<control, faults, metrics, goroutine, history>>

Change == changes < MaxChanges /\ changes' = changes + 1

UpdatePod ==
    /\ Change
    /\ pod' \in Address \ {pod}
    /\ stale' = 0
    /\ UNCHANGED <<servers, mapping, pool, closed, cancelled, faults, metrics, goroutine, late>>

PoolChanges ==
    /\ Change
    /\ pool' = ~pool
    /\ UNCHANGED <<servers, mapping, pod, closed, cancelled, faults, metrics, goroutine, history>>

StopRefreshLoop ==
    /\ ~closed /\ Change
    /\ closed' = TRUE
    /\ UNCHANGED <<servers, mapping, pool, pod, cancelled, faults, metrics, goroutine, history>>

ParentDone ==
    /\ ~cancelled /\ Change
    /\ cancelled' = TRUE
    /\ UNCHANGED <<servers, mapping, pool, pod, closed, faults, metrics, goroutine, history>>

Stopped == closed \/ cancelled

-----------------------------------------------------------------------------
(* The page of server a.  A family is a sequence of samples; beside the     *)
(* current one there may be an older one, or one with other labels.         *)

Sample(a, at, ts, match) == [figure |-> [from |-> a, at |-> at], ts |-> ts, match |-> match]

Families(a) ==
    LET current == Sample(a, figures[a], 2, TRUE)
        older   == Sample(a, 0, 1, TRUE)
        other   == Sample(a, 0, 3, FALSE)
    IN {<<current>>, <<older, current>>, <<current, older>>, <<other, current>>}

\* Mutant: the last matching sample is taken whatever its time.
NewerAny(family, best, i) ==
    IF family[i].match THEN i ELSE best

\* One iteration of getLatestMetric; 0 is the nil it starts with.
Newer(family, best, i) ==
    IF family[i].match /\ (best = 0 \/ family[i].ts > family[best].ts) THEN i ELSE best

getLatestMetric(family) ==
    LET best[i \in 0..Len(family)] == IF i = 0 THEN 0 ELSE Newer(family, best[i - 1], i)
    IN best[Len(family)]

\* The series with the largest value of those with a label that is not empty.
getLatestLoraMetric(s) ==
    {x \in SUBSET Adapter \ {{}} :
        s[x] > 0 /\ \A y \in SUBSET Adapter \ {{}} : s[y] <= s[x]}

\* A figure is replaced only if it is configured and the page has it.
Scraped(name, family, existing) ==
    LET i == IF name \in mapping THEN getLatestMetric(family) ELSE 0
    IN IF i = 0 THEN existing ELSE family[i].figure

\* max_lora is a number, is missing, or does not parse, and then counts as 0.
MaxLora(label, existing) ==
    CASE label = "number" -> 1 [] label = "text" -> 0 [] label = "" -> existing

\* promToPodMetrics: a clone of the existing metrics, updated by what is there.
promToPodMetrics(page, existing) ==
    LET latest == IF "lora" \in mapping THEN getLatestLoraMetric(page.lora) ELSE {}
    IN [queue  |-> Scraped("queue", page.queue, existing.queue),
        kv     |-> Scraped("kv", page.kv, existing.kv),
        active |-> IF latest = {} THEN existing.active ELSE CHOOSE x \in latest : TRUE,
        max    |-> IF latest = {} THEN existing.max
                   ELSE MaxLora(page.max, existing.max)]

-----------------------------------------------------------------------------
(* The goroutine.                                                           *)

\* A metric whose flag is empty has no specification.
NewMetricMapping(absent) == {"queue", "kv", "lora"} \ absent

\* NewPodMetrics.
Init ==
    /\ clock = 0
    /\ figures = [a \in Address |-> 0]
    /\ series = [a \in Address |-> [s \in SUBSET Adapter |-> 0]]
    /\ \E absent \in SUBSET Optional : mapping = NewMetricMapping(absent)
    /\ pool \in BOOLEAN
    /\ pod = CHOOSE a \in Address : TRUE    \* addresses are interchangeable
    /\ changes = 0 /\ faults = 0 /\ closed = FALSE /\ cancelled = FALSE
    /\ metrics = NewMetrics /\ updated = NoMetrics
    /\ pc = "loop" /\ target = None
    /\ late = 0 /\ stale = 0

\* Mutant: neither the done channel nor the context is read.
SelectDefault ==
    /\ pc = "loop" /\ pc' = "pool"
    /\ UNCHANGED <<servers, control, faults, metrics, target, updated, history>>

\* startRefreshLoop: the select at the top of the loop.
Select ==
    /\ pc = "loop"
    /\ pc' = IF Stopped THEN "exited" ELSE "pool"
    /\ UNCHANGED <<servers, control, faults, metrics, target, updated, history>>

\* Mutant: the goroutine ends when there is no pool.
PoolGetGivesUp ==
    /\ pc = "pool"
    /\ pc' = IF pool THEN "pod" ELSE "exited"
    /\ UNCHANGED <<servers, control, faults, metrics, target, updated, history>>

\* Without a pool the refresh returns, and the loop sleeps and starts again.
PoolGet ==
    /\ pc = "pool"
    /\ pc' = IF pool THEN "pod" ELSE "loop"
    /\ UNCHANGED <<servers, control, faults, metrics, target, updated, history>>

\* Mutant: the first address the metrics came from is kept.
GetPodOnce ==
    /\ pc = "pod" /\ pc' = "fetch"
    /\ target' = IF metrics.queue.from = None THEN pod ELSE metrics.queue.from
    /\ UNCHANGED <<servers, control, faults, metrics, updated, history>>

\* The arguments of FetchMetrics are read; only this goroutine stores metrics,
\* so the existing ones are still metrics when the page arrives.
GetPod ==
    /\ pc = "pod" /\ pc' = "fetch"
    /\ target' = pod
    /\ UNCHANGED <<servers, control, faults, metrics, updated, history>>

\* FetchMetrics of a whole page.
FetchMetrics ==
    /\ pc = "fetch" /\ pc' = "store"
    /\ \E queue, kv \in Families(target) :
        updated' = promToPodMetrics([queue |-> queue, kv |-> kv,
                                     lora |-> series[target], max |-> "number"], metrics)
    /\ UNCHANGED <<servers, control, faults, metrics, target, history>>

Fault == faults < MaxFaults /\ faults' = faults + 1

\* A page without a family, or with a max_lora that is missing or no number.
FetchPartially ==
    /\ pc = "fetch" /\ pc' = "store"
    /\ Fault
    /\ \E queue, kv \in Families(target) \cup {<<>>}, max \in {"number", "text", ""},
          lora \in {series[target], [s \in SUBSET Adapter |-> 0]} :
        updated' = promToPodMetrics([queue |-> queue, kv |-> kv, lora |-> lora,
                                     max |-> max], metrics)
    /\ UNCHANGED <<servers, control, metrics, target, history>>

\* The request fails or times out, the status is not 200 or the page does not
\* parse: nil is returned.
FetchFails ==
    /\ pc = "fetch" /\ pc' = "store"
    /\ Fault
    /\ updated' = NoMetrics
    /\ UNCHANGED <<servers, control, metrics, target, history>>

\* The end of refreshMetrics.  Metrics that are not nil are stored, error or not.
Store ==
    /\ pc = "store" /\ pc' = "loop"
    /\ target' = None /\ updated' = NoMetrics
    /\ IF updated = NoMetrics THEN UNCHANGED <<metrics, history>>
       ELSE /\ metrics' = updated
            /\ late' = IF Stopped THEN late + 1 ELSE late
            /\ stale' = IF target # pod THEN stale + 1 ELSE stale
    /\ UNCHANGED <<servers, control, faults>>

Refresh ==
    Select \/ PoolGet \/ GetPod \/ FetchMetrics \/ FetchPartially \/ FetchFails \/ Store

Next ==
    \/ \E a \in Address : LoadChanges(a) \/ ServerRestarts(a)
    \/ UpdatePod \/ PoolChanges \/ StopRefreshLoop \/ ParentDone
    \/ Refresh

Spec == Init /\ [][Next]_vars

\* The goroutine is scheduled, its sleep ends and its requests end, at the
\* latest with the timeout of 5 seconds.
FairSpec == Spec /\ WF_vars(Refresh)

-----------------------------------------------------------------------------
(* Properties.                                                              *)

\* As long as a figure is of the same server, it is never replaced by an older
\* one, nor by none: not by a page with samples of several times, not by a
\* page that lacks it and not by a scrape that fails.
NeverBackward ==
    [][\A f \in {"queue", "kv"} :
        \/ metrics[f].from = None
        \/ /\ metrics'[f].from # None
           /\ metrics'[f].from = metrics[f].from => metrics'[f].at >= metrics[f].at]_vars

\* refreshMetrics says that the refresher "will soon be stopped": once the done
\* channel is closed, or the parent context ends, at most the scrape under way
\* is stored.
StopTakesEffect == late <= 1

\* UpdatePod does not wait for the scrape under way, so figures of the former
\* address are stored under the new one, but at most once per move.
OneStaleStore == stale <= 1

\* The adapters of the most recent series of all, the empty one included.
InUse(a) ==
    {s \in SUBSET Adapter :
        series[a][s] > 0 /\ \A t \in SUBSET Adapter : series[a][t] <= series[a][s]}

\* What the scheduler should see in the end: the figures that are configured
\* are the present ones of the server at the pod's address, and the adapters
\* those in use, unless none is in use.
Current ==
    /\ \A f \in {"queue", "kv"} \cap mapping : metrics[f] = [from |-> pod, at |-> figures[pod]]
    /\ "lora" \in mapping => \A s \in InUse(pod) \ {{}} : metrics.active = s

\* While the pool exists and the refresher is not stopped, the metrics become
\* current once load and addresses settle, whatever was stored in between.
MetricsConverge == <>[](pool /\ ~Stopped) => <>[]Current

\* Refuted: getLatestLoraMetric is to find the series of which "only most recent
\* is useful".  The one without adapters is skipped, so the adapters of a
\* server that has unloaded them all stay active.
DrainedShowsNone ==
    (<>[](pool /\ ~Stopped) /\ <>[](InUse(pod) = {{}}) /\ []("lora" \in mapping))
        => <>[](metrics.active = {})
=============================================================================
