-------------------------- MODULE InformerFactory --------------------------
(***************************************************************************)
(* sharedInformerFactory (client-go/informers/externalversions): users ask  *)
(* for informers, start them, wait for their caches and shut the factory    *)
(* down, from several goroutines.  InformerFor, Start and the first part of *)
(* Shutdown and of WaitForCacheSync are critical sections of one mutex with *)
(* nothing that blocks in them, so each is one step.                        *)
(***************************************************************************)
EXTENDS Naturals, FiniteSets

CONSTANTS
    Types,     \* the types there are informers for
    Unknown,   \* a resource that has none
    Callers,   \* goroutines that use the factory
    Chans      \* stop channels

ASSUME FactoryAssumption ==
    IsFiniteSet(Types) /\ Unknown \notin Types /\ Chans # {}

VARIABLES
    made,          \* informers newFunc has made for a type
    informers,     \* f.informers: the number of the informer made, 0 for none
    started,       \* f.startedInformers
    shuttingDown,  \* f.shuttingDown
    wg,            \* the count of f.wg
    run,           \* the goroutine of a type: "none", "running" or "ended"
    stopCh,        \* the stop channel it was started with
    closed,        \* the stop channels that are closed
    synced,        \* types whose informer HasSynced
    pc,            \* where a caller is
    arg,           \* the stop channel of its WaitForCacheSync
    todo,          \* informers it has still to wait for
    failed,        \* informers it gave up; the others it found synced
    held,          \* the informers of a type that callers have been given
    asked,         \* history: the types that had an informer when the caller
                   \* last called Start
    returned       \* history: a call of Shutdown has returned

factory == <<made, informers, started, shuttingDown, wg>>
goroutines == <<run, stopCh, closed, synced>>
waiting == <<arg, todo, failed>>
history == <<held, asked, returned>>
vars == <<factory, goroutines, pc, waiting, history>>

\* A channel to be replaced before it is looked at.
AnyChan == CHOOSE ch \in Chans : TRUE

TypeOK ==
    /\ made \in [Types -> Nat] /\ informers \in [Types -> Nat]
    /\ started \in SUBSET Types /\ shuttingDown \in BOOLEAN /\ wg \in Nat
    /\ run \in [Types -> {"none", "running", "ended"}]
    /\ stopCh \in [Types -> Chans] /\ closed \in SUBSET Chans
    /\ synced \in SUBSET Types
    /\ pc \in [Callers -> {"idle", "shutdown", "sync"}]
    /\ arg \in [Callers -> Chans]
    /\ todo \in [Callers -> SUBSET Types]
    /\ failed \in [Callers -> SUBSET Types]
    /\ held \in [Types -> SUBSET Nat]
    /\ asked \in [Callers -> SUBSET Types]
    /\ returned \in BOOLEAN

-----------------------------------------------------------------------------
(* The factory.                                                             *)

\* NewFiltered...Informer: newFunc makes an informer of its own at every call.
newFunc(t) == made' = [made EXCEPT ![t] = @ + 1]

\* Mutant: the map is not looked at while the informer has not been started.
InformerForMakesAnother(c, t) ==
    /\ pc[c] = "idle"
    /\ IF t \in started
       THEN UNCHANGED <<made, informers>>
       ELSE /\ newFunc(t)
            /\ informers' = [informers EXCEPT ![t] = made[t] + 1]
    /\ held' = [held EXCEPT ![t] = @ \cup {informers'[t]}]
    /\ UNCHANGED <<started, shuttingDown, wg, goroutines, pc, waiting, asked, returned>>

\* The informer of the map, or a new one.
InformerFor(c, t) ==
    /\ pc[c] = "idle"
    /\ IF informers[t] # 0
       THEN UNCHANGED <<made, informers>>
       ELSE /\ newFunc(t)
            /\ informers' = [informers EXCEPT ![t] = made[t] + 1]
    /\ held' = [held EXCEPT ![t] = @ \cup {informers'[t]}]
    /\ UNCHANGED <<started, shuttingDown, wg, goroutines, pc, waiting, asked, returned>>

\* ForResource: an error for what the switch does not list.
ForResource(c, resource) ==
    IF resource = Unknown THEN pc[c] = "idle" /\ UNCHANGED vars
    ELSE InformerFor(c, resource)

Requested == {t \in Types : informers[t] # 0}

\* Mutant: the flag is not looked at.
StartAlways(c, ch) ==
    LET new == Requested \ started IN
    /\ pc[c] = "idle"
    /\ asked' = [asked EXCEPT ![c] = Requested]
    /\ wg' = wg + Cardinality(new)
    /\ run' = [t \in Types |-> IF t \in new THEN "running" ELSE run[t]]
    /\ stopCh' = [t \in Types |-> IF t \in new THEN ch ELSE stopCh[t]]
    /\ started' = started \cup new
    /\ UNCHANGED <<made, informers, shuttingDown, closed, synced, pc, waiting,
                   held, returned>>

\* A goroutine for every informer that has none yet; nothing once the factory
\* is shutting down.
Start(c, ch) ==
    LET new == Requested \ started IN
    /\ pc[c] = "idle"
    /\ asked' = [asked EXCEPT ![c] = Requested]
    /\ IF shuttingDown
       THEN UNCHANGED <<started, wg, run, stopCh>>
       ELSE /\ wg' = wg + Cardinality(new)
            /\ run' = [t \in Types |-> IF t \in new THEN "running" ELSE run[t]]
            /\ stopCh' = [t \in Types |-> IF t \in new THEN ch ELSE stopCh[t]]
            /\ started' = started \cup new
    /\ UNCHANGED <<made, informers, shuttingDown, closed, synced, pc, waiting,
                   held, returned>>

Shutdown(c) ==
    /\ pc[c] = "idle"
    /\ shuttingDown' = TRUE
    /\ pc' = [pc EXCEPT ![c] = "shutdown"]
    /\ UNCHANGED <<made, informers, started, wg, goroutines, waiting, history>>

\* f.wg.Wait returns.
ShutdownReturns(c) ==
    /\ pc[c] = "shutdown"
    /\ wg = 0
    /\ pc' = [pc EXCEPT ![c] = "idle"]
    /\ returned' = TRUE
    /\ UNCHANGED <<factory, goroutines, waiting, held, asked>>

\* Mutant: the test of startedInformers is inverted.
WaitForCacheSyncInverted(c, ch) ==
    /\ pc[c] = "idle"
    /\ pc' = [pc EXCEPT ![c] = "sync"]
    /\ arg' = [arg EXCEPT ![c] = ch]
    /\ todo' = [todo EXCEPT ![c] = Requested \ started]
    /\ UNCHANGED <<factory, goroutines, failed, history>>

\* The started informers, as a copy that is then worked through unlocked.
WaitForCacheSync(c, ch) ==
    /\ pc[c] = "idle"
    /\ pc' = [pc EXCEPT ![c] = "sync"]
    /\ arg' = [arg EXCEPT ![c] = ch]
    /\ todo' = [todo EXCEPT ![c] = Requested \cap started]
    /\ UNCHANGED <<factory, goroutines, failed, history>>

\* cache.WaitForCacheSync for one informer: it polls HasSynced until that
\* holds or the channel is closed.
Waited(c, t) ==
    /\ pc[c] = "sync" /\ t \in todo[c]
    /\ todo' = [todo EXCEPT ![c] = @ \ {t}]
    /\ \/ t \in synced /\ UNCHANGED failed
       \/ arg[c] \in closed /\ failed' = [failed EXCEPT ![c] = @ \cup {t}]
    /\ UNCHANGED <<factory, goroutines, pc, arg, history>>

WaitReturns(c) ==
    /\ pc[c] = "sync" /\ todo[c] = {}
    /\ pc' = [pc EXCEPT ![c] = "idle"]
    /\ failed' = [failed EXCEPT ![c] = {}]
    /\ arg' = [arg EXCEPT ![c] = AnyChan]
    /\ UNCHANGED <<factory, goroutines, todo, history>>

-----------------------------------------------------------------------------
(* The goroutines of Start, which call the library's SharedIndexInformer.   *)

CacheSyncs(t) ==
    /\ run[t] = "running" /\ t \notin synced
    /\ synced' = synced \cup {t}
    /\ UNCHANGED <<factory, run, stopCh, closed, pc, waiting, history>>

\* Mutant: the goroutine runs its informer again and never calls wg.Done.
RunReturnsAgain(t) ==
    /\ run[t] = "running" /\ stopCh[t] \in closed
    /\ UNCHANGED vars

RunReturns(t) ==
    /\ run[t] = "running" /\ stopCh[t] \in closed
    /\ run' = [run EXCEPT ![t] = "ended"]
    /\ wg' = wg - 1
    /\ UNCHANGED <<made, informers, started, shuttingDown, stopCh, closed, synced,
                   pc, waiting, history>>

Close(ch) ==
    /\ ch \notin closed
    /\ closed' = closed \cup {ch}
    /\ UNCHANGED <<factory, run, stopCh, synced, pc, waiting, history>>

-----------------------------------------------------------------------------
Init ==
    /\ made = [t \in Types |-> 0] /\ informers = [t \in Types |-> 0]
    /\ started = {} /\ shuttingDown = FALSE /\ wg = 0
    /\ run = [t \in Types |-> "none"] /\ stopCh = [t \in Types |-> AnyChan]
    /\ closed = {} /\ synced = {}
    /\ pc = [c \in Callers |-> "idle"] /\ arg = [c \in Callers |-> AnyChan]
    /\ todo = [c \in Callers |-> {}]
    /\ failed = [c \in Callers |-> {}]
    /\ held = [t \in Types |-> {}]
    /\ asked = [c \in Callers |-> {}] /\ returned = FALSE

Call(c) ==
    \/ \E resource \in Types \cup {Unknown} : ForResource(c, resource)
    \/ \E ch \in Chans : Start(c, ch) \/ WaitForCacheSync(c, ch)
    \/ Shutdown(c)

Continue(c) ==
    \/ ShutdownReturns(c)
    \/ \E t \in Types : Waited(c, t)
    \/ WaitReturns(c)

Next ==
    \/ \E c \in Callers : Call(c) \/ Continue(c)
    \/ \E t \in Types : CacheSyncs(t) \/ RunReturns(t)
    \/ \E ch \in Chans : Close(ch)

Spec == Init /\ [][Next]_vars

(* Go schedules every goroutine, and Run returns once its channel is closed. *)
(* Nobody has to close a channel, and a cache may never sync.               *)
FairSpec ==
    /\ Spec
    /\ \A c \in Callers : WF_vars(Continue(c))
    /\ \A t \in Types : WF_vars(RunReturns(t))

-----------------------------------------------------------------------------
(* Properties.                                                              *)

Runs == INSTANCE RunOnce WITH
    ever <- started, alive <- {t \in Types : run[t] = "running"}, over <- returned

\* Start may be called several times and from several goroutines
\* (factory.go:48): every informer is run once, and when a call of Shutdown
\* has returned, all goroutines have ended and none is started (factory.go:233).
RunsOnce == Runs!Spec

\* All callers that ask for a type share one informer, the one Start runs:
\* nobody holds an informer whose cache stays empty (InformerFor).
HeldIsShared ==
    \A t \in Types : held[t] \subseteq {informers[t]}

\* When WaitForCacheSync reports no failure, the informers there were when the
\* caller called Start are synced, unless the factory is shutting down: Start
\* may then have done nothing and the result has no entry for them.
SyncedUnlessShutdown ==
    \A c \in Callers :
        pc[c] = "sync" /\ todo[c] = {} /\ failed[c] = {} /\ ~shuttingDown
            => asked[c] \subseteq synced

\* Shutdown returns when all channels the goroutines were started with are
\* closed, before the call or while it waits (factory.go:238), however many
\* callers shut the factory down.
ShutdownEnds ==
    \A c \in Callers :
        (pc[c] = "shutdown" /\ \A t \in started : stopCh[t] \in closed)
            ~> pc[c] # "shutdown"
=============================================================================
