------------------------------- MODULE Process -------------------------------
(***************************************************************************)
(* The life of the two processes of the repository: the endpoint picker     *)
(* (cmd/epp/main.go, app "epp") and the body-based router                   *)
(* (cmd/body-based-routing/main.go, app "bbr").  run() sets the process up, *)
(* hands its servers to the controller manager and blocks in mgr.Start      *)
(* until a signal or the first failure of a runnable; the manager then      *)
(* stops its groups of runnables one after the other and main exits.        *)
(*                                                                          *)
(* The manager and the gRPC server are libraries, modelled as they are used *)
(* here (controller-runtime 0.20): the groups start in one order and stop   *)
(* in another, each with a context of its own; GracefulStop refuses new     *)
(* streams, waits for the open ones and only then lets Serve return.        *)
(***************************************************************************)
EXTENDS Integers, MetricSpec

CONSTANTS FlagValues,   \* what may be given for one of the metric flags
          MaxStreams    \* bound: ext-proc streams open at a time

ASSUME ProcessAssumption ==
    FlagValues \subseteq Seq(Symbol) /\ MaxStreams \in Nat \ {0}

VARIABLES app, step, flag, handler, signals, code,
          added, group, cancelled, failure, result,
          pc, watcher, stopped, streams,
          pool

run == <<app, step, flag, handler, signals, code>>
manager == <<added, group, cancelled, failure, result>>
servers == <<pc, watcher, stopped, streams>>
vars == <<run, manager, servers, pool>>

GRPC == {"health", "ext-proc"}
Runnables == GRPC \cup {"metrics", "controllers"}

\* NeedLeaderElection is FALSE for a runnable wrapped in NoLeaderElection.
GroupOf(r) == CASE r = "metrics" -> "HTTPServers"
                [] r \in GRPC -> "Others"
                [] r = "controllers" -> "LeaderElection"
\* The group of the caches comes second and third; no runnable of src is in it.
StartOrder == <<"HTTPServers", "Others", "LeaderElection">>
StopOrder == <<"Others", "LeaderElection", "HTTPServers">>

Returned(r) == pc[r] \in {"off", "ended", "failed"}
Running == step \in {"starting", "running", "stopping"}

Init ==
    /\ \/ app = "epp" /\ flag \in FlagValues
       \/ app = "bbr" /\ flag = <<>>
    /\ step = "flags" /\ handler = FALSE
    /\ signals = 0 /\ code = "none"
    /\ added = {} /\ group = 1 /\ cancelled = {} /\ failure = FALSE /\ result = "nil"
    /\ pc = [r \in Runnables |-> "off"]
    /\ watcher = [s \in GRPC |-> "off"] /\ stopped = [s \in GRPC |-> FALSE] /\ streams = 0
    /\ pool = FALSE

-----------------------------------------------------------------------------
(* run(): the steps of the set-up, each of which may end the process.        *)

\* main exits with 1 for any error of run and with 0 otherwise.  Of what the
\* process was, only how it left its ext-proc streams matters from here on.
Exit(c) ==
    /\ step' = "exited" /\ code' = c /\ flag' = <<>> /\ handler' = FALSE
    /\ added' = {} /\ group' = 1 /\ cancelled' = {} /\ failure' = FALSE /\ result' = "nil"
    /\ pc' = [r \in Runnables |-> IF r = "ext-proc" THEN pc[r] ELSE "off"]
    /\ watcher' = [s \in GRPC |-> "off"] /\ stopped' = [s \in GRPC |-> FALSE]
    /\ pool' = FALSE
    /\ UNCHANGED streams

GoOn(next) == step' = next /\ UNCHANGED <<code, pool>>

\* A step of the set-up goes on to the next, or its error ends run.
SetUp(at, next) == step = at /\ GoOn(next) /\ UNCHANGED <<app, signals, servers>>
GivesUp(at) == step = at /\ Exit("1") /\ UNCHANGED <<app, signals>>

\* validateFlags: the name of the pool is required; the router has no check.
ValidateFlags ==
    \/ SetUp("flags", "config") /\ UNCHANGED <<flag, handler, manager>>
    \/ app = "epp" /\ GivesUp("flags")

GetConfig ==
    \/ SetUp("config", "manager") /\ UNCHANGED <<flag, handler, manager>>
    \/ GivesUp("config")

\* NewManager, and SetupSignalHandler right after it.
NewManager ==
    \/ /\ SetUp("manager", IF app = "epp" THEN "mapping" ELSE "health")
       /\ handler' = TRUE
       /\ UNCHANGED <<flag, manager>>
    \/ GivesUp("manager")

\* The two other flags have their default, a plain name.
SetUpMapping ==
    /\ step = "mapping"
    /\ IF NewMetricMapping(flag, <<"letter">>, <<"letter">>).status = "invalid"
       THEN GivesUp("mapping")
       ELSE SetUp("mapping", "controllers") /\ flag' = <<>> /\ UNCHANGED <<handler, manager>>

\* mgr.Add refuses a runnable only by an error that ends run.
Adds(at, next) ==
    \/ /\ SetUp(at, next)
       /\ added' = added \cup {at}
       /\ UNCHANGED <<flag, handler, group, cancelled, failure, result>>
    \/ GivesUp(at)

SetupWithManager == Adds("controllers", "health")
registerHealthServer == Adds("health", "ext-proc")

\* Mutant: AsRunnable is called and its result is not given to the manager.
AddExtProcForgets ==
    SetUp("ext-proc", "metrics") /\ UNCHANGED <<flag, handler, manager>>

AddExtProc == Adds("ext-proc", "metrics")

registerMetricsHandler == Adds("metrics", "starting")

\* The first signal cancels the context, the second ends the process at once;
\* before the handler is installed a signal kills it.
Signal ==
    /\ step # "exited"
    /\ \/ ~handler /\ Exit("killed") /\ UNCHANGED signals
       \/ handler /\ signals = 1 /\ Exit("1") /\ signals' = 2
       \/ /\ handler /\ signals = 0 /\ signals' = 1
          /\ UNCHANGED <<step, flag, handler, code, manager, servers, pool>>
    /\ UNCHANGED app

-----------------------------------------------------------------------------
(* mgr.Start                                                                *)

StartGroup ==
    /\ step = "starting"
    /\ pc' = [r \in Runnables |->
                IF r \notin added \/ GroupOf(r) # StartOrder[group] THEN pc[r]
                ELSE IF r \in GRPC THEN "start" ELSE "serving"]
    /\ IF group = 3 THEN GoOn("running") /\ group' = 1
       ELSE GoOn(step) /\ group' = group + 1
    /\ UNCHANGED <<app, flag, handler, signals, added, cancelled, failure, result>>
    /\ UNCHANGED <<watcher, stopped, streams>>

\* The signal or the first error ends the wait; with both, either may win.
Select ==
    /\ step = "running"
    /\ \/ signals > 0 /\ result' = "nil"
       \/ failure /\ result' = "error"
    /\ GoOn("stopping")
    /\ UNCHANGED <<app, flag, handler, signals, added, group, cancelled, failure>>
    /\ UNCHANGED servers

CancelGroup ==
    /\ step = "stopping" /\ group <= 3 /\ StopOrder[group] \notin cancelled
    /\ cancelled' = cancelled \cup {StopOrder[group]}
    /\ UNCHANGED <<run, added, group, failure, result, servers, pool>>

GroupReturned ==
    /\ step = "stopping" /\ group <= 3 /\ StopOrder[group] \in cancelled
    /\ \A r \in added : GroupOf(r) = StopOrder[group] => Returned(r)
    /\ group' = group + 1
    /\ UNCHANGED <<run, added, cancelled, failure, result, servers, pool>>

StartReturns ==
    /\ step = "stopping" /\ group = 4
    /\ Exit(IF result = "nil" THEN "0" ELSE "1")
    /\ UNCHANGED <<app, signals>>

\* The groups had 30 seconds in all.
GraceExpires ==
    /\ step = "stopping" /\ group <= 3
    /\ Exit("1")
    /\ UNCHANGED <<app, signals>>

-----------------------------------------------------------------------------
(* The runnables.  The error of one reaches the manager as a failure.       *)

Becomes(r, state) == pc' = [pc EXCEPT ![r] = state] /\ UNCHANGED failure
Fails(r) == pc' = [pc EXCEPT ![r] = "failed"] /\ failure' = TRUE

\* A certificate is made, or loaded from certPath; either may fail.
CreateSelfSignedTLSCertificate == Becomes("ext-proc", "listen") \/ Fails("ext-proc")

\* AsRunnable of the endpoint picker, after it has started the goroutine of
\* MetricsLogger, and AsRunnable of the router.
AsRunnable ==
    /\ Running /\ app = "epp" /\ pc["ext-proc"] = "start"
    /\ CreateSelfSignedTLSCertificate
    /\ UNCHANGED <<run, added, group, cancelled, result, watcher, stopped, streams, pool>>

RouterAsRunnable ==
    /\ Running /\ app = "bbr" /\ pc["ext-proc"] = "start"
    /\ CreateSelfSignedTLSCertificate
    /\ UNCHANGED <<run, added, group, cancelled, result, watcher, stopped, streams, pool>>

\* GRPCServer: listen, start the watcher of the context, then serve.
Listen(s) ==
    /\ Running /\ pc[s] = IF s = "ext-proc" THEN "listen" ELSE "start"
    /\ \/ Becomes(s, "serve") /\ watcher' = [watcher EXCEPT ![s] = "watching"]
       \/ Fails(s) /\ UNCHANGED watcher
    /\ UNCHANGED <<run, added, group, cancelled, result, stopped, streams, pool>>

\* After GracefulStop, Serve returns ErrServerStopped, which is no error.
Serve(s) ==
    /\ Running /\ pc[s] = "serve"
    /\ Becomes(s, IF stopped[s] THEN "ended" ELSE "serving")
    /\ UNCHANGED <<run, added, group, cancelled, result, watcher, stopped, streams, pool>>

ServeFails(s) ==
    /\ Running /\ pc[s] = "serving" /\ ~stopped[s]
    /\ Fails(s)
    /\ UNCHANGED <<run, added, group, cancelled, result, watcher, stopped, streams, pool>>

\* Mutant: the end of the context is noticed, the server is not stopped.
WatchContextLogs(s) ==
    /\ Running /\ watcher[s] = "watching"
    /\ "Others" \in cancelled /\ watcher' = [watcher EXCEPT ![s] = "gone"] /\ UNCHANGED stopped
    /\ UNCHANGED <<run, manager, pc, streams, pool>>

\* The watcher wakes for the context or for the return of Serve.
WatchContext(s) ==
    /\ Running /\ watcher[s] = "watching"
    /\ \/ /\ "Others" \in cancelled
          /\ watcher' = [watcher EXCEPT ![s] = "stopping"]
          /\ stopped' = [stopped EXCEPT ![s] = TRUE]
       \/ /\ Returned(s)
          /\ watcher' = [watcher EXCEPT ![s] = "gone"]
          /\ UNCHANGED stopped
    /\ UNCHANGED <<run, manager, pc, streams, pool>>

\* Mutant: Stop in place of GracefulStop.
GracefulStopCuts(s) ==
    /\ Running /\ watcher[s] = "stopping"
    /\ watcher' = [watcher EXCEPT ![s] = "gone"]
    /\ UNCHANGED <<run, manager, pc, stopped, streams, pool>>

\* The streams are those of the ext-proc server: a health check is one answer.
GracefulStop(s) ==
    /\ Running /\ watcher[s] = "stopping"
    /\ s = "ext-proc" => streams = 0
    /\ watcher' = [watcher EXCEPT ![s] = "gone"]
    /\ UNCHANGED <<run, manager, pc, stopped, streams, pool>>

ServeReturns(s) ==
    /\ Running /\ pc[s] = "serving" /\ stopped[s] /\ watcher[s] = "gone"
    /\ Becomes(s, "ended")
    /\ UNCHANGED <<run, added, group, cancelled, result, watcher, stopped, streams, pool>>

StreamOpens ==
    /\ Running /\ pc["ext-proc"] = "serving" /\ ~stopped["ext-proc"]
    /\ streams < MaxStreams
    /\ streams' = streams + 1
    /\ UNCHANGED <<run, manager, pc, watcher, stopped, pool>>

StreamEnds ==
    /\ Running /\ streams > 0
    /\ streams' = streams - 1
    /\ UNCHANGED <<run, manager, pc, watcher, stopped, pool>>

\* The HTTP server of the metrics and the reconcilers: the port may be taken,
\* and the caches of the reconcilers may not sync in time.
RunnableFails(r) ==
    /\ Running /\ r \notin GRPC /\ pc[r] = "serving" /\ GroupOf(r) \notin cancelled
    /\ Fails(r)
    /\ UNCHANGED <<run, added, group, cancelled, result, watcher, stopped, streams, pool>>

RunnableEnds(r) ==
    /\ Running /\ r \notin GRPC /\ pc[r] = "serving" /\ GroupOf(r) \in cancelled
    /\ Becomes(r, "ended")
    /\ UNCHANGED <<run, added, group, cancelled, result, watcher, stopped, streams, pool>>

\* The pool reconciler sets the pool or clears the datastore.
Reconcile ==
    /\ Running /\ pc["controllers"] = "serving"
    /\ pool' = ~pool
    /\ UNCHANGED <<run, manager, servers>>

Exited == step = "exited" /\ UNCHANGED vars

Steps ==
    \/ ValidateFlags \/ GetConfig \/ NewManager \/ SetUpMapping
    \/ SetupWithManager \/ registerHealthServer \/ AddExtProc \/ registerMetricsHandler
    \/ StartGroup \/ Select \/ CancelGroup \/ GroupReturned \/ StartReturns

Serving ==
    \/ AsRunnable \/ RouterAsRunnable
    \/ \E s \in GRPC : \/ Listen(s) \/ Serve(s) \/ WatchContext(s)
                       \/ GracefulStop(s) \/ ServeReturns(s)
    \/ \E r \in Runnables : RunnableEnds(r)

Next ==
    \/ Steps \/ Serving \/ Signal \/ GraceExpires
    \/ \E s \in GRPC : ServeFails(s)
    \/ \E r \in Runnables : RunnableFails(r)
    \/ StreamOpens \/ StreamEnds
    \/ Reconcile
    \/ Exited

Spec == Init /\ [][Next]_vars

\* Goroutines that can run do, and every ext-proc stream ends: Envoy closes it
\* with its request.  The steps of run and of the servers are finitely many, so
\* that one condition is enough for them.  Nothing rests on the grace period.
Fairness == WF_vars(Steps \/ Serving) /\ WF_vars(StreamEnds)

FairSpec == Spec /\ Fairness

-----------------------------------------------------------------------------

\* A metric flag is refused exactly if it is not empty and not of the form
\* name or name{label=value,...} that stringToMetricSpec documents, blanks
\* around the parts apart: run must not start with a flag it misreads.
FlagsReadRight ==
    step = "mapping" =>
        (NewMetricMapping(flag, <<"letter">>, <<"letter">>).status = "invalid"
            <=> flag # <<>> /\ ~WellFormed(flag))

\* A process that exits with 0 was asked to, by one signal, and served every
\* ext-proc stream to its end (GracefulStop in GRPCServer); the streams of a
\* server whose Serve had failed are the only ones it cuts.
CleanExit ==
    code = "0" => signals = 1 /\ (streams = 0 \/ pc["ext-proc"] = "failed")

\* A signal, or the failure of any server, ends the process, even if the grace
\* period of the manager never runs out: every runnable returns once its
\* context ends, whether or not it was serving by then.
StopEnds == (signals > 0 \/ failure) ~> step = "exited"

Healthy == /\ Running /\ pc["health"] = "serving" /\ ~stopped["health"]
           /\ app = "epp" => pool

\* The health server answers SERVING for the state of the pool alone (Check in
\* cmd/epp/health.go), possibly while the ext-proc runnable still makes its
\* certificate.  The answer is made good: ext-proc serves or the process ends.
HealthyServes == Healthy ~> (pc["ext-proc"] = "serving" \/ step = "exited")
=============================================================================
