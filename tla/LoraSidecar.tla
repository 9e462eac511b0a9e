---------------------------- MODULE LoraSidecar ----------------------------
(***************************************************************************)
(* The dynamic LoRA sidecar (tools/dynamic-lora-sidecar).  Its main loop    *)
(* reconciles the adapters of a vLLM server with a ConfigMap file at        *)
(* intervals; a file watcher's thread calls the same reconcile on each      *)
(* change.  Nothing keeps the two apart, and every use of a list in         *)
(* reconcile reads the file again.                                          *)
(***************************************************************************)
EXTENDS Naturals

CONSTANTS
    Adapter,      \* adapter ids
    NoAdapter,    \* no adapter in hand
    MaxChanges,   \* bound: changes of the ConfigMap
    MaxFaults     \* bound: failed reads and requests, crashes of either side

ASSUME SidecarAssumption ==
    NoAdapter \notin Adapter /\ MaxChanges \in Nat /\ MaxFaults \in Nat

Thread == {"main", "watch"}

VARIABLES
    config,      \* the file: ensureExist and ensureNotExist
    registered,  \* the adapters loaded on the server
    up,          \* the server answers
    at,          \* where each thread is in reconcile
    phase,       \* the loop it is in: "load" or "unload"
    kept,        \* the first list it read for that loop
    todo,        \* the adapters left in the loop
    item,        \* the adapter it is about to post
    watching,    \* the observer has started
    event,       \* the watcher has a modification to handle
    changes, faults,
    wanted,      \* history: adapters some version of the file asks to load
    listed       \* history: adapters each list has ever held

server == <<registered, up>>
thread == <<at, phase, kept, todo, item>>
history == <<wanted, listed>>
sidecarVars == <<config, server, thread, watching, event, changes, faults, history>>

Config == [exist : SUBSET Adapter, notExist : SUBSET Adapter]
ToLoad(c) == c.exist \ c.notExist
ToUnload(c) == c.notExist \ c.exist

TypeOK ==
    /\ config \in Config
    /\ registered \subseteq Adapter /\ up \in BOOLEAN
    /\ at \in [Thread -> {"idle", "keep", "drop", "next", "post", "dead"}]
    /\ phase \in [Thread -> {"load", "unload"}]
    /\ kept \in [Thread -> SUBSET Adapter] /\ todo \in [Thread -> SUBSET Adapter]
    /\ item \in [Thread -> Adapter \cup {NoAdapter}]
    /\ \A t \in Thread : /\ item[t] = NoAdapter <=> at[t] # "post"
                         /\ at[t] \in {"next", "post"} \/ todo[t] = {}
    /\ watching \in BOOLEAN /\ event \in BOOLEAN
    /\ changes \in 0..MaxChanges /\ faults \in 0..MaxFaults
    /\ wanted \subseteq Adapter /\ listed \in Config

-----------------------------------------------------------------------------
(* The ConfigMap, the server and the container (external).                  *)

Fault == faults < MaxFaults /\ faults' = faults + 1

ConfigChanges ==
    /\ changes < MaxChanges /\ changes' = changes + 1
    /\ config' \in Config \ {config}
    /\ event' = watching
    /\ wanted' = wanted \cup ToLoad(config')
    /\ listed' = [exist |-> listed.exist \cup config'.exist,
                  notExist |-> listed.notExist \cup config'.notExist]
    /\ UNCHANGED <<server, thread, watching, faults>>

ServerStarts ==
    /\ ~up /\ up' = TRUE
    /\ UNCHANGED <<config, registered, thread, watching, event, changes, faults, history>>

ServerCrashes ==
    /\ up /\ up' = FALSE /\ registered' = {}
    /\ Fault
    /\ UNCHANGED <<config, thread, watching, event, changes, history>>

\* A new process, also after an exception that ends main: both threads are
\* idle, the watcher has seen nothing.
All(v) == [t \in Thread |-> v]

SidecarRestarts ==
    /\ Fault
    /\ at' = All("idle") /\ phase' = All("load") /\ kept' = All({})
    /\ todo' = All({}) /\ item' = All(NoAdapter)
    /\ watching' = FALSE /\ event' = FALSE
    /\ UNCHANGED <<config, server, changes, history>>

-----------------------------------------------------------------------------
(* reconcile, one read or request at a time.                                *)

Goto(t, l) == at' = [at EXCEPT ![t] = l]

\* main calls at intervals, FileChangeHandler for a modification it is told of.
Triggered(t) == t = "watch" => watching /\ event

\* A server that stays unhealthy until the timeout ends the call.
Begin(t) ==
    /\ at[t] = "idle"
    /\ Triggered(t)
    /\ event' = IF t = "watch" THEN FALSE ELSE event
    /\ IF up THEN Goto(t, "keep") /\ phase' = [phase EXCEPT ![t] = "load"]
                                  /\ UNCHANGED watching
             ELSE watching' = TRUE /\ UNCHANGED <<at, phase>>
    /\ UNCHANGED <<config, server, kept, todo, item, changes, faults, history>>

\* A file that cannot be read or validated counts as {}.
Reads(S, got) == (got = S /\ UNCHANGED faults) \/ (got = {} /\ Fault)

\* Mutant: everything the server has is a candidate to unload.
ReadKeptRegistered(t) ==
    /\ at[t] = "keep" /\ Goto(t, "drop")
    /\ kept' = [kept EXCEPT ![t] = IF phase[t] = "load" THEN config.exist
                                   ELSE registered]
    /\ UNCHANGED <<config, server, phase, todo, item, watching, event, changes,
                   faults, history>>

ReadKept(t) ==
    /\ at[t] = "keep" /\ Goto(t, "drop")
    /\ \E got \in SUBSET Adapter :
        /\ Reads(IF phase[t] = "load" THEN config.exist ELSE config.notExist, got)
        /\ kept' = [kept EXCEPT ![t] = got]
    /\ UNCHANGED <<config, server, phase, todo, item, watching, event, changes, history>>

ReadDropped(t) ==
    /\ at[t] = "drop" /\ Goto(t, "next")
    /\ \E got \in SUBSET Adapter :
        /\ Reads(IF phase[t] = "load" THEN config.notExist ELSE config.exist, got)
        /\ todo' = [todo EXCEPT ![t] = kept[t] \ got]
    /\ kept' = [kept EXCEPT ![t] = {}]
    /\ UNCHANGED <<config, server, phase, item, watching, event, changes, history>>

\* Mutant: unload_adapter skips the adapters that are there.
CheckRegisteredInverted(t) ==
    /\ at[t] = "next"
    /\ \E a \in todo[t] :
        /\ todo' = [todo EXCEPT ![t] = @ \ {a}]
        /\ IF up /\ a \in registered THEN UNCHANGED <<at, item>>
           ELSE Goto(t, "post") /\ item' = [item EXCEPT ![t] = a]
    /\ UNCHANGED <<config, server, phase, kept, watching, event, changes, faults,
                   history>>

\* load_adapter and unload_adapter ask the server first.  A server that does
\* not answer has no adapters.
CheckRegistered(t) ==
    /\ at[t] = "next"
    /\ \E a \in todo[t], got \in {registered, {}} :
        /\ Reads(IF up THEN registered ELSE {}, got)
        /\ todo' = [todo EXCEPT ![t] = @ \ {a}]
        /\ IF (a \in got) = (phase[t] = "load") THEN UNCHANGED <<at, item>>
           ELSE Goto(t, "post") /\ item' = [item EXCEPT ![t] = a]
    /\ UNCHANGED <<config, server, phase, kept, watching, event, changes, history>>

\* A reply without "data" raises what registered_adapters does not catch.  It
\* ends the thread that called on_modified, and the watch with it; in main it
\* ends the process (SidecarRestarts).
WatcherDies ==
    /\ at["watch"] = "next" /\ todo["watch"] # {} /\ up
    /\ Fault
    /\ Goto("watch", "dead")
    /\ todo' = [todo EXCEPT !["watch"] = {}]
    /\ UNCHANGED <<config, server, phase, kept, item, watching, event, changes, history>>

\* The request to load or to unload; its failure is logged.
Post(t) ==
    /\ at[t] = "post" /\ Goto(t, "next")
    /\ item' = [item EXCEPT ![t] = NoAdapter]
    /\ \/ /\ up
          /\ registered' = IF phase[t] = "load" THEN registered \cup {item[t]}
                           ELSE registered \ {item[t]}
          /\ UNCHANGED faults
       \/ ~up /\ UNCHANGED <<registered, faults>>
       \/ up /\ Fault /\ UNCHANGED registered
    /\ UNCHANGED <<config, up, phase, kept, todo, watching, event, changes, history>>

\* The end of a loop; when main's first reconcile returns the observer starts.
LoopEnds(t) ==
    /\ at[t] = "next" /\ todo[t] = {}
    /\ IF phase[t] = "load"
       THEN Goto(t, "keep") /\ phase' = [phase EXCEPT ![t] = "unload"] /\ UNCHANGED watching
       ELSE Goto(t, "idle") /\ watching' = TRUE /\ UNCHANGED phase
    /\ UNCHANGED <<config, server, kept, todo, item, event, changes, faults, history>>

reconcile(t) ==
    Begin(t) \/ ReadKept(t) \/ ReadDropped(t) \/ CheckRegistered(t) \/ Post(t) \/ LoopEnds(t)

-----------------------------------------------------------------------------
SidecarInit ==
    /\ config \in Config /\ registered = {} /\ up = FALSE
    /\ at = All("idle") /\ phase = All("load") /\ kept = All({})
    /\ todo = All({}) /\ item = All(NoAdapter)
    /\ watching = FALSE /\ event = FALSE /\ changes = 0 /\ faults = 0
    /\ wanted = ToLoad(config) /\ listed = config

SidecarNext ==
    \/ ConfigChanges \/ ServerStarts \/ ServerCrashes \/ SidecarRestarts \/ WatcherDies
    \/ \E t \in Thread : reconcile(t)

SidecarSpec == SidecarInit /\ [][SidecarNext]_sidecarVars

\* The server comes up, both threads are scheduled and the period elapses.
SidecarFairSpec ==
    SidecarSpec /\ WF_sidecarVars(ServerStarts) /\ \A t \in Thread : WF_sidecarVars(reconcile(t))

-----------------------------------------------------------------------------
(* Properties.                                                              *)

\* README.md:14: once the file, the server and the container are left alone
\* the two threads bring the server to the desired state and keep it there,
\* whatever a thread had read of an older version.
Consistent == ToLoad(config) \subseteq registered /\ ToUnload(config) \cap registered = {}
Converges == <>[]Consistent

\* Torn reads and two threads notwithstanding, a step of reconcile loads only
\* what ensureExist has held, and unloads only what ensureNotExist has held.
TouchesOnlyListed ==
    [][up => /\ registered' \ registered \subseteq listed.exist
             /\ up' => registered \ registered' \subseteq listed.notExist]_sidecarVars

\* sidecar.py:254: reconcile follows a version of the ConfigMap, so it loads
\* only what some version asks for.
LoadsOnlyWanted == registered \subseteq wanted
=============================================================================
