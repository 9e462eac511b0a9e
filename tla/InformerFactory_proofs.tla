----------------------- MODULE InformerFactory_proofs -----------------------
(***************************************************************************)
(* The safety of the informer factory for any finite set of types, any      *)
(* callers and any stop channels.  What makes the properties inductive is   *)
(* that the WaitGroup counts the running goroutines exactly, that no caller *)
(* is past the flag of Shutdown before it is set, and what a caller in      *)
(* WaitForCacheSync has still to wait for.                                  *)
(***************************************************************************)
EXTENDS InformerFactory, FiniteSetTheorems, TLAPS

Running == {t \in Types : run[t] = "running"}

\* The count of the WaitGroup and the goroutines it stands for.
CountInv ==
    /\ wg = Cardinality(Running)
    /\ \A t \in Types : run[t] = "none" <=> t \notin started
    /\ started \subseteq Requested

\* The informers callers hold are those of the map.
HeldInv == \A t \in Types : 0 \notin held[t] /\ held[t] \subseteq {informers[t]}

\* Who waits in Shutdown has set the flag, and who has returned saw the end.
DownInv ==
    /\ \A c \in Callers : pc[c] = "shutdown" => shuttingDown
    /\ returned => shuttingDown /\ Running = {}

\* Before the flag is set, every informer that a Start was asked for has been
\* started, and one who waits for the caches has it before or behind it.
SyncInv ==
    ~shuttingDown =>
        \A c \in Callers :
            /\ asked[c] \subseteq started
            /\ pc[c] = "sync" => asked[c] \subseteq todo[c] \cup failed[c] \cup synced

IInv == TypeOK /\ CountInv /\ HeldInv /\ DownInv /\ SyncInv

\* The running goroutines are a finite set, so that they can be counted.
LEMMA RunningFinite ==
    /\ IsFiniteSet(Running)
    /\ Cardinality(Running) \in Nat
    /\ Cardinality(Running) = 0 <=> Running = {}
<1>1. IsFiniteSet(Running)
  BY FactoryAssumption, FS_Subset DEF Running
<1>. QED  BY <1>1, FS_CardinalityType, FS_EmptySet

\* The factory as it is constructed satisfies the invariant.
LEMMA InitIInv == Init => IInv
<1>. SUFFICES ASSUME Init PROVE IInv
  OBVIOUS
<1>1. AnyChan \in Chans
  BY FactoryAssumption DEF AnyChan
<1>2. TypeOK
  BY <1>1 DEF Init, TypeOK
<1>3. Running = {}
  BY DEF Init, Running
<1>4. CountInv
  BY <1>3, FS_EmptySet DEF Init, CountInv, Requested
<1>5. HeldInv /\ DownInv /\ SyncInv
  BY <1>3 DEF Init, HeldInv, DownInv, SyncInv
<1>. QED  BY <1>2, <1>4, <1>5 DEF IInv

\* InformerFor touches the map and what its callers hold.
LEMMA InformerForIInv ==
    ASSUME IInv, NEW c \in Callers, NEW t \in Types, InformerFor(c, t)
    PROVE  IInv'
<1>1. TypeOK'
  BY DEF IInv, TypeOK, InformerFor, newFunc, goroutines, waiting
<1>2. CountInv'
  BY DEF IInv, TypeOK, CountInv, InformerFor, newFunc, goroutines, Running, Requested
<1>3. HeldInv'
  BY DEF IInv, TypeOK, HeldInv, InformerFor, newFunc
<1>4. DownInv' /\ SyncInv'
  BY DEF IInv, DownInv, SyncInv, InformerFor, goroutines, waiting, Running
<1>. QED  BY <1>1, <1>2, <1>3, <1>4 DEF IInv

\* Start adds to the WaitGroup as many as it starts, and nothing once the
\* factory is shutting down.
LEMMA StartIInv ==
    ASSUME IInv, NEW c \in Callers, NEW ch \in Chans, Start(c, ch)
    PROVE  IInv'
<1>. DEFINE new == Requested \ started
<1>1. CASE shuttingDown
  <2>1. UNCHANGED <<made, informers, started, shuttingDown, wg, run, stopCh, closed,
                    synced, pc, arg, todo, failed, held, returned>>
    BY <1>1 DEF Start, waiting
  <2>2. Running' = Running /\ Requested' = Requested
    BY <2>1 DEF Running, Requested
  <2>3. TypeOK'
    BY <2>1 DEF IInv, TypeOK, Start, Requested
  <2>4. CountInv' /\ HeldInv' /\ DownInv' /\ SyncInv'
    BY <1>1, <2>1, <2>2 DEF IInv, CountInv, HeldInv, DownInv, SyncInv
  <2>. QED  BY <2>3, <2>4 DEF IInv
<1>2. CASE ~shuttingDown
  <2>1. /\ UNCHANGED <<made, informers, shuttingDown, closed, synced, pc, arg, todo,
                       failed, held, returned>>
        /\ wg' = wg + Cardinality(new)
        /\ run' = [t \in Types |-> IF t \in new THEN "running" ELSE run[t]]
        /\ stopCh' = [t \in Types |-> IF t \in new THEN ch ELSE stopCh[t]]
        /\ started' = started \cup new
        /\ asked' = [asked EXCEPT ![c] = Requested]
        /\ pc[c] = "idle"
    BY <1>2 DEF Start, waiting
  <2>2. Running' = Running \cup new /\ Running \cap new = {} /\ new \subseteq Types
    BY <2>1 DEF IInv, TypeOK, CountInv, Running, Requested
  <2>3. /\ IsFiniteSet(new) /\ Cardinality(new) \in Nat
        /\ Cardinality(Running') = Cardinality(Running) + Cardinality(new)
    <3>1. IsFiniteSet(new) /\ IsFiniteSet(Running)
      BY <2>2, RunningFinite, FactoryAssumption, FS_Subset
    <3>2. Cardinality(new) \in Nat /\ Cardinality(Running) \in Nat
      BY <3>1, FS_CardinalityType
    <3>3. Cardinality(Running \cup new)
            = Cardinality(Running) + Cardinality(new) - Cardinality(Running \cap new)
      BY <3>1, FS_Union
    <3>4. Cardinality(Running \cap new) = 0
      BY <2>2, FS_EmptySet
    <3>. QED  BY <2>2, <3>1, <3>2, <3>3, <3>4
  <2>4. TypeOK'
    <3>1. wg' \in Nat
      BY <2>1, <2>3 DEF IInv, TypeOK
    <3>2. started' \in SUBSET Types /\ asked' \in [Callers -> SUBSET Types]
      BY <2>1, <2>2 DEF IInv, TypeOK, Requested
    <3>3. run' \in [Types -> {"none", "running", "ended"}] /\ stopCh' \in [Types -> Chans]
      BY <2>1 DEF IInv, TypeOK
    <3>. QED  BY <2>1, <3>1, <3>2, <3>3 DEF IInv, TypeOK
  <2>5. CountInv'
    <3>1. wg' = Cardinality(Running')
      BY <2>1, <2>3 DEF IInv, CountInv
    <3>2. Requested' = Requested
      BY <2>1 DEF Requested
    <3>3. started' \subseteq Requested'
      BY <2>1, <3>2 DEF IInv, CountInv
    <3>4. \A t \in Types : (run[t] = "none")' <=> (t \notin started)'
      BY <2>1 DEF IInv, TypeOK, CountInv
    <3>. QED  BY <3>1, <3>3, <3>4 DEF CountInv
  <2>6. HeldInv' /\ DownInv'
    BY <1>2, <2>1 DEF IInv, HeldInv, DownInv
  <2>7. SyncInv'
    BY <1>2, <2>1 DEF IInv, TypeOK, SyncInv, CountInv, Requested
  <2>. QED  BY <2>4, <2>5, <2>6, <2>7 DEF IInv
<1>. QED  BY <1>1, <1>2

\* Shutdown sets the flag before it waits, and returns at a count of zero.
LEMMA ShutdownIInv ==
    ASSUME IInv, NEW c \in Callers, Shutdown(c) \/ ShutdownReturns(c)
    PROVE  IInv'
<1>1. CASE Shutdown(c)
  BY <1>1 DEF Shutdown, IInv, TypeOK, CountInv, HeldInv, DownInv, SyncInv, Running,
              Requested, goroutines, waiting, history
<1>2. CASE ShutdownReturns(c)
  <2>1. Running = {}
    BY <1>2, RunningFinite DEF ShutdownReturns, IInv, CountInv
  <2>2. Running' = Running /\ Requested' = Requested
    BY <1>2 DEF ShutdownReturns, factory, goroutines, Running, Requested
  <2>3. TypeOK'
    BY <1>2 DEF ShutdownReturns, IInv, TypeOK, factory, goroutines, waiting
  <2>4. CountInv' /\ HeldInv'
    BY <1>2, <2>2 DEF ShutdownReturns, IInv, CountInv, HeldInv, factory, goroutines
  <2>5. DownInv' /\ SyncInv'
    BY <1>2, <2>1, <2>2 DEF ShutdownReturns, IInv, TypeOK, DownInv, SyncInv, factory,
                            goroutines, waiting
  <2>. QED  BY <2>3, <2>4, <2>5 DEF IInv
<1>. QED  BY <1>1, <1>2

\* A caller in WaitForCacheSync works through the started informers.
LEMMA WaitIInv ==
    ASSUME IInv, NEW c \in Callers,
           \/ \E ch \in Chans : WaitForCacheSync(c, ch)
           \/ \E t \in Types : Waited(c, t)
           \/ WaitReturns(c)
    PROVE  IInv'
<1>1. AnyChan \in Chans
  BY FactoryAssumption DEF AnyChan
<1>2. UNCHANGED <<made, informers, started, shuttingDown, wg, run, stopCh, closed,
                  synced, held, asked, returned>>
  BY DEF WaitForCacheSync, Waited, WaitReturns, factory, goroutines, history
<1>3. Running' = Running /\ Requested' = Requested
  BY <1>2 DEF Running, Requested
<1>4. CountInv' /\ HeldInv'
  BY <1>2, <1>3 DEF IInv, CountInv, HeldInv
<1>5. CASE \E ch \in Chans : WaitForCacheSync(c, ch)
  <2>1. PICK ch \in Chans : WaitForCacheSync(c, ch)
    BY <1>5
  <2>2. TypeOK'
    BY <2>1, <1>2 DEF WaitForCacheSync, IInv, TypeOK, Requested
  <2>3. DownInv'
    BY <2>1, <1>2, <1>3 DEF WaitForCacheSync, IInv, TypeOK, DownInv
  <2>4. SyncInv'
    BY <2>1, <1>2 DEF WaitForCacheSync, IInv, TypeOK, SyncInv, CountInv
  <2>. QED  BY <1>4, <2>2, <2>3, <2>4 DEF IInv
<1>6. CASE \E t \in Types : Waited(c, t)
  <2>1. PICK t \in Types : Waited(c, t)
    BY <1>6
  <2>2. TypeOK'
    BY <2>1, <1>2 DEF Waited, IInv, TypeOK
  <2>3. DownInv'
    BY <2>1, <1>2, <1>3 DEF Waited, IInv, DownInv
  <2>4. SyncInv'
    BY <2>1, <1>2 DEF Waited, IInv, TypeOK, SyncInv
  <2>. QED  BY <1>4, <2>2, <2>3, <2>4 DEF IInv
<1>7. CASE WaitReturns(c)
  <2>1. TypeOK'
    BY <1>1, <1>2, <1>7 DEF WaitReturns, IInv, TypeOK
  <2>2. DownInv' /\ SyncInv'
    BY <1>2, <1>3, <1>7 DEF WaitReturns, IInv, TypeOK, DownInv, SyncInv
  <2>. QED  BY <1>4, <2>1, <2>2 DEF IInv
<1>. QED  BY <1>5, <1>6, <1>7

\* A goroutine takes itself off the count when it ends.
LEMMA RunReturnsIInv ==
    ASSUME IInv, NEW t \in Types, RunReturns(t)
    PROVE  IInv'
<1>1. t \in Running /\ Running' = Running \ {t} /\ Requested' = Requested
  BY DEF RunReturns, IInv, TypeOK, Running, Requested
<1>2. Cardinality(Running') = Cardinality(Running) - 1
  BY <1>1, RunningFinite, FS_RemoveElement
<1>3. wg' = Cardinality(Running') /\ wg' \in Nat
  <2>1. Cardinality(Running) \in Nat \ {0}
    BY <1>1, RunningFinite
  <2>2. wg' = wg - 1
    BY DEF RunReturns
  <2>. QED  BY <1>2, <2>1, <2>2 DEF IInv, CountInv
<1>4. TypeOK'
  BY <1>3 DEF RunReturns, IInv, TypeOK, waiting, history
<1>5. CountInv'
  BY <1>1, <1>3 DEF RunReturns, IInv, TypeOK, CountInv
<1>6. HeldInv' /\ DownInv' /\ SyncInv'
  BY <1>1 DEF RunReturns, IInv, HeldInv, DownInv, SyncInv, waiting, history
<1>. QED  BY <1>4, <1>5, <1>6 DEF IInv

\* What the informers and the users of the channels do outside the factory.
LEMMA OutsideIInv ==
    ASSUME IInv, (\E t \in Types : CacheSyncs(t)) \/ (\E ch \in Chans : Close(ch))
    PROVE  IInv'
<1>1. UNCHANGED <<made, informers, started, shuttingDown, wg, run, stopCh, pc, arg,
                  todo, failed, held, asked, returned>>
  BY DEF CacheSyncs, Close, factory, waiting, history
<1>2. Running' = Running /\ Requested' = Requested
  BY <1>1 DEF Running, Requested
<1>3. synced \subseteq synced' /\ synced' \in SUBSET Types /\ closed' \in SUBSET Chans
  BY DEF CacheSyncs, Close, IInv, TypeOK
<1>4. TypeOK'
  BY <1>1, <1>3 DEF IInv, TypeOK
<1>5. CountInv' /\ HeldInv' /\ DownInv'
  BY <1>1, <1>2 DEF IInv, CountInv, HeldInv, DownInv
<1>6. SyncInv'
  BY <1>1, <1>3 DEF IInv, SyncInv
<1>. QED  BY <1>4, <1>5, <1>6 DEF IInv

\* A step that changes nothing keeps the invariant.
LEMMA StutterIInv == IInv /\ UNCHANGED vars => IInv'
  BY DEF vars, factory, goroutines, waiting, history, IInv, TypeOK, CountInv, HeldInv,
         DownInv, SyncInv, Running, Requested

\* Every step of the factory, its callers and its goroutines keeps it.
LEMMA NextIInv == IInv /\ [Next]_vars => IInv'
<1>. SUFFICES ASSUME IInv, [Next]_vars PROVE IInv'
  OBVIOUS
<1>1. ASSUME NEW c \in Callers, NEW resource \in Types \cup {Unknown},
             ForResource(c, resource)
      PROVE  IInv'
  BY <1>1, InformerForIInv, StutterIInv DEF ForResource
<1>2. ASSUME NEW c \in Callers, NEW ch \in Chans, Start(c, ch) PROVE IInv'
  BY <1>2, StartIInv
<1>3. ASSUME NEW c \in Callers, Shutdown(c) \/ ShutdownReturns(c) PROVE IInv'
  BY <1>3, ShutdownIInv
<1>4. ASSUME NEW c \in Callers,
             \/ \E ch \in Chans : WaitForCacheSync(c, ch)
             \/ \E t \in Types : Waited(c, t)
             \/ WaitReturns(c)
      PROVE  IInv'
  BY <1>4, WaitIInv
<1>5. ASSUME NEW t \in Types, RunReturns(t) PROVE IInv'
  BY <1>5, RunReturnsIInv
<1>6. CASE (\E t \in Types : CacheSyncs(t)) \/ (\E ch \in Chans : Close(ch))
  BY <1>6, OutsideIInv
<1>7. CASE UNCHANGED vars
  BY <1>7, StutterIInv
<1>. QED  BY <1>1, <1>2, <1>3, <1>4, <1>5, <1>6, <1>7 DEF Next, Call, Continue

\* The inductive invariant of the factory: the WaitGroup counts the running
\* goroutines exactly, and nobody waits in Shutdown before the flag is set.
THEOREM FactoryInvCorrect == Spec => []IInv
<1>. QED  BY InitIInv, NextIInv, PTL DEF Spec

\* All callers share the one informer of a type that Start runs (InformerFor).
THEOREM HeldIsSharedCorrect == Spec => []HeldIsShared
<1>1. IInv => HeldIsShared
  BY DEF IInv, HeldInv, HeldIsShared
<1>. QED  BY <1>1, FactoryInvCorrect, PTL

\* Who waited for the caches without a failure after Start has its caches,
\* unless the factory is shutting down (WaitForCacheSync).
THEOREM SyncedCorrect == Spec => []SyncedUnlessShutdown
<1>1. IInv => SyncedUnlessShutdown
  BY DEF IInv, SyncInv, SyncedUnlessShutdown
<1>. QED  BY <1>1, FactoryInvCorrect, PTL

\* A step of the factory is a step of RunOnce under the mapping, or none.
LEMMA StepRefines == IInv /\ [Next]_vars => [Runs!Next]_<<started, Running, returned>>
<1>. SUFFICES ASSUME IInv, [Next]_vars
              PROVE  Runs!Next \/ UNCHANGED <<started, Running, returned>>
  OBVIOUS
<1>1. ASSUME NEW c \in Callers, NEW ch \in Chans, Start(c, ch)
      PROVE  Runs!Next \/ UNCHANGED <<started, Running, returned>>
  <2>1. CASE shuttingDown
    BY <1>1, <2>1 DEF Start, Running
  <2>2. CASE ~shuttingDown
    <3>. DEFINE new == Requested \ started
    <3>1. ~returned /\ returned' = returned
      BY <1>1, <2>2 DEF Start, IInv, DownInv
    <3>2. started' = started \cup new /\ Running' = Running \cup new
      BY <1>1, <2>2 DEF Start, IInv, TypeOK, Running, Requested
    <3>3. new \in SUBSET (Types \ started)
      BY DEF Requested
    <3>4. Runs!Begin
      BY <3>1, <3>2, <3>3 DEF Runs!Begin, Running
    <3>. QED  BY <3>4 DEF Runs!Next
  <2>. QED  BY <2>1, <2>2
<1>2. ASSUME NEW c \in Callers, ShutdownReturns(c)
      PROVE  Runs!Next \/ UNCHANGED <<started, Running, returned>>
  <2>1. Running = {}
    BY <1>2, RunningFinite DEF ShutdownReturns, IInv, CountInv
  <2>2. Runs!Finish
    BY <1>2, <2>1 DEF ShutdownReturns, factory, goroutines, Running, Runs!Finish
  <2>. QED  BY <2>2 DEF Runs!Next
<1>3. ASSUME NEW t \in Types, RunReturns(t)
      PROVE  Runs!Next \/ UNCHANGED <<started, Running, returned>>
  <2>1. t \in Running /\ Running' = Running \ {t}
    BY <1>3 DEF RunReturns, IInv, TypeOK, Running
  <2>2. Runs!End
    BY <1>3, <2>1 DEF RunReturns, history, Running, Runs!End
  <2>. QED  BY <2>2 DEF Runs!Next
<1>4. ASSUME UNCHANGED <<started, run, returned>>
      PROVE  UNCHANGED <<started, Running, returned>>
  BY <1>4 DEF Running
<1>5. ASSUME NEW c \in Callers,
             \/ \E resource \in Types \cup {Unknown} : ForResource(c, resource)
             \/ \E ch \in Chans : WaitForCacheSync(c, ch)
             \/ Shutdown(c) \/ WaitReturns(c)
             \/ \E t \in Types : Waited(c, t)
      PROVE  UNCHANGED <<started, run, returned>>
  BY <1>5 DEF ForResource, InformerFor, WaitForCacheSync, Shutdown, WaitReturns, Waited,
              vars, factory, goroutines, history
<1>6. ASSUME (\E t \in Types : CacheSyncs(t)) \/ (\E ch \in Chans : Close(ch))
      PROVE  UNCHANGED <<started, run, returned>>
  BY <1>6 DEF CacheSyncs, Close, factory, history
<1>7. UNCHANGED vars => UNCHANGED <<started, run, returned>>
  BY DEF vars, factory, goroutines, history
<1>. QED
  BY <1>1, <1>2, <1>3, <1>4, <1>5, <1>6, <1>7 DEF Next, Call, Continue

\* The factory implements RunOnce: for any types, callers and channels every
\* informer is run at most once, and after Shutdown has returned none runs.
THEOREM RunsOnceCorrect == Spec => RunsOnce
<1>1. Init => Runs!Init
  BY DEF Init, Runs!Init
<1>2. IInv /\ [Next]_vars => [Runs!Next]_<<started, {t \in Types : run[t] = "running"}, returned>>
  BY StepRefines DEF Running
<1>. QED  BY <1>1, <1>2, FactoryInvCorrect, PTL DEF Spec, RunsOnce, Runs!Spec
=============================================================================
