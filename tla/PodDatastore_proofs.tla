------------------------ MODULE PodDatastore_proofs ------------------------
(***************************************************************************)
(* Proofs about PodDatastore, for every number of pods, selectors, labels   *)
(* and addresses and every bound.                                           *)
(***************************************************************************)
EXTENDS PodDatastoreHistory, TLAPS

\* The values that stand for a missing pool, pod and address have their types.
LEMMA DefaultsTyped ==
    /\ NoIP \in IP
    /\ NoPool \in PoolObj /\ NoPool.phase = "absent"
    /\ NoPod \in PodObj /\ NoPod.phase = "absent"
<1>1. NoIP \in IP
  BY DomainsAssumption DEF NoIP
<1>2. (CHOOSE s \in Selectors : TRUE) \in Selectors
  BY DomainsAssumption
<1>3. (CHOOSE l \in PodLabels : TRUE) \in PodLabels
  BY DomainsAssumption
<1> QED
  BY <1>1, <1>2, <1>3 DEF NoPool, NoPod, PoolObj, PodObj, Phase

\* A process that starts, with an empty store, has its types.
LEMMA TypeInit == Init => TypeOK
  BY DefaultsTyped, BoundsAssumption
     DEF Init, TypeOK, PM, PC, Worker, PoolObj, PodObj, Handling

\* The steps that StoreOps(w) and the two reconcilers are made of keep the
\* types.
LEMMA TypeNext == TypeOK /\ [Next]_vars => TypeOK'
<1> SUFFICES ASSUME TypeOK, [Next]_vars PROVE TypeOK'
  OBVIOUS
<1> USE DefaultsTyped, BoundsAssumption, DomainsAssumption
    DEF TypeOK, PM, PC, Worker, Handling, cluster, store, worker, locals
<1>1. CASE PoolChange
  BY <1>1 DEF PoolChange
<1>2. ASSUME NEW p \in Pod, PodChange(p) PROVE TypeOK'
  BY <1>2 DEF PodChange
<1>3. ASSUME NEW w \in Worker, PodLoad(w) PROVE TypeOK'
  BY <1>3 DEF PodLoad, Goto
<1>4. ASSUME NEW w \in Worker, PodStoreNew(w) PROVE TypeOK'
  BY <1>4 DEF PodStoreNew
<1>5. ASSUME NEW w \in Worker, PodUpdate(w) PROVE TypeOK'
  BY <1>5 DEF PodUpdate, Return, Caller
<1>6. ASSUME NEW w \in Worker, PodDeleteMiss(w) PROVE TypeOK'
  BY <1>6 DEF PodDeleteMiss, Return, Caller
<1>7. ASSUME NEW w \in Worker, PodDelete(w) PROVE TypeOK'
  BY <1>7 DEF PodDelete, Goto
<1>8. ASSUME NEW w \in Worker, StopRefreshLoop(w) PROVE TypeOK'
  <2>1. held[w] \in PM
    BY <1>8 DEF StopRefreshLoop
  <2>2. closed' \subseteq PM
    BY <1>8, <2>1 DEF StopRefreshLoop
  <2>3. \A v \in Worker :
            /\ pc'[v] \in Handling => key'[v] \in Pod
            /\ pc'[v] = "stop" => held'[v] \in PM
    BY <1>8 DEF StopRefreshLoop, Return, Caller
  <2> QED
    BY <1>8, <2>2, <2>3 DEF StopRefreshLoop, Return, Caller
<1>9. ASSUME NEW m \in PM, RefresherExit(m) PROVE TypeOK'
  BY <1>9 DEF RefresherExit
<1>10. ASSUME NEW p \in Pod, PodReconcile(p) PROVE TypeOK'
  BY <1>10 DEF PodReconcile, Goto
<1>11. CASE PodGet
  BY <1>11 DEF PodGet, Goto
<1>12. CASE PodGetFails
  BY <1>12 DEF PodGetFails, Requeue, Return, Caller
<1>13. CASE PodMatch
  BY <1>13 DEF PodMatch, Goto, PodObj
<1>14. CASE PodMatchPanics
  BY <1>14 DEF PodMatchPanics, Requeue, Return, Caller
<1>15. CASE PoolReconcile
  BY <1>15 DEF PoolReconcile, Goto
<1>16. CASE PoolGetFails
  BY <1>16 DEF PoolGetFails
<1>17. CASE Clear
  BY <1>17 DEF Clear, Goto
<1>18. CASE PoolSet
  BY <1>18 DEF PoolSet, Goto
<1>19. CASE PodResyncAll
  BY <1>19 DEF PodResyncAll, Goto, PodObj
<1>20. CASE PodListFails
  BY <1>20 DEF PodListFails, Goto
<1>21. ASSUME NEW p \in Pod, NEW i \in IP, ResyncAdd(p, i) PROVE TypeOK'
  BY <1>21 DEF ResyncAdd, Goto
<1>22. CASE ResyncRange
  BY <1>22 DEF ResyncRange, Goto
<1>23. ASSUME NEW p \in Pod, ResyncDelete(p) PROVE TypeOK'
  BY <1>23 DEF ResyncDelete, Goto
<1>24. CASE ResyncDone
  BY <1>24 DEF ResyncDone, Goto
<1>25. CASE UNCHANGED vars
  BY <1>25 DEF vars
<1> QED
  BY <1>1, <1>2, <1>3, <1>4, <1>5, <1>6, <1>7, <1>8, <1>9, <1>10, <1>11,
     <1>12, <1>13, <1>14, <1>15, <1>16, <1>17, <1>18, <1>19, <1>20, <1>21,
     <1>22, <1>23, <1>24, <1>25
     DEF Next, Environment, PodWorker, PoolWorker, StoreOps

\* The reconcilers and the store keep their types whatever the interleaving.
THEOREM TypeCorrect == Spec => []TypeOK
<1> QED
  BY TypeInit, TypeNext, PTL DEF Spec

-----------------------------------------------------------------------------
(* Ownership of a PodMetrics.  It is unallocated, or in the map under one   *)
(* key, or held by the one worker that took it out of the map to stop it,   *)
(* or neither any more (stopped, or leaked by Clear or by an overwrite).    *)

Owned(m) == m < nextPM /\ m \in running /\ m \notin closed

MapOwns ==
    /\ \A p \in Pod : dsPods[p] # 0 => Owned(dsPods[p])
    /\ \A p, q \in Pod : (p # q /\ dsPods[p] # 0) => dsPods[p] # dsPods[q]

StopperOwns ==
    /\ \A w \in Worker : pc[w] = "stop" =>
        /\ Owned(held[w])
        /\ \A p \in Pod : dsPods[p] # held[w]
    /\ \A v, w \in Worker :
        (v # w /\ pc[v] = "stop" /\ pc[w] = "stop") => held[v] # held[w]

FreshUnused == \A m \in running \cup closed : m < nextPM

PMInv == MapOwns /\ StopperOwns /\ FreshUnused

\* The empty store owns no PodMetrics.
LEMMA PMInvInit == Init => PMInv
  BY DEF Init, PMInv, MapOwns, StopperOwns, FreshUnused, Worker

\* Every step of the reconcilers and refreshers keeps the ownership: Store
\* publishes a new PodMetrics, LoadAndDelete hands one over to its stopper.
LEMMA PMInvNext == TypeOK /\ PMInv /\ [Next]_vars => PMInv'
<1> SUFFICES ASSUME TypeOK, PMInv, [Next]_vars PROVE PMInv'
  OBVIOUS
<1> USE DEF PMInv, MapOwns, StopperOwns, FreshUnused, Owned
<1> USE DEF TypeOK, PM, Worker, Handling, cluster, store, worker, locals
<1>1. CASE PoolChange
  BY <1>1 DEF PoolChange
<1>2. ASSUME NEW p \in Pod, PodChange(p) PROVE PMInv'
  BY <1>2 DEF PodChange
<1>3. ASSUME NEW w \in Worker, PodLoad(w) PROVE PMInv'
  BY <1>3 DEF PodLoad, Goto
<1>4. ASSUME NEW w \in Worker, PodStoreNew(w) PROVE PMInv'
  <2>1. MapOwns'
    BY <1>4, BoundsAssumption DEF PodStoreNew
  <2>2. StopperOwns'
    BY <1>4, BoundsAssumption DEF PodStoreNew
  <2>3. FreshUnused'
    BY <1>4, BoundsAssumption DEF PodStoreNew
  <2> QED
    BY <2>1, <2>2, <2>3
<1>5. ASSUME NEW w \in Worker, PodUpdate(w) PROVE PMInv'
  BY <1>5 DEF PodUpdate, Return, Caller
<1>6. ASSUME NEW w \in Worker, PodDeleteMiss(w) PROVE PMInv'
  BY <1>6 DEF PodDeleteMiss, Return, Caller
<1>7. ASSUME NEW w \in Worker, PodDelete(w) PROVE PMInv'
  <2>1. MapOwns'
    BY <1>7 DEF PodDelete, Goto
  <2>2. StopperOwns'
    BY <1>7 DEF PodDelete, Goto
  <2>3. FreshUnused'
    BY <1>7 DEF PodDelete, Goto
  <2> QED
    BY <2>1, <2>2, <2>3
<1>8. ASSUME NEW w \in Worker, StopRefreshLoop(w) PROVE PMInv'
  <2>1. MapOwns'
    BY <1>8 DEF StopRefreshLoop, Return, Caller
  <2>2. StopperOwns'
    BY <1>8 DEF StopRefreshLoop, Return, Caller
  <2>3. FreshUnused'
    BY <1>8 DEF StopRefreshLoop, Return, Caller
  <2> QED
    BY <2>1, <2>2, <2>3
<1>9. ASSUME NEW m \in PM, RefresherExit(m) PROVE PMInv'
  BY <1>9 DEF RefresherExit
<1>10. ASSUME NEW p \in Pod, PodReconcile(p) PROVE PMInv'
  BY <1>10 DEF PodReconcile, Goto
<1>11. CASE PodGet
  BY <1>11 DEF PodGet, Goto
<1>12. CASE PodGetFails
  BY <1>12 DEF PodGetFails, Requeue, Return, Caller
<1>13. CASE PodMatch
  BY <1>13 DEF PodMatch, Goto
<1>14. CASE PodMatchPanics
  BY <1>14 DEF PodMatchPanics, Requeue, Return, Caller
<1>15. CASE PoolReconcile
  BY <1>15 DEF PoolReconcile, Goto
<1>16. CASE PoolGetFails
  BY <1>16 DEF PoolGetFails
<1>17. CASE Clear
  BY <1>17 DEF Clear, Goto
<1>18. CASE PoolSet
  BY <1>18 DEF PoolSet, Goto
<1>19. CASE PodResyncAll
  BY <1>19 DEF PodResyncAll, Goto
<1>20. CASE PodListFails
  BY <1>20 DEF PodListFails, Goto
<1>21. ASSUME NEW p \in Pod, NEW i \in IP, ResyncAdd(p, i) PROVE PMInv'
  BY <1>21 DEF ResyncAdd, Goto
<1>22. CASE ResyncRange
  BY <1>22 DEF ResyncRange, Goto
<1>23. ASSUME NEW p \in Pod, ResyncDelete(p) PROVE PMInv'
  BY <1>23 DEF ResyncDelete, Goto
<1>24. CASE ResyncDone
  BY <1>24 DEF ResyncDone, Goto
<1>25. CASE UNCHANGED vars
  BY <1>25 DEF vars
<1> QED
  BY <1>1, <1>2, <1>3, <1>4, <1>5, <1>6, <1>7, <1>8, <1>9, <1>10, <1>11,
     <1>12, <1>13, <1>14, <1>15, <1>16, <1>17, <1>18, <1>19, <1>20, <1>21,
     <1>22, <1>23, <1>24, <1>25
     DEF Next, Environment, PodWorker, PoolWorker, StoreOps

\* Ownership is an invariant of every behaviour.
THEOREM PMInvCorrect == Spec => []PMInv
<1>1. TypeOK /\ PMInv /\ [Next]_vars => PMInv'
  BY PMInvNext
<1> QED
  BY <1>1, PMInvInit, TypeCorrect, PTL DEF Spec

\* Nobody ever closes the done channel of a PodMetrics a second time, so
\* StopRefreshLoop never panics, for any number of pods and any interleaving
\* of the two reconcilers.
THEOREM CloseOnceCorrect == Spec => []CloseOnce
<1>1. PMInv => CloseOnce
  BY DEF PMInv, StopperOwns, Owned, CloseOnce
<1> QED
  BY <1>1, PMInvCorrect, PTL

\* Every stored PodMetrics has a refresher that runs and was not stopped, and
\* it is stored under one key only.
THEOREM StoredRefreshesCorrect == Spec => []StoredRefreshes
<1>1. PMInv => StoredRefreshes
  BY DEF PMInv, MapOwns, Owned, StoredRefreshes, Stored
<1> QED
  BY <1>1, PMInvCorrect, PTL

-----------------------------------------------------------------------------
(* How a refresher is orphaned.                                             *)

\* A PodMetrics is in the map under some key, or under none.
LEMMA StoredUnder ==
    ASSUME NEW m \in PM
    PROVE  m \in Stored <=> \E p \in Pod : dsPods[p] = m
BY BoundsAssumption DEF Stored, PM

\* The same after a step.
LEMMA StoredUnderNext ==
    ASSUME NEW m \in PM
    PROVE  m \in Stored' <=> \E p \in Pod : dsPods'[p] = m
BY BoundsAssumption DEF Stored, PM

\* A step that leaves the map, the refreshers and the stoppers alone.
LEMMA LeakStepQuiet ==
    ASSUME NEW m \in PM, UNCHANGED <<dsPods, running, closed>>,
           \A w \in Worker : /\ pc'[w] = "stop" <=> pc[w] = "stop"
                             /\ pc[w] = "stop" => held'[w] = held[w]
    PROVE  LeakStep(m)
<1>1. Stored' = Stored
  BY DEF Stored
<1>2. Orphan(m)' <=> Orphan(m)
  BY <1>1 DEF Orphan
<1> QED
  BY <1>2 DEF LeakStep

\* The steps on the store: only PodStoreNew takes an entry from the map that
\* nobody will stop.
LEMMA LeakStepStore ==
    ASSUME TypeOK, PMInv, NEW m \in PM, NEW w \in Worker, StoreOps(w)
    PROVE  LeakStep(m)
<1> USE DEF TypeOK, Worker, cluster, store, worker, locals
<1>1. CASE PodLoad(w)
  BY <1>1, LeakStepQuiet DEF PodLoad, Goto
<1>2. CASE PodStoreNew(w)
  <2>1. /\ pc[w] = "store" /\ held[w] = 0 /\ key[w] \in Pod /\ nextPM \in PM
        /\ dsPods' = [dsPods EXCEPT ![key[w]] = nextPM]
        /\ running' = running \cup {nextPM} /\ closed' = closed
        /\ pc' = pc /\ held' = [held EXCEPT ![w] = nextPM]
    BY <1>2, BoundsAssumption DEF PodStoreNew, Handling, PM
  <2>2. \A v \in Worker : pc[v] = "stop" => held'[v] = held[v]
    BY <2>1
  <2>3. CASE m = nextPM
    <3>1. dsPods'[key[w]] = m /\ m \notin running
      BY <2>1, <2>3 DEF PMInv, FreshUnused, PM
    <3>2. m \in Stored'
      BY <2>1, <3>1, StoredUnderNext
    <3> QED
      BY <3>1, <3>2 DEF LeakStep, Orphan
  <2>4. CASE m # nextPM
    <3>1. m \in running' \ closed' <=> m \in running \ closed
      BY <2>1, <2>4
    <3>2. m \in Stored' => m \in Stored
      BY <2>1, <2>4, StoredUnder, StoredUnderNext
    <3>3. m \in Stored /\ m \notin Stored' => dsPods[key[w]] = m
      BY <2>1, <2>4, StoredUnder, StoredUnderNext
    <3>4. Orphan(m) => Orphan(m)'
      BY <2>1, <2>2, <3>1, <3>2 DEF Orphan
    <3>5. ~Orphan(m) /\ Orphan(m)' => m \in Stored /\ m \notin Stored'
      BY <2>1, <2>2, <3>1 DEF Orphan
    <3>6. dsPods'[key[w]] = held'[w]
      BY <2>1
    <3> QED
      BY <2>1, <3>3, <3>4, <3>5, <3>6 DEF LeakStep, Dropped
  <2> QED
    BY <2>3, <2>4
<1>3. CASE PodUpdate(w)
  BY <1>3, LeakStepQuiet DEF PodUpdate, Return, Caller
<1>4. CASE PodDeleteMiss(w)
  BY <1>4, LeakStepQuiet DEF PodDeleteMiss, Return, Caller
<1>5. CASE PodDelete(w)
  <2>1. /\ pc[w] = "delete" /\ key[w] \in Pod /\ dsPods[key[w]] # 0
        /\ dsPods' = [dsPods EXCEPT ![key[w]] = 0]
        /\ running' = running /\ closed' = closed
        /\ pc' = [pc EXCEPT ![w] = "stop"]
        /\ held' = [held EXCEPT ![w] = dsPods[key[w]]]
    BY <1>5 DEF PodDelete, Goto, Handling
  <2>2. m # 0
    BY DEF PM
  <2>3. CASE m = dsPods[key[w]]
    <3>1. pc'[w] = "stop" /\ held'[w] = m /\ m \in Stored
      BY <2>1, <2>3, StoredUnder
    <3> QED
      BY <3>1 DEF LeakStep, Orphan
  <2>4. CASE m # dsPods[key[w]]
    <3>1. m \in Stored' <=> m \in Stored
      BY <2>1, <2>2, <2>4, StoredUnder, StoredUnderNext
    <3>2. (\A v \in Worker : pc'[v] = "stop" => held'[v] # m)
             <=> (\A v \in Worker : pc[v] = "stop" => held[v] # m)
      BY <2>1, <2>4
    <3> QED
      BY <2>1, <3>1, <3>2 DEF LeakStep, Orphan
  <2> QED
    BY <2>3, <2>4
<1>6. CASE StopRefreshLoop(w)
  <2>1. /\ pc[w] = "stop" /\ closed' = closed \cup {held[w]}
        /\ dsPods' = dsPods /\ running' = running
        /\ \A v \in Worker : v # w => pc'[v] = pc[v] /\ held'[v] = held[v]
        /\ pc'[w] # "stop"
    BY <1>6 DEF StopRefreshLoop, Return, Caller
  <2>2. Stored' = Stored
    BY <2>1 DEF Stored
  <2>3. CASE m = held[w]
    BY <2>1, <2>3 DEF LeakStep, Orphan
  <2>4. CASE m # held[w]
    <3>1. (\A v \in Worker : pc'[v] = "stop" => held'[v] # m)
             <=> (\A v \in Worker : pc[v] = "stop" => held[v] # m)
      BY <2>1, <2>4
    <3> QED
      BY <2>1, <2>2, <2>4, <3>1 DEF LeakStep, Orphan
  <2> QED
    BY <2>3, <2>4
<1> QED
  BY <1>1, <1>2, <1>3, <1>4, <1>5, <1>6 DEF StoreOps

\* Whatever the interleaving of the two reconcilers: a refresher leaks only when
\* Clear drops its entry or a Store replaces one that its Load did not see, and
\* it is then never stopped.
THEOREM LeaksCorrect == Spec => LeaksByClearOrOvertaken
<1>1. ASSUME TypeOK, PMInv, [Next]_vars, NEW m \in PM PROVE LeakStep(m)
  <2> USE DEF TypeOK, Worker, cluster, store, worker, locals
  <2>1. ASSUME NEW w \in Worker, StoreOps(w) PROVE LeakStep(m)
    BY <1>1, <2>1, LeakStepStore
  <2>2. CASE Environment
    BY <1>1, <2>2, LeakStepQuiet DEF Environment, PoolChange, PodChange
  <2>3. ASSUME NEW n \in PM, RefresherExit(n) PROVE LeakStep(m)
    <3>1. Stored' = Stored
      BY <2>3 DEF RefresherExit, Stored
    <3>2. (m \in running' \ closed') <=> (m \in running \ closed)
      BY <2>3 DEF RefresherExit
    <3> QED
      BY <2>3, <3>1, <3>2 DEF RefresherExit, LeakStep, Orphan
  <2>4. CASE (\E p \in Pod : PodReconcile(p)) \/ PodGet \/ PodMatch
    BY <1>1, <2>4, LeakStepQuiet DEF PodReconcile, PodGet, PodMatch, Goto
  <2>5. CASE PodGetFails \/ PodMatchPanics
    BY <1>1, <2>5, LeakStepQuiet DEF PodGetFails, PodMatchPanics, Requeue, Return, Caller
  <2>6. CASE Clear
    <3>1. /\ dsPool'.phase = "absent" /\ pc["pool"] = "apply" /\ pc'["pool"] = "idle"
          /\ \A p \in Pod : dsPods'[p] = 0
          /\ UNCHANGED <<running, closed, held>> /\ pc'["pod"] = pc["pod"]
      BY <1>1, <2>6, DefaultsTyped DEF Clear, Goto
    <3>2. m \notin Stored' /\ (m \in Stored => \E p \in Pod : dsPods[p] = m)
      BY <3>1, StoredUnder, StoredUnderNext DEF PM
    <3>3. (\A v \in Worker : pc'[v] = "stop" => held'[v] # m)
             <=> (\A v \in Worker : pc[v] = "stop" => held[v] # m)
      BY <3>1
    <3> QED
      BY <3>1, <3>2, <3>3 DEF LeakStep, Dropped, Orphan
  <2>7. CASE PoolReconcile \/ PoolGetFails \/ PoolSet \/ PodResyncAll \/ PodListFails
    BY <1>1, <2>7, LeakStepQuiet
       DEF PoolReconcile, PoolGetFails, PoolSet, PodResyncAll, PodListFails, Goto
  <2>8. CASE (\E p \in Pod, i \in IP : ResyncAdd(p, i)) \/ ResyncRange \/ ResyncDone
             \/ \E p \in Pod : ResyncDelete(p)
    BY <1>1, <2>8, LeakStepQuiet DEF ResyncAdd, ResyncRange, ResyncDone, ResyncDelete, Goto
  <2>9. CASE UNCHANGED vars
    BY <1>1, <2>9, LeakStepQuiet DEF vars
  <2> QED
    BY <1>1, <2>1, <2>2, <2>3, <2>4, <2>5, <2>6, <2>7, <2>8, <2>9
       DEF Next, PodWorker, PoolWorker
<1>2. TypeOK /\ PMInv /\ [Next]_vars => [\A m \in PM : LeakStep(m)]_vars
  BY <1>1
<1> QED
  BY <1>2, TypeCorrect, PMInvCorrect, PTL DEF Spec, LeaksByClearOrOvertaken

-----------------------------------------------------------------------------
(* Leaks.  While the reconcilers have never overlapped, the worker at Store *)
(* still has what Load found, so that a Store overwrites nothing, and the   *)
(* store is empty whenever there is no pool, so that only a Clear that is   *)
(* recorded can drop an entry.                                              *)

Idle(w) == pc[w] = "idle"

NoLeak ==
    /\ Idle("pod") \/ Idle("pool")
    /\ \A w \in Worker : pc[w] = "store" => held[w] = dsPods[key[w]]
    /\ dsPool.phase = "absent" =>
          /\ Idle("pod") /\ pc["pool"] \in {"idle", "apply"}
          /\ \A p \in Pod : dsPods[p] = 0
    /\ ~cleared => \A m \in running \ closed :
          \/ \E p \in Pod : dsPods[p] = m
          \/ \E w \in Worker : pc[w] = "stop" /\ held[w] = m

LeakInv == ~raced => NoLeak

\* The history only looks on: every behaviour with it is one without.
LEMMA HStep == [HNext]_hvars => [Next]_vars
BY DEF HNext, hvars

\* Types and ownership hold in every behaviour with its history.
LEMMA HTypes == HSpec => [](TypeOK /\ PMInv)
<1>1. HInit => TypeOK /\ PMInv
  BY TypeInit, PMInvInit DEF HInit
<1>2. TypeOK /\ PMInv /\ [HNext]_hvars => TypeOK' /\ PMInv'
  BY TypeNext, PMInvNext, HStep
<1> QED
  BY <1>1, <1>2, PTL DEF HSpec

\* What the history says of a step after which nothing has raced.
LEMMA UnracedStep ==
    ASSUME LeakInv, [HNext]_hvars, ~raced'
    PROVE  /\ ~raced /\ NoLeak /\ [Next]_vars
           /\ Idle("pod")' \/ Idle("pool")'
           /\ ~cleared' => ~cleared /\ (dsPool'.phase = "absent" => dsPool.phase = "absent")
<1>1. ~raced /\ NoLeak
  <2>1. CASE HNext
    BY <2>1, Zenon DEF LeakInv, HNext, Record
  <2>2. CASE UNCHANGED hvars
    BY <2>2 DEF LeakInv, hvars
  <2> QED
    BY <2>1, <2>2
<1>2. CASE HNext
  BY <1>1, <1>2, Zenon DEF HNext, Record, Overlap, Idle
<1>3. CASE UNCHANGED hvars
  BY <1>1, <1>3 DEF hvars, vars, store, worker, NoLeak, Idle
<1> QED
  BY <1>1, <1>2, <1>3, HStep

\* A step that leaves the map, the refreshers and what Load found alone.
LEMMA LeakQuiet ==
    ASSUME TypeOK, LeakInv, [HNext]_hvars, ~raced',
           UNCHANGED <<dsPods, running, closed>>,
           \A w \in Worker :
               /\ pc'[w] = "store" => pc[w] = "store" /\ held'[w] = held[w] /\ key'[w] = key[w]
               /\ pc[w] = "stop" => pc'[w] = "stop" /\ held'[w] = held[w],
           dsPool'.phase = "absent" =>
               /\ dsPool.phase = "absent"
               /\ pc'["pod"] = pc["pod"] /\ pc'["pool"] \in {"idle", "apply"}
    PROVE  NoLeak'
<1>1. /\ NoLeak /\ (Idle("pod")' \/ Idle("pool")') /\ (~cleared' => ~cleared)
  BY UnracedStep
<1>2. (\A w \in Worker : pc[w] = "store" => held[w] = dsPods[key[w]])'
  BY <1>1 DEF NoLeak
<1>3. (dsPool.phase = "absent" => /\ Idle("pod") /\ pc["pool"] \in {"idle", "apply"}
                                  /\ \A p \in Pod : dsPods[p] = 0)'
  BY <1>1 DEF NoLeak, Idle
<1>4. (~cleared => \A m \in running \ closed :
          \/ \E p \in Pod : dsPods[p] = m
          \/ \E w \in Worker : pc[w] = "stop" /\ held[w] = m)'
  BY <1>1 DEF NoLeak
<1> QED
  BY <1>1, <1>2, <1>3, <1>4 DEF NoLeak

\* Without an overlap so far, every step keeps the refreshers accounted for.
LEMMA LeakNext == TypeOK /\ PMInv /\ LeakInv /\ [HNext]_hvars => LeakInv'
<1> SUFFICES ASSUME TypeOK, PMInv, LeakInv, [HNext]_hvars, ~raced' PROVE NoLeak'
  BY DEF LeakInv
<1>1. /\ NoLeak /\ [Next]_vars /\ (Idle("pod")' \/ Idle("pool")')
      /\ ~cleared' => ~cleared /\ (dsPool'.phase = "absent" => dsPool.phase = "absent")
  BY UnracedStep
<1> USE DEF TypeOK, Worker, cluster, store, worker, locals
<1>2. CASE PoolChange
  BY <1>1, <1>2, LeakQuiet DEF PoolChange, NoLeak
<1>3. ASSUME NEW p \in Pod, PodChange(p) PROVE NoLeak'
  BY <1>1, <1>3, LeakQuiet DEF PodChange, NoLeak
<1>4. ASSUME NEW w \in Worker, PodLoad(w) PROVE NoLeak'
  BY <1>1, <1>4 DEF PodLoad, Goto, NoLeak, Idle
<1>5. ASSUME NEW w \in Worker, PodStoreNew(w) PROVE NoLeak'
  <2>1. /\ pc[w] = "store" /\ held[w] = 0 /\ key[w] \in Pod /\ nextPM \in PM
        /\ dsPods' = [dsPods EXCEPT ![key[w]] = nextPM]
        /\ running' = running \cup {nextPM} /\ closed' = closed /\ dsPool' = dsPool
        /\ pc' = pc /\ held' = [held EXCEPT ![w] = nextPM] /\ key' = key
    BY <1>5, BoundsAssumption DEF PodStoreNew, Handling, PM
  <2>2. dsPods[key[w]] = 0 /\ \A v \in Worker : v # w => pc[v] = "idle"
    BY <1>1, <2>1 DEF NoLeak, Idle
  <2>3. (\A v \in Worker : pc[v] = "store" => held[v] = dsPods[key[v]])'
    BY <2>1, <2>2
  <2>4. dsPool.phase # "absent"
    BY <1>1, <2>1 DEF NoLeak, Idle
  <2>5. (~cleared => \A m \in running \ closed :
          \/ \E p \in Pod : dsPods[p] = m
          \/ \E v \in Worker : pc[v] = "stop" /\ held[v] = m)'
    <3> SUFFICES ASSUME ~cleared', NEW m \in running' \ closed',
                        \A p \in Pod : dsPods'[p] # m
                 PROVE  \E v \in Worker : pc'[v] = "stop" /\ held'[v] = m
      OBVIOUS
    <3>1. m # nextPM
      BY <2>1
    <3>2. m \in running \ closed /\ m # 0
      BY <2>1, <3>1 DEF PM
    <3>3. \A p \in Pod : dsPods[p] # m
      BY <2>1, <2>2, <3>2
    <3> QED
      BY <1>1, <2>1, <2>2, <3>2, <3>3 DEF NoLeak
  <2> QED
    BY <1>1, <2>1, <2>3, <2>4, <2>5 DEF NoLeak
<1>6. ASSUME NEW w \in Worker, PodUpdate(w) PROVE NoLeak'
  BY <1>1, <1>6 DEF PodUpdate, Return, Caller, NoLeak, Idle
<1>7. ASSUME NEW w \in Worker, PodDeleteMiss(w) PROVE NoLeak'
  BY <1>1, <1>7 DEF PodDeleteMiss, Return, Caller, NoLeak, Idle
<1>8. ASSUME NEW w \in Worker, PodDelete(w) PROVE NoLeak'
  BY <1>1, <1>8 DEF PodDelete, Goto, NoLeak, Idle
<1>9. ASSUME NEW w \in Worker, StopRefreshLoop(w) PROVE NoLeak'
  BY <1>1, <1>9 DEF StopRefreshLoop, Return, Caller, NoLeak, Idle
<1>10. ASSUME NEW m \in PM, RefresherExit(m) PROVE NoLeak'
  BY <1>1, <1>10 DEF RefresherExit, NoLeak, Idle
<1>11. ASSUME NEW p \in Pod, PodReconcile(p) PROVE NoLeak'
  BY <1>1, <1>11, LeakQuiet DEF PodReconcile, Goto, NoLeak
<1>12. CASE PodGet
  BY <1>1, <1>12, LeakQuiet DEF PodGet, Goto, NoLeak, Idle
<1>13. CASE PodGetFails
  BY <1>1, <1>13, LeakQuiet DEF PodGetFails, Requeue, Return, Caller, NoLeak, Idle
<1>14. CASE PodMatch
  BY <1>1, <1>14, LeakQuiet DEF PodMatch, Goto, NoLeak, Idle
<1>15. CASE PodMatchPanics
  BY <1>1, <1>15, LeakQuiet DEF PodMatchPanics, Requeue, Return, Caller, NoLeak, Idle
<1>16. CASE PoolReconcile
  BY <1>1, <1>16, LeakQuiet DEF PoolReconcile, Goto, NoLeak
<1>17. CASE PoolGetFails
  BY <1>1, <1>17, LeakQuiet DEF PoolGetFails, NoLeak
<1>18. CASE Clear
  BY <1>1, <1>18, DefaultsTyped DEF Clear, Goto, NoLeak, Idle
<1>19. CASE PoolSet
  BY <1>1, <1>19, LeakQuiet DEF PoolSet, Goto, NoLeak
<1>20. CASE PodResyncAll
  BY <1>1, <1>20, LeakQuiet DEF PodResyncAll, Goto, NoLeak
<1>21. CASE PodListFails
  BY <1>1, <1>21, LeakQuiet DEF PodListFails, Goto, NoLeak
<1>22. ASSUME NEW p \in Pod, NEW i \in IP, ResyncAdd(p, i) PROVE NoLeak'
  BY <1>1, <1>22, LeakQuiet DEF ResyncAdd, Goto, NoLeak
<1>23. CASE ResyncRange
  BY <1>1, <1>23, LeakQuiet DEF ResyncRange, Goto, NoLeak
<1>24. ASSUME NEW p \in Pod, ResyncDelete(p) PROVE NoLeak'
  BY <1>1, <1>24, LeakQuiet DEF ResyncDelete, Goto, NoLeak
<1>25. CASE ResyncDone
  BY <1>1, <1>25, LeakQuiet DEF ResyncDone, Goto, NoLeak
<1>26. CASE UNCHANGED vars
  BY <1>1, <1>26, LeakQuiet DEF vars, NoLeak
<1> QED
  BY <1>1, <1>2, <1>3, <1>4, <1>5, <1>6, <1>7, <1>8, <1>9, <1>10, <1>11,
     <1>12, <1>13, <1>14, <1>15, <1>16, <1>17, <1>18, <1>19, <1>20, <1>21,
     <1>22, <1>23, <1>24, <1>25, <1>26
     DEF Next, Environment, PodWorker, PoolWorker, StoreOps

\* As long as the two reconcilers have not been active at the same time and
\* Clear has dropped nothing, no refresher goroutine leaks: when nothing is left
\* to do, those that were not told to stop are those of the stored PodMetrics
\* (PodUpdateOrAddIfNotExist, PodDelete).
THEOREM NoLeakUnlessRacedCorrect == HSpec => []NoLeakUnlessRaced
<1>1. HInit => LeakInv
  BY DEF HInit, Init, LeakInv, NoLeak, Idle, Worker
<1>2. TypeOK /\ PMInv /\ LeakInv => NoLeakUnlessRaced
  <2> SUFFICES ASSUME TypeOK, PMInv, NoLeak, Quiescent, ~cleared PROVE running \ closed = Stored
    BY Zenon DEF LeakInv, NoLeakUnlessRaced
  <2>1. Stored \subseteq running \ closed
    BY DEF PMInv, MapOwns, Owned, Stored
  <2>2. ASSUME NEW m \in running \ closed PROVE m \in Stored
    <3>1. \E p \in Pod : dsPods[p] = m
      BY DEF NoLeak, Quiescent
    <3>2. m # 0
      BY <2>2 DEF TypeOK, PM
    <3> QED
      BY <3>1, <3>2 DEF Stored
  <2> QED
    BY <2>1, <2>2
<1> QED
  BY <1>1, <1>2, LeakNext, HTypes, PTL DEF HSpec

-----------------------------------------------------------------------------
(* Convergence.  A pod that is neither suspect nor queued has an entry that *)
(* is right, or is in the hands of a reconciler that makes it right.        *)

Adding == {"add", "load", "store"}
Ranging == {"range", "delete", "stop"}

\* The pod reconciler is handling p.
PodHas(p) == ~Idle("pod") /\ key["pod"] = p

\* What PodResyncAll accepts, for the pool in the store.
Wanted(p) ==
    /\ dsPool.phase # "absent" /\ cPod[p].phase # "absent"
    /\ Matches(dsPool.selector, cPod[p].labels) /\ podIsReady(cPod[p])

\* The entry of p has its address.
Fits(p) == dsPods[p] # 0 /\ info[dsPods[p]] = cPod[p].ip

\* The entry of p is right.
Good(p) == cPod[p].phase # "terminating" => IF Wanted(p) THEN Fits(p) ELSE dsPods[p] = 0

\* What the pod reconciler knows of p.
PodAt(p) ==
    /\ pc["pod"] = "match" => podObj = cPod[p] /\ podObj.phase # "absent"
    /\ pc["pod"] \in {"load", "store"} => Wanted(p) /\ addr["pod"] = cPod[p].ip
    /\ pc["pod"] = "store" => held["pod"] = dsPods[p]
    /\ pc["pod"] \in {"delete", "stop"} => ~Wanted(p) \/ cPod[p].phase = "terminating"
    /\ pc["pod"] = "stop" => dsPods[p] = 0

\* PodResyncAll is adding p.
PoolHas(p) == pc["pool"] \in {"load", "store"} /\ key["pool"] = p

AddAt(p) ==
    /\ p \in active <=> Wanted(p)
    /\ \A i \in IP : <<p, i>> \in listed => Wanted(p) /\ i = cPod[p].ip
    /\ PoolHas(p) => Wanted(p) /\ addr["pool"] = cPod[p].ip
    /\ pc["pool"] = "store" /\ key["pool"] = p => held["pool"] = dsPods[p]
    /\ Wanted(p) => Fits(p) \/ <<p, cPod[p].ip>> \in listed \/ PoolHas(p)

RangeAt(p) ==
    IF Wanted(p)
      THEN Fits(p) /\ p \notin todo /\ (pc["pool"] # "range" => key["pool"] # p)
      ELSE dsPods[p] = 0 \/ p \in todo \/ (pc["pool"] = "delete" /\ key["pool"] = p)

\* What the pool reconciler knows of p; before the list, nothing.
PoolAt(p) ==
    /\ pc["pool"] \in {"idle", "apply"} => Good(p)
    /\ pc["pool"] \in Adding => AddAt(p)
    /\ pc["pool"] \in Ranging => RangeAt(p)

\* The pool in the store is the cluster's, or it is about to be.
PoolInv ==
    /\ dsPool.phase \in {"absent", "live"}
    /\ pc["pod"] \in Handling \cup {"idle"}
    /\ pc["pool"] \in Adding \cup Ranging \cup {"idle", "apply", "list"}
    /\ ~poolQ => IF pc["pool"] = "apply" THEN poolObj = cPool
                 ELSE dsPool = IF cPool.phase = "live" THEN cPool ELSE NoPool
    /\ pc["pool"] = "list" => poolObj = dsPool
    /\ dsPool.phase = "absent" => pc["pool"] \in {"idle", "apply"}

\* A PodMetrics that Load found is under no other key.
HeldInv ==
    \A w \in Worker : pc[w] = "store" /\ held[w] # 0 =>
        held[w] < nextPM /\ \A q \in Pod : q # key[w] => dsPods[q] # held[w]

\* An overlap leaves the pod suspect until it ends, and after it.
SuspectInv ==
    /\ suspect \subseteq Pod
    /\ ~Idle("pod") /\ ~Idle("pool") => key["pod"] \in suspect
    /\ dsPool.phase = "absent" => \A p \in Pod \ suspect : dsPods[p] = 0 /\ ~PodHas(p)

\* What is known of p, by whoever handles it.
Entry(p) == IF PodHas(p) THEN PodAt(p) ELSE PoolAt(p)

EntryInv == \A p \in Pod \ (suspect \cup podQ) : Entry(p)

ConvInv == PoolInv /\ HeldInv /\ SuspectInv /\ EntryInv

\* The pool reconciler keeps the store's pool in step with the cluster's.
LEMMA PoolStep == TypeOK /\ PoolInv /\ [Next]_vars => PoolInv'
<1> SUFFICES ASSUME TypeOK, PoolInv, [Next]_vars PROVE PoolInv'
  OBVIOUS
<1> USE DefaultsTyped
    DEF TypeOK, PoolInv, Worker, Handling, Adding, Ranging, PoolObj, Phase,
        cluster, store, worker, locals
<1>1. CASE PoolChange
  BY <1>1 DEF PoolChange
<1>2. ASSUME NEW p \in Pod, PodChange(p) PROVE PoolInv'
  BY <1>2 DEF PodChange
<1>3. ASSUME NEW w \in Worker, StoreOps(w) PROVE PoolInv'
  <2>1. /\ UNCHANGED <<cPool, poolQ, dsPool, poolObj>>
        /\ \A v \in Worker : v # w => pc'[v] = pc[v]
        /\ pc[w] \in {"load", "store", "delete", "stop"}
        /\ pc'[w] \in {"store", "stop"} \/ pc'[w] = IF w = "pod" THEN "idle"
                                    ELSE IF pc[w] = "store" THEN "add" ELSE "range"
    BY <1>3 DEF StoreOps, PodLoad, PodStoreNew, PodUpdate, PodDeleteMiss, PodDelete,
                StopRefreshLoop, Return, Caller, Goto
  <2> QED
    BY <2>1
<1>4. ASSUME NEW m \in PM, RefresherExit(m) PROVE PoolInv'
  BY <1>4 DEF RefresherExit
<1>5. ASSUME NEW p \in Pod, PodReconcile(p) PROVE PoolInv'
  BY <1>5 DEF PodReconcile, Goto
<1>6. CASE PodGet
  BY <1>6 DEF PodGet, Goto
<1>7. CASE PodGetFails
  BY <1>7 DEF PodGetFails, Requeue, Return, Caller
<1>8. CASE PodMatch
  BY <1>8 DEF PodMatch, Goto
<1>9. CASE PodMatchPanics
  BY <1>9 DEF PodMatchPanics, Requeue, Return, Caller
<1>10. CASE PoolReconcile
  BY <1>10 DEF PoolReconcile, Goto
<1>11. CASE PoolGetFails
  BY <1>11 DEF PoolGetFails
<1>12. CASE Clear
  BY <1>12 DEF Clear, Goto
<1>13. CASE PoolSet
  BY <1>13 DEF PoolSet, Goto, NeedsResync
<1>14. CASE PodResyncAll
  BY <1>14 DEF PodResyncAll, Goto
<1>15. CASE PodListFails
  BY <1>15 DEF PodListFails, Goto
<1>16. ASSUME NEW p \in Pod, NEW i \in IP, ResyncAdd(p, i) PROVE PoolInv'
  BY <1>16 DEF ResyncAdd, Goto
<1>17. CASE ResyncRange
  BY <1>17 DEF ResyncRange, Goto
<1>18. ASSUME NEW p \in Pod, ResyncDelete(p) PROVE PoolInv'
  BY <1>18 DEF ResyncDelete, Goto
<1>19. CASE ResyncDone
  BY <1>19 DEF ResyncDone, Goto
<1>20. CASE UNCHANGED vars
  BY <1>20 DEF vars
<1> QED
  BY <1>1, <1>2, <1>3, <1>4, <1>5, <1>6, <1>7, <1>8, <1>9, <1>10, <1>11, <1>12,
     <1>13, <1>14, <1>15, <1>16, <1>17, <1>18, <1>19, <1>20
     DEF Next, Environment, PodWorker, PoolWorker

\* A PodMetrics never moves to another key.
LEMMA HeldStep == TypeOK /\ PMInv /\ HeldInv /\ [Next]_vars => HeldInv'
<1> SUFFICES ASSUME TypeOK, PMInv, HeldInv, [Next]_vars PROVE HeldInv'
  OBVIOUS
<1> USE DEF TypeOK, HeldInv, Worker, cluster, store, worker, locals
<1>1. ASSUME UNCHANGED <<dsPods, nextPM>>,
             \A w \in Worker : pc'[w] = "store" =>
                 pc[w] = "store" /\ held'[w] = held[w] /\ key'[w] = key[w]
      PROVE  HeldInv'
  BY <1>1
<1>2. ASSUME NEW w \in Worker, PodLoad(w) PROVE HeldInv'
  BY <1>2 DEF PodLoad, Goto, PMInv, MapOwns, Owned, Handling
<1>3. ASSUME NEW w \in Worker, PodStoreNew(w) PROVE HeldInv'
  BY <1>3, BoundsAssumption DEF PodStoreNew, PMInv, MapOwns, Owned, Handling
<1>4. ASSUME NEW w \in Worker, PodDelete(w) PROVE HeldInv'
  BY <1>4 DEF PodDelete, Goto, Handling
<1>5. ASSUME NEW w \in Worker, PodUpdate(w) \/ PodDeleteMiss(w) \/ StopRefreshLoop(w)
      PROVE HeldInv'
  BY <1>1, <1>5 DEF PodUpdate, PodDeleteMiss, StopRefreshLoop, Return, Caller
<1>6. CASE Environment \/ \E m \in PM : RefresherExit(m)
  BY <1>1, <1>6 DEF Environment, PoolChange, PodChange, RefresherExit
<1>7. CASE (\E p \in Pod : PodReconcile(p)) \/ PodGet \/ PodMatch
  BY <1>1, <1>7 DEF PodReconcile, PodGet, PodMatch, Goto
<1>8. CASE PodGetFails \/ PodMatchPanics
  BY <1>1, <1>8 DEF PodGetFails, PodMatchPanics, Requeue, Return, Caller
<1>9. CASE Clear
  BY <1>9 DEF Clear, Goto
<1>10. CASE PoolReconcile \/ PoolGetFails \/ PoolSet \/ PodResyncAll \/ PodListFails
  BY <1>1, <1>10 DEF PoolReconcile, PoolGetFails, PoolSet, PodResyncAll, PodListFails, Goto
<1>11. CASE (\E p \in Pod, i \in IP : ResyncAdd(p, i)) \/ ResyncRange \/ ResyncDone
            \/ \E p \in Pod : ResyncDelete(p)
  BY <1>1, <1>11 DEF ResyncAdd, ResyncRange, ResyncDone, ResyncDelete, Goto
<1>12. CASE UNCHANGED vars
  BY <1>1, <1>12 DEF vars
<1> QED
  BY <1>2, <1>3, <1>4, <1>5, <1>6, <1>7, <1>8, <1>9, <1>10, <1>11, <1>12
     DEF Next, PodWorker, PoolWorker, StoreOps

\* Which pods a step leaves beyond suspicion: none the pod reconciler is handling
\* while the pool reconciler is active, and otherwise those that were, and those
\* that a new reconcile, a list or Clear covers.
LEMMA Trusted ==
    ASSUME HNext, NEW p \in Pod \ suspect'
    PROVE  /\ Idle("pod")' \/ key'["pod"] # p \/ (Idle("pool") /\ Idle("pool")')
           /\ \/ p \notin suspect
              \/ pc["pod"] = "idle" /\ pc'["pod"] = "get" /\ key'["pod"] = p
              \/ pc["pool"] = "list" /\ pc'["pool"] = "add"
              \/ pc["pool"] = "apply" /\ pc'["pool"] = "idle" /\ dsPool'.phase = "absent"
           /\ \/ pc["pool"] # "list"
              \/ pc'["pool"] # "idle"
              \/ pc["pod"] = "idle" /\ pc'["pod"] = "get"
<1>1. /\ p \notin Surviving
      /\ ~(Overlap /\ p = key'["pod"])
  BY DEF HNext, Record
<1>2. Idle("pod")' \/ key'["pod"] # p \/ (Idle("pool") /\ Idle("pool")')
  BY <1>1, Zenon DEF Overlap, Idle
<1> QED
  BY <1>1, <1>2 DEF Surviving

\* The entry of p, the pod and the pool stay as they are.
SameEntry(p) ==
    /\ dsPool' = dsPool /\ cPod'[p] = cPod[p] /\ dsPods'[p] = dsPods[p]
    /\ dsPods[p] # 0 => info'[dsPods[p]] = info[dsPods[p]]

\* What the store's pool asks of p changes only with the pod or the pool.
LEMMA EntrySame ==
    ASSUME NEW p \in Pod, SameEntry(p)
    PROVE  /\ Wanted(p)' <=> Wanted(p)
           /\ Fits(p)' <=> Fits(p)
           /\ Good(p)' <=> Good(p)
<1>1. Wanted(p)' <=> Wanted(p)
  BY DEF SameEntry, Wanted
<1>2. Fits(p)' <=> Fits(p)
  BY DEF SameEntry, Fits
<1>3. cPod'[p] = cPod[p] /\ dsPods'[p] = dsPods[p]
  BY DEF SameEntry
<1> QED
  BY <1>1, <1>2, <1>3 DEF Good

\* A step that leaves the entry of p and the pool reconciler alone keeps what the
\* pool reconciler knows of p.
LEMMA PoolAtSame ==
    ASSUME NEW p \in Pod, SameEntry(p), PoolAt(p),
           pc'["pool"] = pc["pool"], key'["pool"] = key["pool"],
           held'["pool"] = held["pool"], addr'["pool"] = addr["pool"],
           UNCHANGED <<listed, active, todo>>
    PROVE  PoolAt(p)'
<1>1. /\ Wanted(p)' <=> Wanted(p)
      /\ Fits(p)' <=> Fits(p)
      /\ Good(p)' <=> Good(p)
      /\ cPod'[p] = cPod[p] /\ dsPods'[p] = dsPods[p]
  BY EntrySame DEF SameEntry
<1>2. AddAt(p) => AddAt(p)'
  BY <1>1 DEF AddAt, PoolHas
<1>3. RangeAt(p) => RangeAt(p)'
  BY <1>1 DEF RangeAt
<1> QED
  BY <1>1, <1>2, <1>3 DEF PoolAt

\* The same for the pod reconciler.
LEMMA PodAtSame ==
    ASSUME NEW p \in Pod, SameEntry(p), PodAt(p),
           pc'["pod"] = pc["pod"], held'["pod"] = held["pod"],
           addr'["pod"] = addr["pod"], podObj' = podObj
    PROVE  PodAt(p)'
<1>1. /\ Wanted(p)' <=> Wanted(p)
      /\ cPod'[p] = cPod[p] /\ dsPods'[p] = dsPods[p]
  BY EntrySame DEF SameEntry
<1> QED
  BY <1>1 DEF PodAt

\* What a step of PodUpdateOrAddIfNotExist or PodDelete does: it touches the
\* entry of its own key only, and returns with that entry in place or gone.
LEMMA StoreOpEffect ==
    ASSUME TypeOK, PMInv, HeldInv, NEW w \in Worker, StoreOps(w)
    PROVE  /\ pc[w] \in {"load", "store", "delete", "stop"} /\ key[w] \in Pod
           /\ UNCHANGED <<cPod, podQ, dsPool, podObj, poolObj, listed, active, todo>>
           /\ \A v \in Worker : v # w =>
                /\ pc'[v] = pc[v] /\ key'[v] = key[v]
                /\ held'[v] = held[v] /\ addr'[v] = addr[v]
           /\ \A q \in Pod : q # key[w] => SameEntry(q)
           /\ \/ pc'[w] = Caller(w)
              \/ pc'[w] \in {"store", "stop"} /\ key'[w] = key[w]
           /\ pc[w] = "load" =>
                /\ pc'[w] = "store" /\ SameEntry(key[w])
                /\ held'[w] = dsPods[key[w]] /\ addr'[w] = addr[w]
           /\ pc[w] = "store" =>
                /\ \/ pc'[w] = Caller(w)
                   \/ /\ pc'[w] = "store" /\ key'[w] = key[w]
                      /\ held'[w] = dsPods'[key[w]] /\ addr'[w] = addr[w]
                /\ held[w] = dsPods[key[w]] =>
                     dsPods'[key[w]] # 0 /\ info'[dsPods'[key[w]]] = addr[w]
           /\ pc[w] = "delete" => pc'[w] \in {Caller(w), "stop"} /\ dsPods'[key[w]] = 0
           /\ pc[w] = "stop" => pc'[w] = Caller(w) /\ SameEntry(key[w])
<1> USE DEF cluster, store, worker, locals, SameEntry, Worker
<1>0. /\ pc[w] \in {"load", "store", "delete", "stop"} => key[w] \in Pod
      /\ pc \in [Worker -> PC] /\ key \in [Worker -> Pod \cup {NoKey}]
      /\ held \in [Worker -> 0..MaxPM] /\ addr \in [Worker -> IP]
      /\ dsPods \in [Pod -> 0..MaxPM] /\ info \in [PM -> IP]
      /\ nextPM \in Nat \ {0} /\ MaxPM \in Nat
  BY BoundsAssumption DEF TypeOK, Handling
<1>1. CASE PodLoad(w)
  BY <1>0, <1>1 DEF PodLoad, Goto, Caller
<1>2. CASE PodStoreNew(w)
  <2>1. \A q \in Pod : dsPods[q] # nextPM
    BY <1>0 DEF PMInv, MapOwns, Owned
  <2>2. nextPM \in PM
    BY <1>0, <1>2 DEF PodStoreNew, PM
  <2>3. /\ pc[w] = "store" /\ pc'[w] = "store" /\ key'[w] = key[w]
        /\ held'[w] = nextPM /\ addr'[w] = addr[w]
        /\ dsPods' = [dsPods EXCEPT ![key[w]] = nextPM]
        /\ info' = [info EXCEPT ![nextPM] = addr[w]]
        /\ UNCHANGED <<cPod, podQ, dsPool, podObj, poolObj, listed, active, todo>>
    BY <1>0, <1>2 DEF PodStoreNew
  <2>4. \A v \in Worker : v # w =>
            /\ pc'[v] = pc[v] /\ key'[v] = key[v]
            /\ held'[v] = held[v] /\ addr'[v] = addr[v]
    BY <1>0, <1>2 DEF PodStoreNew
  <2>5. /\ key[w] \in Pod /\ dsPods'[key[w]] = nextPM
        /\ info'[nextPM] = addr[w] /\ nextPM # 0
    BY <1>0, <2>2, <2>3
  <2>6. ASSUME NEW q \in Pod, q # key[w] PROVE SameEntry(q)
    <3>1. dsPods'[q] = dsPods[q] /\ dsPods[q] # nextPM
      BY <1>0, <2>1, <2>3, <2>6
    <3>2. dsPods[q] # 0 => dsPods[q] \in PM
      BY <1>0 DEF PM
    <3> QED
      BY <1>0, <2>3, <3>1, <3>2
  <2> HIDE DEF SameEntry
  <2> QED
    BY <2>3, <2>4, <2>5, <2>6
<1>3. CASE PodUpdate(w)
  <2>1. held[w] # 0 /\ pc[w] = "store" /\ held[w] \in PM
    BY <1>0, <1>3 DEF PodUpdate, PM
  <2>2. \A q \in Pod : q # key[w] => dsPods[q] # held[w]
    BY <2>1 DEF HeldInv
  <2>3. /\ pc'[w] = Caller(w) /\ dsPods' = dsPods
        /\ info' = [info EXCEPT ![held[w]] = addr[w]]
        /\ UNCHANGED <<cPod, podQ, dsPool, podObj, poolObj, listed, active, todo>>
    BY <1>0, <1>3 DEF PodUpdate, Return
  <2>4. \A v \in Worker : v # w =>
            /\ pc'[v] = pc[v] /\ key'[v] = key[v]
            /\ held'[v] = held[v] /\ addr'[v] = addr[v]
    BY <1>0, <1>3 DEF PodUpdate, Return
  <2>5. key[w] \in Pod /\ info'[held[w]] = addr[w]
    BY <1>0, <2>1, <2>3
  <2>6. ASSUME NEW q \in Pod, q # key[w] PROVE SameEntry(q)
    <3>1. dsPods[q] # 0 => dsPods[q] \in PM
      BY <1>0 DEF PM
    <3> QED
      BY <1>0, <2>2, <2>3, <2>6, <3>1
  <2> HIDE DEF SameEntry
  <2> QED
    BY <2>1, <2>3, <2>4, <2>5, <2>6
<1>4. CASE PodDeleteMiss(w)
  BY <1>0, <1>4 DEF PodDeleteMiss, Return, Caller
<1>5. CASE PodDelete(w)
  BY <1>0, <1>5 DEF PodDelete, Goto, Caller
<1>6. CASE StopRefreshLoop(w)
  BY <1>0, <1>6 DEF StopRefreshLoop, Return, Caller
<1> QED
  BY <1>1, <1>2, <1>3, <1>4, <1>5, <1>6 DEF StoreOps

\* An overlap is never forgotten while it lasts, and without a pool an entry
\* beyond suspicion is gone and stays so.
LEMMA SuspectStep ==
    ASSUME TypeOK, TypeOK', PMInv, ConvInv, PoolInv', HNext
    PROVE  SuspectInv'
<1> USE DEF ConvInv, Worker, cluster, store, worker, locals
<1>1. suspect' \subseteq Pod
  BY DEF HNext, Record, Surviving, SuspectInv
<1>2. ASSUME ~Idle("pod")', ~Idle("pool")' PROVE key'["pod"] \in suspect'
  <2>1. key'["pod"] \in Pod
    BY <1>2 DEF TypeOK, PoolInv, Idle, Handling
  <2>2. Overlap
    BY <1>2, Zenon DEF Overlap, Idle
  <2> QED
    BY <2>1, <2>2 DEF HNext, Record
<1>3. ASSUME dsPool'.phase = "absent", NEW p \in Pod \ suspect'
      PROVE  dsPods'[p] = 0 /\ ~PodHas(p)'
  <2>1. CASE Clear
    BY <1>3, <2>1, Trusted DEF Clear, PodHas, Idle
  <2>2. ASSUME dsPool' = dsPool,
               pc["pool"] = "apply" => pc'["pool"] # "idle"
        PROVE  \/ /\ dsPods[p] = 0 /\ ~PodHas(p) /\ pc["pool"] \in {"idle", "apply"}
                  /\ dsPool.phase = "absent"
               \/ pc["pod"] = "idle" /\ pc'["pod"] = "get"
    BY <1>3, <2>2, Trusted DEF SuspectInv, PoolInv
  <2>3. ASSUME NEW w \in Worker, StoreOps(w) PROVE dsPods'[p] = 0 /\ ~PodHas(p)'
    <3>1. dsPods[p] = 0 /\ ~PodHas(p) /\ pc["pool"] \in {"idle", "apply"} /\ w = "pod"
      BY <2>2, <2>3, StoreOpEffect DEF SuspectInv, PoolInv
    <3>2. key["pod"] # p /\ dsPods'[p] = dsPods[p]
      BY <2>3, <3>1, StoreOpEffect DEF PodHas, Idle, SameEntry
    <3>3. pc'["pod"] = "idle" \/ key'["pod"] # p
      BY <2>3, <3>1, <3>2, StoreOpEffect DEF Caller
    <3> QED
      BY <3>1, <3>2, <3>3 DEF PodHas, Idle
  <2>4. CASE Environment \/ \E m \in PM : RefresherExit(m)
    BY <2>2, <2>4 DEF Environment, PoolChange, PodChange, RefresherExit, PodHas, Idle
  <2>5. ASSUME NEW q \in Pod, PodReconcile(q) PROVE dsPods'[p] = 0 /\ ~PodHas(p)'
    BY <1>3, <2>2, <2>5 DEF PodReconcile, PodHas, Idle, Goto
  <2>6. CASE PodGet \/ PodMatch
    BY <2>2, <2>6 DEF TypeOK, PodGet, PodMatch, Goto, PodHas, Idle
  <2>7. CASE PodGetFails \/ PodMatchPanics
    <3>1. dsPods'[p] = dsPods[p] /\ dsPool' = dsPool /\ pc'["pool"] = pc["pool"]
          /\ pc'["pod"] = "idle"
      BY <2>7 DEF TypeOK, PodGetFails, PodMatchPanics, Requeue, Return, Caller
    <3> QED
      BY <2>2, <3>1 DEF PodHas, Idle
  <2>8. CASE PoolReconcile \/ PoolGetFails
    BY <2>2, <2>8 DEF PoolReconcile, PoolGetFails, Goto, PodHas, Idle, TypeOK
  <2>9. CASE PoolSet
    BY <1>3, <2>9 DEF PoolSet
  <2>10. CASE \/ PodResyncAll \/ PodListFails \/ ResyncRange \/ ResyncDone
              \/ \E q \in Pod : ResyncDelete(q) \/ \E i \in IP : ResyncAdd(q, i)
    BY <1>3, <2>10 DEF PodResyncAll, PodListFails, ResyncRange, ResyncDone,
                       ResyncDelete, ResyncAdd, PoolInv
  <2>11. Next
    BY DEF HNext
  <2> QED
    BY <2>1, <2>3, <2>4, <2>5, <2>6, <2>7, <2>8, <2>9, <2>10, <2>11
       DEF Next, PodWorker, PoolWorker
<1> QED
  BY <1>1, <1>2, <1>3 DEF SuspectInv

\* A store operation of the pod reconciler: with no overlap it leaves the entry
\* of its pod right, and it does not touch another one.
LEMMA PodOpEntry ==
    ASSUME TypeOK, PMInv, ConvInv, HNext, StoreOps("pod"),
           NEW p \in Pod \ (suspect' \cup podQ')
    PROVE  Entry(p)'
<1> USE DEF ConvInv, Worker
<1>1. /\ pc["pod"] \in {"load", "store", "delete", "stop"} /\ key["pod"] \in Pod
      /\ UNCHANGED <<cPod, podQ, dsPool, podObj, poolObj, listed, active, todo>>
      /\ pc'["pool"] = pc["pool"] /\ key'["pool"] = key["pool"]
      /\ held'["pool"] = held["pool"] /\ addr'["pool"] = addr["pool"]
      /\ p # key["pod"] => SameEntry(p)
      /\ \/ pc'["pod"] = "idle"
         \/ pc'["pod"] \in {"store", "stop"} /\ key'["pod"] = key["pod"]
  BY StoreOpEffect DEF Caller
<1>2. Entry(p) /\ p \notin suspect
  BY <1>1, Trusted DEF EntryInv
<1>3. CASE key["pod"] # p
  <2>1. ~PodHas(p) /\ ~PodHas(p)' /\ SameEntry(p)
    BY <1>1, <1>3 DEF PodHas, Idle
  <2> QED
    BY <1>1, <1>2, <2>1, PoolAtSame DEF Entry
<1>4. CASE key["pod"] = p
  <2>1. PodAt(p) /\ pc["pool"] = "idle" /\ pc'["pool"] = "idle"
    BY <1>1, <1>2, <1>4 DEF Entry, PodHas, Idle, SuspectInv
  <2>2. (Wanted(p)' <=> Wanted(p)) /\ cPod'[p] = cPod[p]
    BY <1>1 DEF Wanted
  <2>3. ASSUME pc'["pod"] = "idle", Good(p)' PROVE Entry(p)'
    BY <2>1, <2>3 DEF Entry, PodHas, Idle, PoolAt, Adding, Ranging
  <2>4. ASSUME pc'["pod"] # "idle", PodAt(p)' PROVE Entry(p)'
    BY <1>1, <1>4, <2>4 DEF Entry, PodHas, Idle
  <2>5. CASE pc["pod"] = "load"
    <3>1. pc'["pod"] = "store" /\ dsPods'[p] = dsPods[p]
          /\ held'["pod"] = dsPods[p] /\ addr'["pod"] = addr["pod"]
      BY <1>4, <2>5, StoreOpEffect DEF SameEntry
    <3> QED
      BY <2>1, <2>2, <2>4, <2>5, <3>1 DEF PodAt
  <2>6. CASE pc["pod"] = "store"
    <3>1. Wanted(p) /\ addr["pod"] = cPod[p].ip /\ held["pod"] = dsPods[p]
      BY <2>1, <2>6 DEF PodAt
    <3>2. dsPods'[p] # 0 /\ info'[dsPods'[p]] = addr["pod"]
      BY <1>4, <2>6, <3>1, StoreOpEffect
    <3>3. CASE pc'["pod"] = "idle"
      BY <2>2, <2>3, <3>1, <3>2, <3>3 DEF Good, Fits
    <3>4. CASE pc'["pod"] # "idle"
      <4>1. /\ pc'["pod"] = "store"
            /\ held'["pod"] = dsPods'[p] /\ addr'["pod"] = addr["pod"]
        BY <1>4, <2>6, <3>4, StoreOpEffect DEF Caller
      <4> QED
        BY <2>2, <2>4, <3>1, <4>1 DEF PodAt
    <3> QED
      BY <3>3, <3>4
  <2>7. CASE pc["pod"] = "delete"
    <3>1. ~Wanted(p) \/ cPod[p].phase = "terminating"
      BY <2>1, <2>7 DEF PodAt
    <3>2. pc'["pod"] \in {"idle", "stop"} /\ dsPods'[p] = 0
      BY <1>4, <2>7, StoreOpEffect DEF Caller
    <3>3. Good(p)' /\ (pc'["pod"] = "stop" => PodAt(p)')
      BY <2>2, <3>1, <3>2 DEF Good, PodAt
    <3> QED
      BY <2>3, <2>4, <3>2, <3>3
  <2>8. CASE pc["pod"] = "stop"
    <3>1. (~Wanted(p) \/ cPod[p].phase = "terminating") /\ dsPods[p] = 0
      BY <2>1, <2>8 DEF PodAt
    <3>2. pc'["pod"] = "idle" /\ dsPods'[p] = 0
      BY <1>4, <2>8, <3>1, StoreOpEffect DEF Caller, SameEntry
    <3> QED
      BY <2>2, <2>3, <3>1, <3>2 DEF Good
  <2> QED
    BY <1>1, <2>5, <2>6, <2>7, <2>8
<1> QED
  BY <1>3, <1>4

\* A store operation of PodResyncAll.
LEMMA PoolOpEntry ==
    ASSUME TypeOK, PMInv, ConvInv, HNext, StoreOps("pool"),
           NEW p \in Pod \ (suspect' \cup podQ')
    PROVE  Entry(p)'
<1> USE DEF ConvInv, Worker
<1>1. /\ pc["pool"] \in {"load", "store", "delete", "stop"} /\ key["pool"] \in Pod
      /\ UNCHANGED <<cPod, podQ, dsPool, podObj, poolObj, listed, active, todo>>
      /\ pc'["pod"] = pc["pod"] /\ key'["pod"] = key["pod"]
      /\ p # key["pool"] => SameEntry(p)
      /\ \/ pc["pool"] = "store" /\ pc'["pool"] = "add"
         \/ pc["pool"] \in {"delete", "stop"} /\ pc'["pool"] = "range"
         \/ pc["pool"] \in {"load", "store"} /\ pc'["pool"] = "store"
            /\ key'["pool"] = key["pool"]
         \/ pc["pool"] = "delete" /\ pc'["pool"] = "stop" /\ key'["pool"] = key["pool"]
  BY StoreOpEffect DEF Caller
<1>2. Entry(p) /\ ~PodHas(p) /\ ~PodHas(p)'
  BY <1>1, Trusted DEF EntryInv, PodHas, Idle
<1>3. SUFFICES PoolAt(p)'
  BY <1>2 DEF Entry
<1>4. PoolAt(p)
  BY <1>2 DEF Entry
<1>5. (Wanted(p)' <=> Wanted(p)) /\ cPod'[p] = cPod[p]
  BY <1>1 DEF Wanted
<1>6. CASE pc["pool"] \in {"load", "store"}
  <2>1. AddAt(p) /\ pc'["pool"] \in {"store", "add"}
    BY <1>1, <1>4, <1>6 DEF PoolAt, Adding
  <2>2. SUFFICES AddAt(p)'
    BY <2>1 DEF PoolAt, Adding, Ranging
  <2>3. CASE key["pool"] # p
    <3>1. ~PoolHas(p) /\ ~PoolHas(p)' /\ (Fits(p)' <=> Fits(p))
          /\ (pc'["pool"] = "store" => key'["pool"] # p)
      BY <1>1, <2>3, <1>6, EntrySame DEF PoolHas
    <3> QED
      BY <1>1, <1>5, <2>1, <3>1 DEF AddAt
  <2>4. CASE key["pool"] = p /\ pc["pool"] = "load"
    <3>1. Wanted(p) /\ addr["pool"] = cPod[p].ip
      BY <2>1, <2>4 DEF AddAt, PoolHas
    <3>2. /\ pc'["pool"] = "store" /\ dsPods'[p] = dsPods[p] /\ key'["pool"] = p
          /\ held'["pool"] = dsPods[p] /\ addr'["pool"] = addr["pool"]
      BY <1>1, <2>4, StoreOpEffect DEF SameEntry
    <3> QED
      BY <1>1, <1>5, <2>1, <3>1, <3>2 DEF AddAt, PoolHas
  <2>5. CASE key["pool"] = p /\ pc["pool"] = "store"
    <3>1. Wanted(p) /\ addr["pool"] = cPod[p].ip /\ held["pool"] = dsPods[p]
      BY <2>1, <2>5 DEF AddAt, PoolHas
    <3>2. /\ dsPods'[p] # 0 /\ info'[dsPods'[p]] = addr["pool"]
          /\ \/ pc'["pool"] = "add"
             \/ /\ pc'["pool"] = "store" /\ key'["pool"] = p
                /\ held'["pool"] = dsPods'[p] /\ addr'["pool"] = addr["pool"]
      BY <2>5, <3>1, StoreOpEffect DEF Caller
    <3>3. Fits(p)'
      BY <1>5, <3>1, <3>2 DEF Fits
    <3> QED
      BY <1>1, <1>5, <2>1, <3>1, <3>2, <3>3 DEF AddAt, PoolHas
  <2> QED
    BY <1>6, <2>3, <2>4, <2>5
<1>7. CASE pc["pool"] \in {"delete", "stop"}
  <2>1. RangeAt(p) /\ pc'["pool"] \in {"stop", "range"}
    BY <1>1, <1>4, <1>7 DEF PoolAt, Ranging
  <2>2. SUFFICES RangeAt(p)'
    BY <2>1 DEF PoolAt, Adding, Ranging
  <2>3. CASE key["pool"] # p
    <3>1. (Fits(p)' <=> Fits(p)) /\ dsPods'[p] = dsPods[p]
          /\ (pc'["pool"] # "range" => key'["pool"] # p)
      BY <1>1, <1>7, <2>3, EntrySame DEF SameEntry
    <3> QED
      BY <1>1, <1>5, <2>1, <2>3, <3>1 DEF RangeAt
  <2>4. CASE key["pool"] = p
    <3>1. ~Wanted(p)
      BY <1>7, <2>1, <2>4 DEF RangeAt
    <3>2. pc["pool"] = "delete" => dsPods'[p] = 0
      BY <2>4, StoreOpEffect
    <3>3. pc["pool"] = "stop" => dsPods'[p] = dsPods[p]
      BY <2>4, StoreOpEffect DEF SameEntry
    <3> QED
      BY <1>1, <1>5, <1>7, <2>1, <3>1, <3>2, <3>3 DEF RangeAt
  <2> QED
    BY <2>3, <2>4
<1> QED
  BY <1>1, <1>6, <1>7

\* The other steps of the pod reconciler (PodReconciler.Reconcile and
\* updateDatastore): without a pool the dropped key needs nothing, and what the
\* pod is matched against is what the entry will be judged by.
LEMMA PodStepEntry ==
    ASSUME TypeOK, PMInv, ConvInv, HNext,
           (\E q \in Pod : PodReconcile(q)) \/ PodGet \/ PodGetFails \/ PodMatch \/ PodMatchPanics,
           NEW p \in Pod \ (suspect' \cup podQ')
    PROVE  Entry(p)'
<1> USE DEF ConvInv, Worker, cluster, store, worker, locals
<1>1. /\ UNCHANGED <<cPod, dsPool, dsPods, info, poolObj, listed, active, todo>>
      /\ pc'["pool"] = pc["pool"] /\ key'["pool"] = key["pool"]
      /\ held'["pool"] = held["pool"] /\ addr'["pool"] = addr["pool"]
  BY DEF TypeOK, PodReconcile, PodGet, PodGetFails, PodMatch, PodMatchPanics, Requeue,
         Return, Goto
<1>2. SameEntry(p)
  BY <1>1 DEF SameEntry
<1>3. PoolAt(p) => PoolAt(p)'
  BY <1>1, <1>2, PoolAtSame
<1>4. ASSUME NEW q \in Pod, PodReconcile(q) PROVE Entry(p)'
  <2>1. CASE q = p /\ dsPool.phase = "absent"
    <3>1. p \notin suspect /\ pc["pool"] \in {"idle", "apply"} /\ pc'["pod"] = "idle"
      BY <1>1, <1>4, <2>1, Trusted DEF PodReconcile, PoolInv
    <3>2. dsPods'[p] = 0 /\ ~Wanted(p)'
      BY <1>1, <2>1, <3>1 DEF SuspectInv, Wanted
    <3> QED
      BY <1>1, <3>1, <3>2 DEF Entry, PodHas, Idle, PoolAt, Good, Adding, Ranging
  <2>2. CASE q = p /\ dsPool.phase # "absent"
    <3>1. pc'["pod"] = "get" /\ key'["pod"] = p
      BY <1>4, <2>2 DEF TypeOK, PodReconcile, Goto
    <3> QED
      BY <3>1 DEF Entry, PodHas, Idle, PodAt
  <2>3. CASE q # p
    <3>1. /\ pc["pod"] = "idle"
          /\ \/ pc'["pod"] = "idle"
             \/ pc'["pod"] = "get" /\ key'["pod"] = q
          /\ p \notin podQ
      BY <1>4, <2>3 DEF TypeOK, PodReconcile, Goto
    <3>2. ~PodHas(p) /\ ~PodHas(p)' /\ p \notin suspect
      BY <1>1, <2>3, <3>1, Trusted DEF PodHas, Idle
    <3> QED
      BY <1>3, <3>1, <3>2 DEF Entry, EntryInv
  <2> QED
    BY <2>1, <2>2, <2>3
<1>5. CASE PodGetFails \/ PodMatchPanics
  <2>1. pc'["pod"] = "idle" /\ p # key["pod"] /\ p \notin podQ /\ pc["pod"] # "idle"
    BY <1>5 DEF TypeOK, PodGetFails, PodMatchPanics, Requeue, Return, Caller
  <2>2. p \notin suspect /\ ~PodHas(p) /\ ~PodHas(p)'
    BY <1>1, <2>1, Trusted DEF PodHas, Idle
  <2> QED
    BY <1>3, <2>1, <2>2 DEF Entry, EntryInv
<1>6. CASE PodGet \/ PodMatch
  <2>1. /\ pc["pod"] \in {"get", "match"} /\ pc'["pod"] # "idle" /\ key' = key
        /\ podQ' = podQ
    BY <1>6 DEF TypeOK, PodGet, PodMatch, Goto
  <2>2. p \notin suspect /\ Entry(p)
    BY <1>1, <2>1, Trusted DEF EntryInv
  <2>3. CASE key["pod"] # p
    BY <1>3, <2>1, <2>2, <2>3 DEF Entry, PodHas, Idle
  <2>4. CASE key["pod"] = p
    <3>1. PodAt(p) /\ dsPool.phase # "absent"
      BY <2>1, <2>2, <2>4 DEF Entry, PodHas, Idle, SuspectInv
    <3>2. Wanted(p)' <=> Wanted(p)
      BY <1>2, EntrySame
    <3>3. CASE PodGet
      <4>1. \/ /\ pc'["pod"] = "delete" /\ cPod[p].phase = "absent"
            \/ /\ pc'["pod"] = "match" /\ podObj' = cPod[p] /\ cPod[p].phase # "absent"
        BY <2>4, <3>3 DEF TypeOK, PodGet, Goto
      <4>2. cPod[p].phase = "absent" => ~Wanted(p)'
        BY <3>2 DEF Wanted
      <4>3. PodAt(p)'
        BY <1>1, <4>1, <4>2 DEF PodAt
      <4> QED
        BY <2>1, <2>4, <4>3 DEF Entry, PodHas, Idle
    <3>4. CASE PodMatch
      <4>1. podObj = cPod[p] /\ podObj.phase # "absent"
        BY <3>1, <3>4 DEF PodAt, PodMatch
      <4>2. \/ /\ pc'["pod"] = "delete"
               /\ ~Wanted(p) \/ cPod[p].phase = "terminating"
            \/ pc'["pod"] = "load" /\ Wanted(p) /\ addr'["pod"] = cPod[p].ip
        BY <3>1, <3>4, <4>1 DEF TypeOK, PodMatch, Goto, Wanted
      <4>3. PodAt(p)'
        BY <1>1, <3>2, <4>2 DEF PodAt
      <4> QED
        BY <2>1, <2>4, <4>3 DEF Entry, PodHas, Idle
    <3> QED
      BY <1>6, <3>3, <3>4
  <2> QED
    BY <2>3, <2>4
<1> QED
  BY <1>4, <1>5, <1>6

\* The other steps of the pool reconciler (updateDatastore, PodResyncAll, Clear):
\* a list leaves every entry it covers to be added or deleted, and the loops
\* that follow do just that.
LEMMA PoolStepEntry ==
    ASSUME TypeOK, PMInv, ConvInv, HNext,
           \/ PoolReconcile \/ Clear \/ PoolSet \/ PodResyncAll \/ PodListFails
           \/ ResyncRange \/ ResyncDone
           \/ \E q \in Pod : ResyncDelete(q) \/ \E i \in IP : ResyncAdd(q, i),
           NEW p \in Pod \ (suspect' \cup podQ')
    PROVE  Entry(p)'
<1> USE DEF ConvInv, Worker, cluster, store, worker, locals
<1>1. /\ UNCHANGED <<cPod, podQ, info, podObj>>
      /\ pc'["pod"] = pc["pod"] /\ key'["pod"] = key["pod"]
      /\ pc["pool"] # "idle" \/ pc'["pool"] # "idle"
  BY DEF TypeOK, PoolReconcile, Clear, PoolSet, PodResyncAll, PodListFails, ResyncRange,
         ResyncDone, ResyncDelete, ResyncAdd, Goto
<1>2. ~PodHas(p) /\ ~PodHas(p)'
  BY <1>1, Trusted DEF PodHas, Idle
<1>3. SUFFICES PoolAt(p)'
  BY <1>2 DEF Entry
<1>4. p \notin suspect => PoolAt(p)
  BY <1>1, <1>2 DEF EntryInv, Entry
<1>5. CASE PoolReconcile
  <2>1. pc["pool"] = "idle" /\ pc'["pool"] = "apply" /\ dsPool' = dsPool /\ dsPods' = dsPods
    BY <1>5 DEF TypeOK, PoolReconcile, Goto
  <2>2. Good(p)
    BY <1>1, <1>4, <2>1, Trusted DEF PoolAt
  <2>3. Good(p)'
    BY <1>1, <2>1, <2>2, EntrySame DEF SameEntry
  <2> QED
    BY <2>1, <2>3 DEF PoolAt, Adding, Ranging
<1>6. CASE Clear
  <2>1. pc'["pool"] = "idle" /\ dsPool'.phase = "absent" /\ dsPods'[p] = 0
    BY <1>6 DEF TypeOK, Clear, Goto, NoPool
  <2> QED
    BY <2>1 DEF PoolAt, Adding, Ranging, Good, Wanted
<1>7. CASE PoolSet
  <2>1. /\ pc["pool"] = "apply" /\ dsPods' = dsPods /\ dsPool'.phase = "live"
        /\ \/ pc'["pool"] = "list"
           \/ /\ pc'["pool"] = "idle" /\ dsPool.phase # "absent"
              /\ dsPool.selector = dsPool'.selector
    BY <1>7 DEF TypeOK, PoolSet, Goto, NeedsResync
  <2>2. CASE pc'["pool"] = "list"
    BY <2>2 DEF PoolAt, Adding, Ranging
  <2>3. CASE pc'["pool"] = "idle"
    <3>1. Good(p)
      BY <1>1, <1>4, <2>1, <2>3, Trusted DEF PoolAt
    <3>2. Wanted(p)' <=> Wanted(p)
      BY <1>1, <2>1, <2>3 DEF Wanted
    <3>3. Good(p)'
      BY <1>1, <2>1, <3>1, <3>2 DEF Good, Fits
    <3> QED
      BY <2>3, <3>3 DEF PoolAt, Adding, Ranging
  <2> QED
    BY <2>1, <2>2, <2>3
<1>8. CASE PodResyncAll
  <2>1. /\ pc'["pool"] = "add" /\ dsPool' = dsPool /\ dsPods' = dsPods /\ poolObj = dsPool
        /\ dsPool.phase # "absent"
    BY <1>8 DEF TypeOK, PodResyncAll, Goto, PoolInv
  <2>2. /\ Wanted(p)' <=> Listable(p)
    BY <1>1, <2>1 DEF Wanted, Listable
  <2>3. p \in active' <=> Listable(p)
    BY <1>8 DEF PodResyncAll
  <2>4. \A i \in IP : <<p, i>> \in listed' <=> Listable(p) /\ i = cPod[p].ip
    BY <1>8 DEF PodResyncAll
  <2>5. cPod[p].ip \in IP
    BY DEF TypeOK, PodObj
  <2>6. AddAt(p)'
    BY <1>1, <2>1, <2>2, <2>3, <2>4, <2>5 DEF AddAt, PoolHas
  <2> QED
    BY <2>1, <2>6 DEF PoolAt, Adding, Ranging
<1>9. CASE PodListFails
  <2>1. pc["pool"] = "list" /\ pc'["pool"] = "idle"
    BY <1>9 DEF TypeOK, PodListFails, Goto
  <2> QED
    BY <1>1, <2>1, Trusted
<1>10. ASSUME NEW q \in Pod, NEW i \in IP, ResyncAdd(q, i) PROVE PoolAt(p)'
  <2>1. /\ pc["pool"] = "add" /\ pc'["pool"] = "load" /\ key'["pool"] = q /\ addr'["pool"] = i
        /\ <<q, i>> \in listed /\ listed' = listed \ {<<q, i>>}
        /\ UNCHANGED <<dsPool, dsPods, active>>
    BY <1>10 DEF TypeOK, ResyncAdd, Goto
  <2>2. AddAt(p) /\ (Wanted(p)' <=> Wanted(p)) /\ (Fits(p)' <=> Fits(p))
    BY <1>1, <1>4, <2>1, Trusted, EntrySame DEF PoolAt, Adding, SameEntry
  <2>3. CASE q = p
    <3>1. Wanted(p) /\ i = cPod[p].ip
      BY <2>1, <2>2, <2>3 DEF AddAt
    <3>2. AddAt(p)'
      BY <1>1, <2>1, <2>2, <2>3, <3>1 DEF AddAt, PoolHas
    <3> QED
      BY <2>1, <3>2 DEF PoolAt, Adding, Ranging
  <2>4. CASE q # p
    <3>1. \A j \in IP : <<p, j>> \in listed' <=> <<p, j>> \in listed
      BY <2>1, <2>4
    <3>2. ~PoolHas(p) /\ ~PoolHas(p)' /\ cPod[p].ip \in IP
      BY <2>1, <2>4 DEF PoolHas, TypeOK, PodObj
    <3>3. AddAt(p)'
      BY <1>1, <2>1, <2>2, <3>1, <3>2 DEF AddAt
    <3> QED
      BY <2>1, <3>3 DEF PoolAt, Adding, Ranging
  <2> QED
    BY <2>3, <2>4
<1>11. CASE ResyncRange
  <2>1. /\ pc["pool"] = "add" /\ pc'["pool"] = "range" /\ listed = {}
        /\ UNCHANGED <<dsPool, dsPods>>
    BY <1>11 DEF TypeOK, ResyncRange, Goto
  <2>2. /\ p \in active => p \notin todo'
        /\ p \notin active => dsPods[p] = 0 \/ p \in todo'
    BY <1>11 DEF ResyncRange
  <2>3. AddAt(p) /\ (Wanted(p)' <=> Wanted(p)) /\ (Fits(p)' <=> Fits(p))
    BY <1>1, <1>4, <2>1, Trusted, EntrySame DEF PoolAt, Adding, SameEntry
  <2>4. RangeAt(p)'
    BY <2>1, <2>2, <2>3 DEF AddAt, RangeAt, PoolHas
  <2> QED
    BY <2>1, <2>4 DEF PoolAt, Adding, Ranging
<1>12. ASSUME NEW q \in Pod, ResyncDelete(q) PROVE PoolAt(p)'
  <2>1. /\ pc["pool"] = "range" /\ pc'["pool"] = "delete" /\ key'["pool"] = q
        /\ q \in todo /\ todo' = todo \ {q} /\ UNCHANGED <<dsPool, dsPods>>
    BY <1>12 DEF TypeOK, ResyncDelete, Goto
  <2>2. RangeAt(p) /\ (Wanted(p)' <=> Wanted(p)) /\ (Fits(p)' <=> Fits(p))
    BY <1>1, <1>4, <2>1, Trusted, EntrySame DEF PoolAt, Ranging, SameEntry
  <2>3. RangeAt(p)'
    BY <2>1, <2>2 DEF RangeAt
  <2> QED
    BY <2>1, <2>3 DEF PoolAt, Adding, Ranging
<1>13. CASE ResyncDone
  <2>1. /\ pc["pool"] = "range" /\ pc'["pool"] = "idle" /\ todo = {}
        /\ UNCHANGED <<dsPool, dsPods>>
    BY <1>13 DEF TypeOK, ResyncDone, Goto
  <2>2. RangeAt(p) /\ (Good(p)' <=> Good(p))
    BY <1>1, <1>4, <2>1, Trusted, EntrySame DEF PoolAt, Ranging, SameEntry
  <2>3. Good(p)
    BY <2>1, <2>2 DEF RangeAt, Good
  <2> QED
    BY <2>1, <2>2, <2>3 DEF PoolAt, Adding, Ranging
<1> QED
  BY <1>5, <1>6, <1>7, <1>8, <1>9, <1>10, <1>11, <1>12, <1>13

\* Changes of API objects, failing Gets of the pool and exiting refreshers touch
\* no entry; a changed pod is queued.
LEMMA QuietEntry ==
    ASSUME TypeOK, ConvInv, HNext,
           Environment \/ PoolGetFails \/ \E m \in PM : RefresherExit(m),
           NEW p \in Pod \ (suspect' \cup podQ')
    PROVE  Entry(p)'
<1> USE DEF ConvInv, cluster, store, worker, locals
<1>1. UNCHANGED <<dsPool, dsPods, info, worker, locals>>
  BY DEF Environment, PoolChange, PodChange, PoolGetFails, RefresherExit
<1>2. cPod'[p] = cPod[p] /\ p \notin podQ
  BY DEF TypeOK, Environment, PoolChange, PodChange, PoolGetFails, RefresherExit
<1>3. p \notin suspect
  BY <1>1, Trusted
<1>4. Entry(p) /\ SameEntry(p) /\ (PodHas(p)' <=> PodHas(p))
  BY <1>1, <1>2, <1>3 DEF EntryInv, SameEntry, PodHas, Idle
<1>5. PodAt(p) => PodAt(p)'
  BY <1>1, <1>4, PodAtSame
<1>6. PoolAt(p) => PoolAt(p)'
  BY <1>1, <1>4, PoolAtSame
<1> QED
  BY <1>4, <1>5, <1>6 DEF Entry

\* At the start the store is empty and every pod there is is queued.
LEMMA ConvInit == HInit => ConvInv
<1> SUFFICES ASSUME HInit PROVE ConvInv
  OBVIOUS
<1>1. PoolInv /\ HeldInv /\ SuspectInv
  BY DEF HInit, Init, PoolInv, HeldInv, SuspectInv, Worker, Adding, Ranging, NoPool, Idle,
         PoolObj, PodHas
<1>2. ASSUME NEW p \in Pod PROVE Entry(p)
  BY DEF HInit, Init, Entry, PodHas, Idle, Worker, PoolAt, Adding, Ranging, Good, Wanted, NoPool
<1> QED
  BY <1>1, <1>2 DEF ConvInv, EntryInv

\* Every step of the two reconcilers and of the cluster keeps the invariant.
LEMMA ConvNext == TypeOK /\ PMInv /\ ConvInv /\ [HNext]_hvars => ConvInv'
<1> SUFFICES ASSUME TypeOK, PMInv, ConvInv, [HNext]_hvars PROVE ConvInv'
  OBVIOUS
<1>1. TypeOK' /\ PoolInv' /\ HeldInv'
  BY TypeNext, PoolStep, HeldStep, HStep DEF ConvInv
<1>2. CASE HNext
  <2>1. SuspectInv'
    BY <1>1, <1>2, SuspectStep
  <2>2. ASSUME NEW p \in Pod \ (suspect' \cup podQ') PROVE Entry(p)'
    <3>1. Next
      BY <1>2 DEF HNext
    <3>2. CASE Environment \/ PoolGetFails \/ \E m \in PM : RefresherExit(m)
      BY <1>2, <2>2, <3>2, QuietEntry
    <3>3. CASE PodWorker
      BY <1>2, <2>2, <3>3, PodOpEntry, PodStepEntry DEF PodWorker
    <3>4. CASE PoolWorker
      BY <1>2, <2>2, <3>2, <3>4, PoolOpEntry, PoolStepEntry DEF PoolWorker
    <3> QED
      BY <3>1, <3>2, <3>3, <3>4 DEF Next
  <2> QED
    BY <1>1, <2>1, <2>2 DEF ConvInv, EntryInv
<1>3. CASE UNCHANGED hvars
  <2>1. SuspectInv'
    BY <1>3 DEF ConvInv, SuspectInv, Idle, PodHas, hvars, vars, cluster, store, worker, locals
  <2>2. ASSUME NEW p \in Pod \ (suspect \cup podQ) PROVE Entry(p)'
    <3>1. /\ UNCHANGED <<dsPool, dsPods, info, cPod, pc, key, held, addr, podObj>>
          /\ UNCHANGED <<listed, active, todo>>
      BY <1>3 DEF hvars, vars, cluster, store, worker, locals
    <3>2. Entry(p) /\ SameEntry(p) /\ (PodHas(p)' <=> PodHas(p))
      BY <2>2, <3>1 DEF ConvInv, EntryInv, SameEntry, PodHas, Idle
    <3>3. PodAt(p) => PodAt(p)'
      BY <3>1, <3>2, PodAtSame
    <3>4. PoolAt(p) => PoolAt(p)'
      BY <3>1, <3>2, PoolAtSame
    <3> QED
      BY <3>2, <3>3, <3>4 DEF Entry
  <2>3. suspect' = suspect /\ podQ' = podQ
    BY <1>3 DEF hvars, vars, cluster
  <2> QED
    BY <1>1, <2>1, <2>2, <2>3 DEF ConvInv, EntryInv
<1> QED
  BY <1>2, <1>3

\* When nothing is left to do the store holds the cluster's pool and, for every
\* pod that no overlap of the two reconcilers and no failed list touched and that
\* is not terminating, an entry exactly when the pod is ready and matches, under
\* its current address (PodReconciler and InferencePoolReconciler on the
\* datastore's PodUpdateOrAddIfNotExist, PodDelete, PodResyncAll and Clear).
THEOREM ConvergesUnlessRacedCorrect == HSpec => []ConvergesUnlessRaced
<1>1. TypeOK /\ ConvInv => ConvergesUnlessRaced
  <2> SUFFICES ASSUME TypeOK, ConvInv, Quiescent
               PROVE  /\ dsPool = (IF cPool.phase = "live" THEN cPool ELSE NoPool)
                      /\ \A p \in Pod \ suspect : cPod[p].phase # "terminating" =>
                            /\ (dsPods[p] # 0) <=> Eligible(p)
                            /\ dsPods[p] # 0 => info[dsPods[p]] = cPod[p].ip
    BY DEF ConvergesUnlessRaced
  <2>1. pc["pod"] = "idle" /\ pc["pool"] = "idle" /\ ~poolQ /\ podQ = {}
    BY DEF Quiescent, Worker
  <2>2. dsPool = (IF cPool.phase = "live" THEN cPool ELSE NoPool)
    BY <2>1 DEF ConvInv, PoolInv
  <2>3. ASSUME NEW p \in Pod \ suspect, cPod[p].phase # "terminating"
        PROVE  /\ (dsPods[p] # 0) <=> Eligible(p)
               /\ dsPods[p] # 0 => info[dsPods[p]] = cPod[p].ip
    <3>1. IF Wanted(p) THEN Fits(p) ELSE dsPods[p] = 0
      BY <2>1, <2>3 DEF ConvInv, EntryInv, Entry, PodHas, Idle, PoolAt, Good
    <3>2. cPod[p].phase \in Phase /\ NoPool.phase = "absent"
      BY DEF TypeOK, PodObj, NoPool
    <3>3. Wanted(p) <=> Eligible(p)
      BY <2>2, <2>3, <3>2 DEF Wanted, Eligible, Phase
    <3> QED
      BY <3>1, <3>3 DEF Fits
  <2> QED
    BY <2>2, <2>3
<1> QED
  BY <1>1, ConvInit, ConvNext, HTypes, PTL DEF HSpec
=============================================================================
