----------------------- MODULE ModelDatastore_proofs -----------------------
(***************************************************************************)
(* Proofs about the datastore.  ModelDatastoreHistory, for any objects,     *)
(* names and bounds: which entries the single reconciler keeps although     *)
(* objects change, are deleted and come back between its steps.             *)
(* DatastoreLock and MetricsLogger, for any numbers of readers, writers and *)
(* pods: PoolGet never returns a nil pool without an error.                 *)
(***************************************************************************)
EXTENDS ModelDatastoreHistory, MetricsLogger, TLAPS

Present(o) == cModel[o].phase # "absent"

HasEntry(n, o) == models[n].obj = o

\* The types, and that an idle reconciler holds no key.
ModelTypes ==
    /\ cModel \in [Obj -> Model] /\ modelQ \subseteq Obj
    /\ events \in 0..MaxEvents /\ clock \in 0..events
    /\ models \in [Name -> Entry \cup {NoEntry}]
    /\ mObj \in Model /\ mName \in Name
    /\ mpc \in {"idle", "apply", "resync"}
    /\ IF mpc = "idle" THEN mKey = NoObj ELSE mKey \in Obj

(* An entry and its object, for names without a gap.                        *)

\* It has the name and the age of the object, if that still exists.
EntryMatches ==
    \A n \in Name \ tainted, o \in Obj : HasEntry(n, o) /\ Present(o) =>
        cModel[o].name = n /\ cModel[o].ts = models[n].ts

\* An object has no entry under another name than its own.
EntryUnderName ==
    \A n \in Name, o \in Obj :
        HasEntry(n, o) /\ Present(o) /\ cModel[o].name \notin tainted => n = cModel[o].name

\* It is the only one of its object, so ModelDelete meets it.
EntryAlone ==
    \A n \in Name \ tainted, k \in Name, o \in Obj : HasEntry(n, o) /\ HasEntry(k, o) => k = n

\* Once the object is reconciled it is one of the pool's.
EntrySettled ==
    \A n \in Name \ tainted, o \in Obj : HasEntry(n, o) /\ Settled(o) => Ours(cModel[o])

EntryInv == EntryMatches /\ EntryUnderName /\ EntryAlone /\ EntrySettled

(* The reconciler's copy of the object it handles.                          *)

\* The copy is up to date, or the key is enqueued again.
CopyFresh ==
    mpc = "apply" => mKey \in modelQ \/ (Ours(mObj) <=> Ours(cModel[mKey]))

\* The object kept its name and its age since, unless it was re-created.
CopyMatches ==
    (/\ mpc = "apply" /\ mObj.phase # "absent" /\ Present(mKey)
     /\ mObj.name \notin tainted \/ cModel[mKey].name \notin tainted) =>
        cModel[mKey].name = mObj.name /\ cModel[mKey].ts = mObj.ts

\* Entries of the object are under the name of the copy, with its age.
CopyUnderName ==
    (mpc = "apply" /\ mObj.phase # "absent") =>
        \A n \in Name : HasEntry(n, mKey) /\ (n \notin tainted \/ mObj.name \notin tainted) =>
            n = mObj.name /\ models[n].ts = mObj.ts

\* Between ModelDelete and ModelResync the object is gone or enqueued again, and
\* has no entry.
ResyncInv ==
    mpc = "resync" =>
        /\ mKey \in modelQ \/ ~Ours(cModel[mKey])
        /\ \A n \in Name \ tainted : ~HasEntry(n, mKey)

CopyInv == CopyFresh /\ CopyMatches /\ CopyUnderName /\ ResyncInv

NamedRight == \A n \in Name : models[n].obj # NoObj => models[n].name = n

ModelInv == ModelTypes /\ NamedRight /\ EntryInv /\ CopyInv /\ OldestServed

-----------------------------------------------------------------------------
(* Steps of the cluster.                                                    *)

\* An object is observed to change.  It keeps its name and creation time as
\* long as it exists; coming back while it is unreconciled or has an entry is
\* a gap for all its names.
LEMMA ObserveStep ==
    ASSUME ModelInv, NEW o \in Obj, NEW new \in Model, Observe(o, new),
           clock' \in 0..events',
           \/ cModel[o].phase = "absent"
           \/ new.phase = "absent"
           \/ new.name = cModel[o].name /\ new.ts = cModel[o].ts,
           tainted \subseteq tainted',
           Recreated(o) => NamesOf(o) \subseteq tainted'
    PROVE  ModelInv'
<1> USE ModelDomainsAssumption
<1>1. /\ cModel' = [cModel EXCEPT ![o] = new]
      /\ modelQ' = IF eventPredicate(cModel[o]) \/ eventPredicate(new)
                   THEN modelQ \cup {o} ELSE modelQ
      /\ events' = events + 1 /\ events' <= MaxEvents
      /\ UNCHANGED <<models, mpc, mKey, mObj, mName>>
  BY ModelBoundsAssumption DEF Observe, workerM, ModelInv, ModelTypes
<1>2. ModelTypes /\ NamedRight /\ EntryInv /\ CopyInv /\ OldestServed
  BY DEF ModelInv
<1>3. cModel'[o] = new /\ \A x \in Obj : x # o => cModel'[x] = cModel[x]
  BY <1>1, <1>2 DEF ModelTypes
<1>4. ModelTypes'
  BY <1>1, <1>2, ModelBoundsAssumption DEF ModelTypes
<1>5. modelQ \subseteq modelQ'
  BY <1>1
<1>6. ASSUME Ours(cModel[o]) \/ Ours(new)
      PROVE  o \in modelQ'
  BY <1>1, <1>6 DEF Ours, eventPredicate
<1>7. NamedRight'
  BY <1>1, <1>2 DEF NamedRight
<1>8. EntryMatches'
  BY <1>1, <1>2, <1>3 DEF EntryInv, EntryMatches, HasEntry, Present, Recreated, NamesOf
<1>9. EntryUnderName'
  BY <1>1, <1>2, <1>3 DEF EntryInv, EntryUnderName, HasEntry, Present, Recreated, NamesOf
<1>10. EntryAlone'
  BY <1>1, <1>2 DEF EntryInv, EntryAlone, HasEntry
<1>11. EntrySettled'
  BY <1>1, <1>2, <1>3, <1>5, <1>6 DEF EntryInv, EntrySettled, HasEntry, Settled
<1>12. CopyFresh'
  BY <1>1, <1>2, <1>3, <1>5, <1>6 DEF CopyInv, CopyFresh, ModelTypes
<1>13. CopyMatches'
  BY <1>1, <1>2, <1>3 DEF CopyInv, CopyMatches, Present, Recreated, NamesOf, Settled,
     ModelTypes, Model
<1>14. CopyUnderName'
  BY <1>1, <1>2 DEF CopyInv, CopyUnderName, HasEntry
<1>15. ResyncInv'
  BY <1>1, <1>2, <1>3, <1>5, <1>6 DEF CopyInv, ResyncInv, HasEntry, ModelTypes
<1>16. OldestServed'
  BY <1>1, <1>2, <1>3, <1>5, <1>6 DEF OldestServed, Settled, Candidate
<1> QED
  BY <1>4, <1>7, <1>8, <1>9, <1>10, <1>11, <1>12, <1>13, <1>14, <1>15, <1>16
     DEF ModelInv, EntryInv, CopyInv

\* The stand-ins for no name, no object and no entry have their types.
LEMMA ModelDefaults == NoName \in Name /\ NoModel \in Model
<1>1. NoName \in Name
  BY ModelDomainsAssumption DEF NoName
<1> QED
  BY <1>1, ModelBoundsAssumption DEF NoModel, Model, Time

\* The history only adds names, among them those of an object that came back.
LEMMA HistoryStep ==
    ASSUME tainted' = tainted \cup Gaps
    PROVE  /\ tainted \subseteq tainted'
           /\ \A o \in Obj : Recreated(o) => NamesOf(o) \subseteq tainted'
           /\ hasPool /\ ~hasPool' => Name \subseteq tainted'
           /\ (mpc = "resync" /\ mpc' = "idle" /\ (~hasPool \/ faults' # faults)
                  /\ mName \in Name) => mName \in tainted'
<1> DEFINE Back == UNION {NamesOf(o) : o \in {x \in Obj : Recreated(x)}}
           Emptied == {n \in Name : hasPool /\ ~hasPool'}
           Failed == {n \in Name : /\ mpc = "resync" /\ mpc' = "idle" /\ n = mName
                                   /\ ~hasPool \/ faults' # faults}
<1>0. Gaps = Back \cup Emptied \cup Failed
  BY DEF Gaps
<1> HIDE DEF Back, Emptied, Failed
<1>1. tainted \subseteq tainted'
  OBVIOUS
<1>2. ASSUME NEW o \in Obj, Recreated(o) PROVE NamesOf(o) \subseteq tainted'
  <2>1. NamesOf(o) \subseteq Back
    BY <1>2 DEF Back
  <2> QED
    BY <2>1, <1>0
<1>3. ASSUME hasPool, ~hasPool' PROVE Name \subseteq tainted'
  <2>1. Emptied = Name
    BY <1>3, Zenon DEF Emptied
  <2> QED
    BY <2>1, <1>0
<1>4. ASSUME mpc = "resync", mpc' = "idle", ~hasPool \/ faults' # faults, mName \in Name
      PROVE  mName \in tainted'
  <2>1. mName \in Failed
    BY <1>4, Zenon DEF Failed
  <2> QED
    BY <2>1, <1>0
<1> QED
  BY <1>1, <1>2, <1>3, <1>4

\* InferenceModel objects are created, refer to another pool, terminate and go.
LEMMA ObjectStep ==
    ASSUME ModelInv, NEW o \in Obj, tainted' = tainted \cup Gaps,
           \/ ModelCreated(o) \/ PoolRefChanged(o) \/ ModelTerminating(o) \/ ModelRemoved(o)
    PROVE  ModelInv'
<1> USE ModelBoundsAssumption
<1>1. ModelTypes /\ cModel[o] \in Model
  BY DEF ModelInv, ModelTypes
<1>2. tainted \subseteq tainted' /\ (Recreated(o) => NamesOf(o) \subseteq tainted')
  BY HistoryStep
<1>3. CASE ModelCreated(o)
  <2>1. PICK n \in Name, b \in BOOLEAN, t \in {clock, clock + 1} :
          clock' = t /\ Observe(o, [phase |-> "live", name |-> n, ts |-> t, mine |-> b])
    BY <1>3 DEF ModelCreated
  <2>2. events < MaxEvents /\ events' = events + 1
    BY <2>1 DEF Observe
  <2>3. t \in Time /\ clock' \in 0..events'
    BY <2>1, <2>2, <1>1 DEF Time, ModelTypes
  <2>4. [phase |-> "live", name |-> n, ts |-> t, mine |-> b] \in Model
    BY <2>3 DEF Model
  <2>5. cModel[o].phase = "absent"
    BY <1>3 DEF ModelCreated
  <2> QED
    BY <2>1, <2>3, <2>4, <2>5, <1>2, ObserveStep
<1>4. CASE PoolRefChanged(o) \/ ModelTerminating(o) \/ ModelRemoved(o)
  <2>1. PICK new \in Model :
          /\ Observe(o, new)
          /\ new.phase = "absent" \/ (new.name = cModel[o].name /\ new.ts = cModel[o].ts)
    <3>1. CASE PoolRefChanged(o)
      <4> DEFINE new == [cModel[o] EXCEPT !.mine = ~@]
      <4>1. Observe(o, new)
        BY <3>1 DEF PoolRefChanged
      <4>2. new \in Model /\ new.name = cModel[o].name /\ new.ts = cModel[o].ts
        <5>1. PICK b \in BOOLEAN : b = ~cModel[o].mine
          OBVIOUS
        <5>2. new = [cModel[o] EXCEPT !.mine = b]
          BY <5>1
        <5> QED
          BY <5>2, <1>1 DEF Model
      <4> QED
        BY <4>1, <4>2
    <3>2. CASE ModelTerminating(o)
      BY <3>2, <1>1 DEF ModelTerminating, Model
    <3>3. CASE ModelRemoved(o)
      BY <3>3, ModelDefaults DEF ModelRemoved, NoModel
    <3> QED
      BY <1>4, <3>1, <3>2, <3>3
  <2>2. clock' = clock /\ events' = events + 1
    BY <1>4, <2>1 DEF PoolRefChanged, ModelTerminating, ModelRemoved, Observe
  <2>3. clock' \in 0..events'
    BY <2>2, <1>1 DEF ModelTypes
  <2> QED
    BY <2>1, <2>3, <1>2, ObserveStep
<1> QED
  BY <1>3, <1>4

\* Clear drops every entry, and is a gap for every name.
LEMMA ClearStep ==
    ASSUME ModelInv, Clear, tainted' = tainted \cup Gaps
    PROVE  ModelInv'
<1>1. /\ models' = [n \in Name |-> NoEntry] /\ hasPool /\ ~hasPool'
      /\ UNCHANGED <<cModel, clock, modelQ, events, mpc, mKey, mObj, mName>>
  BY DEF Clear, clusterM, workerM
<1>2. Name \subseteq tainted' /\ tainted \subseteq tainted'
  BY <1>1, HistoryStep
<1>3. \A n \in Name : models'[n].obj = NoObj
  BY <1>1 DEF NoEntry
<1>4. ModelTypes'
  BY <1>1 DEF ModelInv, ModelTypes
<1>5. NamedRight' /\ OldestServed'
  BY <1>2, <1>3 DEF NamedRight, OldestServed
<1>6. EntryInv'
  BY <1>3, ModelDomainsAssumption
     DEF EntryInv, EntryMatches, EntryUnderName, EntryAlone, EntrySettled, HasEntry
<1>7. CopyInv'
  <2>1. CopyFresh' /\ CopyMatches'
    BY <1>1, <1>2 DEF ModelInv, CopyInv, CopyFresh, CopyMatches, Present
  <2>2. CopyUnderName' /\ ResyncInv'
    BY <1>1, <1>2, <1>3, ModelDomainsAssumption
       DEF ModelInv, ModelTypes, CopyInv, CopyUnderName, ResyncInv, HasEntry
  <2> QED
    BY <2>1, <2>2 DEF CopyInv
<1> QED
  BY <1>4, <1>5, <1>6, <1>7 DEF ModelInv

-----------------------------------------------------------------------------
(* Steps of the reconciler.                                                 *)

\* The reconciler takes a key and copies its object.
LEMMA ReconcileStep ==
    ASSUME ModelInv, NEW o \in Obj, ModelReconcile(o), tainted \subseteq tainted'
    PROVE  ModelInv'
<1>1. /\ mpc = "idle" /\ mpc' = "apply" /\ mKey' = o /\ mObj' = cModel[o]
      /\ o \in modelQ /\ modelQ' = modelQ \ {o}
      /\ UNCHANGED <<cModel, clock, events, models, mName>>
  BY DEF ModelReconcile
<1>2. ModelTypes /\ NamedRight /\ EntryInv /\ CopyInv /\ OldestServed
  BY DEF ModelInv
<1>3. mKey = NoObj
  BY <1>1, <1>2 DEF ModelTypes
<1>4. \A x \in Obj : Settled(x)' => Settled(x)
  BY <1>1, <1>3, ModelDomainsAssumption DEF Settled
<1>5. ModelTypes' /\ NamedRight'
  BY <1>1, <1>2 DEF ModelTypes, NamedRight
<1>6. EntryInv'
  BY <1>1, <1>2, <1>4 DEF EntryInv, EntryMatches, EntryUnderName, EntryAlone, EntrySettled,
     HasEntry, Present
<1>7. CopyFresh' /\ ResyncInv'
  BY <1>1 DEF CopyFresh, ResyncInv
<1>8. CopyMatches'
  BY <1>1 DEF CopyMatches
<1>9. CopyUnderName'
  BY <1>1, <1>2 DEF CopyUnderName, EntryInv, EntryMatches, EntryUnderName, HasEntry, Present,
     ModelTypes, Model
<1>10. OldestServed'
  BY <1>1, <1>2, <1>4 DEF OldestServed, Candidate
<1> QED
  BY <1>5, <1>6, <1>7, <1>8, <1>9, <1>10 DEF ModelInv, CopyInv

\* ModelSetIfOlder: the entry of the name becomes the copy's unless it is of an
\* older object.
LEMMA SetStep ==
    ASSUME ModelInv, ModelSetIfOlder, tainted \subseteq tainted'
    PROVE  ModelInv'
<1> USE ModelDomainsAssumption
<1> DEFINE n == mObj.name
           e == [obj |-> mKey, name |-> n, ts |-> mObj.ts]
<1>1. /\ mpc = "apply" /\ Ours(mObj) /\ mObj.phase # "absent"
      /\ models' = IF Overrides(models[n], mKey, mObj) THEN [models EXCEPT ![n] = e] ELSE models
      /\ mpc' = "idle" /\ mKey' = NoObj /\ mObj' = NoModel /\ mName' = NoName
      /\ UNCHANGED <<cModel, clock, modelQ, events>>
  BY DEF ModelSetIfOlder, Finish, clusterM, Ours
<1>2. ModelTypes /\ NamedRight /\ EntryInv /\ CopyInv /\ OldestServed
  BY DEF ModelInv
<1>3. mKey \in Obj /\ n \in Name /\ mObj.ts \in Time /\ mObj \in Model
  BY <1>1, <1>2 DEF ModelTypes, Model
<1>4. e \in Entry /\ e.obj = mKey /\ e.name = n /\ e.ts = mObj.ts
  BY <1>3 DEF Entry
<1>5. \A x \in Obj : Settled(x)' => Settled(x) \/ (x = mKey /\ Ours(cModel[x]))
  BY <1>1, <1>2 DEF Settled, CopyInv, CopyFresh
<1>6. /\ \A k \in Name : k # n => models'[k] = models[k]
      /\ \/ models'[n] = models[n] /\ ~Overrides(models[n], mKey, mObj)
         \/ models'[n] = e /\ Overrides(models[n], mKey, mObj)
  BY <1>1, <1>2, <1>3 DEF ModelTypes
<1>7. ModelTypes'
  BY <1>1, <1>2, <1>4, ModelDefaults DEF ModelTypes
<1> HIDE DEF n, e
<1>8. NamedRight'
  BY <1>2, <1>4, <1>6 DEF NamedRight
<1>9. \A k \in Name \ tainted : HasEntry(k, mKey) => k = n /\ models[k].ts = mObj.ts
  BY <1>1, <1>2 DEF CopyInv, CopyUnderName, n
<1>10. n \notin tainted =>
         \A k \in Name : HasEntry(k, mKey) => k = n /\ models[k].ts = mObj.ts
  BY <1>1, <1>2 DEF CopyInv, CopyUnderName, n
<1>11. (Present(mKey) /\ (n \notin tainted \/ cModel[mKey].name \notin tainted)) =>
         cModel[mKey].name = n /\ cModel[mKey].ts = mObj.ts
  BY <1>1, <1>2 DEF CopyInv, CopyMatches, n
<1>12. EntryMatches'
  BY <1>1, <1>2, <1>4, <1>6, <1>11 DEF EntryInv, EntryMatches, HasEntry, Present
<1>13. EntryUnderName'
  BY <1>1, <1>2, <1>4, <1>6, <1>11 DEF EntryInv, EntryUnderName, HasEntry, Present
<1>14. EntryAlone'
  BY <1>1, <1>2, <1>4, <1>6, <1>9, <1>10 DEF EntryInv, EntryAlone, HasEntry
<1>15. EntrySettled'
  <2> SUFFICES ASSUME NEW k \in Name \ tainted', NEW o \in Obj, HasEntry(k, o)', Settled(o)'
               PROVE  Ours(cModel[o])'
    BY DEF EntrySettled
  <2>1. CASE o = mKey
    BY <2>1, <1>1, <1>2 DEF Settled, CopyInv, CopyFresh
  <2>2. CASE o # mKey
    <3>1. HasEntry(k, o) /\ Settled(o)
      BY <2>2, <1>4, <1>5, <1>6 DEF HasEntry
    <3> QED
      BY <3>1, <1>1, <1>2 DEF EntryInv, EntrySettled
  <2> QED
    BY <2>1, <2>2
<1>16. CopyInv'
  BY <1>1 DEF CopyInv, CopyFresh, CopyMatches, CopyUnderName, ResyncInv
<1>17. OldestServed'
  <2> SUFFICES ASSUME NEW k \in Name \ tainted', NEW o \in Obj, Settled(o)', Candidate(o, k)'
               PROVE  models'[k].obj # NoObj /\ models'[k].ts <= cModel'[o].ts
    BY DEF OldestServed
  <2> USE ModelBoundsAssumption DEF Time
  <2>1. Candidate(o, k) /\ cModel' = cModel /\ Present(o) /\ cModel[o].ts \in Nat
    BY <1>1, <1>2 DEF Candidate, Ours, Present, ModelTypes, Model
  <2>2. models[k].obj # NoObj => models[k].ts \in Nat
    BY <1>2 DEF ModelTypes, Entry, NoEntry
  <2>3. CASE o = mKey
    <3>1. k = n /\ cModel[o].ts = mObj.ts
      BY <2>1, <2>3, <1>11 DEF Candidate
    <3> QED
      BY <3>1, <2>1, <2>2, <2>3, <1>3, <1>4, <1>6 DEF Overrides
  <2>4. CASE o # mKey
    <3>1. models[k].obj # NoObj /\ models[k].ts <= cModel[o].ts
      BY <2>1, <2>4, <1>1, <1>2, <1>5 DEF OldestServed
    <3>2. CASE models'[k] = models[k]
      BY <3>1, <3>2, <2>1
    <3>3. CASE k = n /\ models'[k] = e
      <4>1. mObj.ts <= models[k].ts
        <5>1. CASE models[k].obj = mKey
          BY <5>1, <3>3, <2>2, <3>1, <1>9 DEF HasEntry
        <5>2. CASE models[k].obj # mKey
          <6>1. Overrides(models[n], mKey, mObj)
            BY <5>2, <3>3, <1>4, <1>6
          <6> QED
            BY <6>1, <5>2, <3>1, <3>3, <2>2, <1>3 DEF Overrides
        <5> QED
          BY <5>1, <5>2
      <4> QED
        BY <4>1, <3>1, <3>3, <2>1, <2>2, <1>3, <1>4
    <3> QED
      BY <3>2, <3>3, <1>6
  <2> QED
    BY <2>3, <2>4
<1> QED
  BY <1>7, <1>8, <1>12, <1>13, <1>14, <1>15, <1>16, <1>17 DEF ModelInv, EntryInv

\* ModelDelete: the entry it meets is under its own name, and without a gap it
\* is the object's only one.
LEMMA DeleteStep ==
    ASSUME ModelInv, ModelDelete, tainted \subseteq tainted'
    PROVE  ModelInv'
<1> USE ModelDomainsAssumption
<1>1. /\ mpc = "apply" /\ ~Ours(mObj)
      /\ mpc' = "resync" /\ mObj' = NoModel
      /\ UNCHANGED <<cModel, clock, modelQ, events, mKey>>
  BY DEF ModelDelete, clusterM
<1>2. ModelTypes /\ NamedRight /\ EntryInv /\ CopyInv /\ OldestServed
  BY DEF ModelInv
<1>3. mKey \in Obj
  BY <1>1, <1>2 DEF ModelTypes
<1>4. PICK n \in Name :
        /\ models[n].obj = mKey
        /\ models' = [models EXCEPT ![models[n].name] = NoEntry]
        /\ mName' = models[n].name
  BY DEF ModelDelete
<1>5. models' = [models EXCEPT ![n] = NoEntry] /\ mName' = n
  BY <1>2, <1>3, <1>4 DEF NamedRight
<1>6. /\ models'[n].obj = NoObj
      /\ \A k \in Name : k # n => models'[k] = models[k]
  BY <1>2, <1>5 DEF ModelTypes, NoEntry
<1>7. \A k \in Name, o \in Obj : HasEntry(k, o)' => HasEntry(k, o) /\ models'[k] = models[k]
  BY <1>6 DEF HasEntry
<1>8. \A o \in Obj : Settled(o)' <=> Settled(o)
  BY <1>1 DEF Settled
<1>9. ModelTypes' /\ NamedRight'
  <2>1. ModelTypes'
    BY <1>1, <1>2, <1>3, <1>5, ModelDefaults DEF ModelTypes
  <2>2. NamedRight'
    BY <1>2, <1>6 DEF NamedRight
  <2> QED
    BY <2>1, <2>2
<1>10. EntryInv'
  BY <1>1, <1>2, <1>7, <1>8
    , SMTT(30) DEF EntryInv, EntryMatches, EntryUnderName, EntryAlone, EntrySettled, Present
<1>11. CopyInv'
  <2>1. mKey \in modelQ \/ ~Ours(cModel[mKey])
    BY <1>1, <1>2 DEF CopyInv, CopyFresh
  <2>2. \A k \in Name \ tainted' : ~HasEntry(k, mKey)'
    BY <1>1, <1>2, <1>3, <1>4, <1>6 DEF EntryInv, EntryAlone, HasEntry
  <2> QED
    BY <2>1, <2>2, <1>1 DEF CopyInv, CopyFresh, CopyMatches, CopyUnderName, ResyncInv, HasEntry
<1>12. OldestServed'
  BY <1>1, <1>2, <1>5, <1>6, <1>8 DEF OldestServed, Candidate
<1> QED
  BY <1>9, <1>10, <1>11, <1>12 DEF ModelInv

\* ModelDelete finds no entry.
LEMMA DeleteMissStep ==
    ASSUME ModelInv, ModelDeleteMiss, tainted \subseteq tainted'
    PROVE  ModelInv'
<1>1. /\ mpc = "apply" /\ ~Ours(mObj) /\ \A n \in Name : ~HasEntry(n, mKey)
      /\ mpc' = "idle" /\ mKey' = NoObj /\ mObj' = NoModel /\ mName' = NoName
      /\ UNCHANGED <<cModel, clock, modelQ, events, models>>
  BY DEF ModelDeleteMiss, Finish, clusterM, HasEntry
<1>2. ModelTypes /\ NamedRight /\ EntryInv /\ CopyInv /\ OldestServed
  BY DEF ModelInv
<1>3. \A o \in Obj : Settled(o)' => Settled(o) \/ (o = mKey /\ ~Ours(cModel[o]))
  BY <1>1, <1>2 DEF Settled, CopyInv, CopyFresh
<1>4. ModelTypes' /\ NamedRight'
  BY <1>1, <1>2, ModelDefaults DEF ModelTypes, NamedRight
<1>5. EntryInv'
  BY <1>1, <1>2, <1>3
     DEF EntryInv, EntryMatches, EntryUnderName, EntryAlone, EntrySettled, Present, HasEntry
<1>6. CopyInv'
  BY <1>1 DEF CopyInv, CopyFresh, CopyMatches, CopyUnderName, ResyncInv
<1>7. OldestServed'
  BY <1>1, <1>2, <1>3 DEF OldestServed, Candidate
<1> QED
  BY <1>4, <1>5, <1>6, <1>7 DEF ModelInv

\* ModelResync stores the oldest object of the name, if there is one.
LEMMA ResyncStep ==
    ASSUME ModelInv, ModelResync, tainted \subseteq tainted'
    PROVE  ModelInv'
<1> USE ModelDomainsAssumption
<1>1. /\ mpc = "resync"
      /\ mpc' = "idle" /\ mKey' = NoObj /\ mObj' = NoModel /\ mName' = NoName
      /\ UNCHANGED <<cModel, clock, modelQ, events>>
  BY DEF ModelResync, Finish, clusterM
<1>2. ModelTypes /\ NamedRight /\ EntryInv /\ CopyInv /\ OldestServed
  BY DEF ModelInv
<1>3. /\ mKey \in modelQ \/ ~Ours(cModel[mKey])
      /\ \A n \in Name \ tainted : ~HasEntry(n, mKey)
  BY <1>1, <1>2 DEF CopyInv, ResyncInv
<1>4. \A o \in Obj : Settled(o)' => Settled(o) \/ (o = mKey /\ ~Ours(cModel[o]))
  BY <1>1, <1>3 DEF Settled
<1>5. CopyInv'
  BY <1>1 DEF CopyInv, CopyFresh, CopyMatches, CopyUnderName, ResyncInv
<1>6. CASE models' = models /\ \A o \in Obj : ~Candidate(o, mName)
  <2>1. ModelTypes' /\ NamedRight'
    BY <1>1, <1>2, <1>6, ModelDefaults DEF ModelTypes, NamedRight
  <2>2. EntryInv'
    BY <1>1, <1>2, <1>3, <1>4, <1>6
       DEF EntryInv, EntryMatches, EntryUnderName, EntryAlone, EntrySettled, Present, HasEntry
  <2>3. OldestServed'
    BY <1>1, <1>2, <1>4, <1>6 DEF OldestServed, Candidate
  <2> QED
    BY <2>1, <2>2, <2>3, <1>5 DEF ModelInv
<1>7. ASSUME NEW o \in Obj, Oldest(o, mName),
             models' = [models EXCEPT ![mName] =
                           [obj |-> o, name |-> cModel[o].name, ts |-> cModel[o].ts]]
      PROVE  ModelInv'
  <2> DEFINE e == [obj |-> o, name |-> cModel[o].name, ts |-> cModel[o].ts]
  <2>1. /\ Ours(cModel[o]) /\ cModel[o].name = mName /\ Present(o)
        /\ \A x \in Obj : Candidate(x, mName) => cModel[o].ts <= cModel[x].ts
    BY <1>7 DEF Oldest, Candidate, Ours, Present
  <2>2. e \in Entry /\ e.obj = o /\ e.name = mName /\ e.ts = cModel[o].ts /\ mName \in Name
    BY <2>1, <1>2 DEF Entry, ModelTypes, Model
  <2>3. models'[mName] = e /\ \A k \in Name : k # mName => models'[k] = models[k]
    BY <2>2, <1>2, <1>7 DEF ModelTypes
  <2>4. ModelTypes'
    BY <2>2, <1>1, <1>2, <1>7, ModelDefaults DEF ModelTypes
  <2> HIDE DEF e
  <2>5. NamedRight'
    BY <2>2, <2>3, <1>2 DEF NamedRight
  <2>6. EntryMatches'
    <3>1. ASSUME NEW n \in Name \ tainted', NEW x \in Obj, HasEntry(n, x)', Present(x)'
          PROVE  cModel'[x].name = n /\ cModel'[x].ts = models'[n].ts
      <4>1. CASE n = mName
        BY <2>1, <2>2, <2>3, <3>1, <4>1, <1>1 DEF HasEntry
      <4>2. CASE n # mName
        <5>1. n \notin tainted /\ models'[n] = models[n] /\ cModel' = cModel
          BY <2>3, <3>1, <4>2, <1>1
        <5> QED
          BY <3>1, <5>1, <1>2 DEF EntryInv, EntryMatches, HasEntry, Present
      <4> QED
        BY <4>1, <4>2
    <3> QED
      BY <3>1 DEF EntryMatches
  <2>7. EntryUnderName'
    BY <2>1, <2>2, <2>3, <1>1, <1>2 DEF EntryInv, EntryUnderName, HasEntry, Present
  <2>8. EntryAlone'
    BY <2>1, <2>2, <2>3, <1>1, <1>2
       DEF EntryInv, EntryMatches, EntryUnderName, EntryAlone, HasEntry
  <2>9. EntrySettled'
    BY <2>1, <2>2, <2>3, <1>1, <1>2, <1>3, <1>4 DEF EntryInv, EntrySettled, HasEntry
  <2>10. OldestServed'
    BY <2>1, <2>2, <2>3, <1>1, <1>2, <1>4 DEF OldestServed, Candidate
  <2> QED
    BY <2>4, <2>5, <2>6, <2>7, <2>8, <2>9, <2>10, <1>5 DEF ModelInv, EntryInv
<1> QED
  BY <1>6, <1>7 DEF ModelResync

\* The list fails, or the pool is gone: the key is enqueued again, but its entry
\* stays deleted, which is a gap for the name.
LEMMA ResyncFailsStep ==
    ASSUME ModelInv, ModelResyncFails, tainted \subseteq tainted', mName \in tainted'
    PROVE  ModelInv'
<1>1. /\ mpc = "resync" /\ modelQ' = modelQ \cup {mKey}
      /\ mpc' = "idle" /\ mKey' = NoObj /\ mObj' = NoModel /\ mName' = NoName
      /\ UNCHANGED <<cModel, clock, events, models>>
  BY DEF ModelResyncFails, Finish
<1>2. ModelTypes /\ NamedRight /\ EntryInv /\ CopyInv /\ OldestServed
  BY DEF ModelInv
<1>3. \A o \in Obj : Settled(o)' => Settled(o)
  BY <1>1 DEF Settled
<1>4. ModelTypes' /\ NamedRight'
  BY <1>1, <1>2, ModelDefaults DEF ModelTypes, NamedRight
<1>5. EntryInv'
  BY <1>1, <1>2, <1>3
     DEF EntryInv, EntryMatches, EntryUnderName, EntryAlone, EntrySettled, Present, HasEntry
<1>6. CopyInv'
  BY <1>1 DEF CopyInv, CopyFresh, CopyMatches, CopyUnderName, ResyncInv
<1>7. OldestServed'
  BY <1>1, <1>2, <1>3 DEF OldestServed, Candidate
<1> QED
  BY <1>4, <1>5, <1>6, <1>7 DEF ModelInv

-----------------------------------------------------------------------------
\* A process that starts has no entry, and every object of the pool enqueued.
LEMMA ModelInit == HInit => ModelInv
<1> SUFFICES ASSUME HInit PROVE ModelInv
  OBVIOUS
<1> USE ModelDomainsAssumption, ModelBoundsAssumption DEF HInit, Init
<1>1. \A n \in Name : models[n].obj = NoObj
  BY DEF NoEntry
<1>2. ModelTypes
  BY ModelDefaults DEF ModelTypes
<1>3. NamedRight
  BY <1>1 DEF NamedRight
<1>4. EntryInv
  BY <1>1 DEF EntryInv, EntryMatches, EntryUnderName, EntryAlone, EntrySettled, HasEntry
<1>5. CopyInv
  BY DEF CopyInv, CopyFresh, CopyMatches, CopyUnderName, ResyncInv
<1>6. OldestServed
  BY DEF OldestServed, Settled, Candidate, Ours, eventPredicate
<1> QED
  BY <1>2, <1>3, <1>4, <1>5, <1>6 DEF ModelInv

\* Nothing the invariant speaks of changes.
LEMMA ModelStutter ==
    ASSUME ModelInv, tainted \subseteq tainted',
           UNCHANGED <<cModel, clock, modelQ, events, models, mpc, mKey, mObj, mName>>
    PROVE  ModelInv'
<1>1. ModelTypes /\ NamedRight /\ EntryInv /\ CopyInv /\ OldestServed
  BY DEF ModelInv
<1>2. ModelTypes' /\ NamedRight'
  BY <1>1 DEF ModelTypes, NamedRight
<1>3. EntryInv'
  BY <1>1 DEF EntryInv, EntryMatches, EntryUnderName, EntryAlone, EntrySettled, Present,
     HasEntry, Settled
<1>4. CopyInv'
  BY <1>1 DEF CopyInv, CopyFresh, CopyMatches, CopyUnderName, ResyncInv, Present, HasEntry
<1>5. OldestServed'
  BY <1>1 DEF OldestServed, Settled, Candidate
<1> QED
  BY <1>2, <1>3, <1>4, <1>5 DEF ModelInv

\* Failed calls are counted.
LEMMA FaultsCounted == HSpec => [](faults \in Nat)
<1>1. HInit => faults \in Nat
  BY DEF HInit, Init
<1>2. faults \in Nat /\ [HNext]_hvars => (faults \in Nat)'
  <2> SUFFICES ASSUME faults \in Nat, [HNext]_hvars PROVE faults' \in Nat
    OBVIOUS
  <2>1. CASE ModelGetFails
    BY <2>1 DEF ModelGetFails
  <2>2. CASE ModelResyncFails
    <3>1. faults' = faults \/ faults' = faults + 1
      BY <2>2, Zenon DEF ModelResyncFails
    <3> QED
      BY <3>1
  <2>3. CASE ~ModelGetFails /\ ~ModelResyncFails
    <3>1. faults' = faults
      BY <2>3, Zenon DEF HNext, hvars, mvars, bounds, Next, EnvironmentM, ModelWorker,
         ModelCreated, PoolRefChanged, ModelTerminating, ModelRemoved, Observe, PoolSet, Clear,
         ModelReconcile, ModelSetIfOlder, ModelDelete, ModelDeleteMiss, ModelResync
    <3> QED
      BY <3>1
  <2> QED
    BY <2>1, <2>2, <2>3
<1> QED
  BY <1>1, <1>2, PTL DEF HSpec

\* Entries, objects and the reconciler's copy agree as ModelInv says, whatever
\* the order of events, failed calls and steps of the reconciler.
THEOREM ModelInvCorrect == HSpec => []ModelInv
<1>1. ModelInv /\ faults \in Nat /\ [HNext]_hvars => ModelInv'
  <2> SUFFICES ASSUME ModelInv, faults \in Nat, [HNext]_hvars PROVE ModelInv'
    OBVIOUS
  <2>1. CASE UNCHANGED hvars
    BY <2>1, ModelStutter DEF hvars, mvars, clusterM, workerM
  <2>2. CASE HNext
    <3>1. Next /\ tainted' = tainted \cup Gaps /\ tainted \subseteq tainted'
      BY <2>2 DEF HNext
    <3>2. CASE PoolSet \/ ModelGetFails
      BY <3>1, <3>2, ModelStutter DEF PoolSet, ModelGetFails, clusterM, workerM
    <3>3. CASE ModelResyncFails
      <4>1. mpc = "resync" /\ mpc' = "idle" /\ (~hasPool \/ faults' # faults) /\ mName \in Name
        <5>1. ~hasPool \/ (faults < MaxFaults /\ faults' = faults + 1)
          BY <3>3, Zenon DEF ModelResyncFails
        <5>2. ~hasPool \/ faults' # faults
          BY <5>1
        <5> QED
          BY <5>2, <3>3 DEF ModelResyncFails, Finish, ModelInv, ModelTypes
      <4> QED
        BY <4>1, <3>1, <3>3, HistoryStep, ResyncFailsStep
    <3> QED
      BY <3>1, <3>2, <3>3, ObjectStep, ClearStep, ReconcileStep, SetStep, DeleteStep,
         DeleteMissStep, ResyncStep DEF Next, EnvironmentM, ModelWorker
  <2> QED
    BY <2>1, <2>2
<1> QED
  BY <1>1, ModelInit, FaultsCounted, PTL DEF HSpec

\* At every moment a name with a reconciled object is served by an entry at
\* least as old, except between ModelDelete and ModelResync, and except for the
\* names of the recorded gaps.
THEOREM OldestServedCorrect == HSpec => []OldestServed
<1>1. ModelInv => OldestServed
  BY DEF ModelInv
<1> QED
  BY <1>1, ModelInvCorrect, PTL

\* An entry is stored under the modelName of its object; at rest and without a
\* gap it is of an object that exists, is the pool's and was not re-created.
THEOREM EntriesAreLiveCorrect == HSpec => []EntriesAreLive
<1>1. ModelInv => EntriesAreLive
  <2> SUFFICES ASSUME ModelInv, NEW n \in Name, models[n].obj # NoObj
               PROVE  /\ models[n].name = n
                      /\ QuiescentM /\ n \notin tainted =>
                          /\ Candidate(models[n].obj, n)
                          /\ cModel[models[n].obj].ts = models[n].ts
    BY DEF EntriesAreLive
  <2>1. models[n].name = n
    BY DEF ModelInv, NamedRight
  <2>2. models[n].obj \in Obj
    BY DEF ModelInv, ModelTypes, Entry, NoEntry
  <2>3. ASSUME QuiescentM, n \notin tainted
        PROVE  /\ Candidate(models[n].obj, n)
               /\ cModel[models[n].obj].ts = models[n].ts
    <3>1. Settled(models[n].obj)
      BY <2>2, <2>3, ModelDomainsAssumption DEF QuiescentM, Settled, ModelInv, ModelTypes
    <3>2. Ours(cModel[models[n].obj])
      BY <2>2, <2>3, <3>1 DEF ModelInv, EntryInv, EntrySettled, HasEntry
    <3> QED
      BY <2>2, <2>3, <3>2 DEF ModelInv, EntryInv, EntryMatches, HasEntry, Present, Ours, Candidate
  <2> QED
    BY <2>1, <2>3
<1> QED
  BY <1>1, ModelInvCorrect, PTL

-----------------------------------------------------------------------------
(* The locks of the datastore.                                              *)

\* A writer past Lock owns the write lock.
OwnerInv ==
    \A w \in Writer : pc[w] \in {"drain", "write"} => writer = w

\* A writer that writes is alone.
AloneInv ==
    \A w \in Writer : pc[w] = "write" => \A r \in Reader : holds[r] = 0

\* Only a reader in RLock sleeps, and only behind a writer.
SleepInv ==
    \A r \in blocked : pc[r] \in {"rlock", "nested"} /\ writer # NoWriter

\* What PoolHasSynced told a PoolGet is still so.
SyncedInv ==
    \A r \in Reader : pc[r] = "return" /\ synced[r] => pool

LockInv == LockTypeOK /\ OwnerInv /\ AloneInv /\ SleepInv /\ SyncedInv

\* The invariant holds when no goroutine has called yet.
LEMMA LockInvInit == LockInit => LockInv
<1> SUFFICES ASSUME LockInit PROVE LockInv
    OBVIOUS
<1> USE ThreadsAssumption DEF LockInit
<1>1. pool \in BOOLEAN /\ synced \in [Reader -> BOOLEAN]
      BY Zenon
<1>2. LockTypeOK
      BY <1>1 DEF LockTypeOK, Thread, ReaderPC, WriterPC
<1>3. OwnerInv /\ AloneInv /\ SleepInv /\ SyncedInv
      BY DEF OwnerInv, AloneInv, SleepInv, SyncedInv, Thread
<1>4. QED
      BY <1>2, <1>3 DEF LockInv

\* Where a reader is tells the locks it holds; one that does not wait in RLock
\* does not sleep.
LEMMA ReaderAt ==
    ASSUME LockInv, NEW r \in Reader
    PROVE  /\ pc[r] \in ReaderPC /\ r \in Thread
           /\ holds[r] = IF pc[r] \in {"idle", "rlock"} THEN 0 ELSE IF pc[r] = "synced" THEN 2 ELSE 1
           /\ pc[r] \notin {"rlock", "nested"} => r \notin blocked
           /\ op[r] \in {"PoolGet", "read"} /\ op = [op EXCEPT ![r] = op[r]]
           /\ synced[r] \in BOOLEAN /\ synced = [synced EXCEPT ![r] = synced[r]]
<1>1. op \in [Reader -> {"PoolGet", "read"}] /\ synced \in [Reader -> BOOLEAN]
  BY Zenon DEF LockInv, LockTypeOK
<1>2. /\ op[r] \in {"PoolGet", "read"} /\ op = [op EXCEPT ![r] = op[r]]
      /\ synced[r] \in BOOLEAN /\ synced = [synced EXCEPT ![r] = synced[r]]
  BY <1>1
<1>3. /\ pc[r] \in ReaderPC /\ r \in Thread
      /\ holds[r] = IF pc[r] \in {"idle", "rlock"} THEN 0 ELSE IF pc[r] = "synced" THEN 2 ELSE 1
  BY Zenon DEF LockInv, LockTypeOK, Thread
<1>4. pc[r] \notin {"rlock", "nested"} => r \notin blocked
  BY Zenon DEF LockInv, SleepInv
<1>. QED BY <1>2, <1>3, <1>4, Zenon

\* A reader that does not sleep goes from one place in its call to another, with
\* the read locks of that place.
Moves(r, p, h) ==
    /\ pc' = [pc EXCEPT ![r] = p] /\ holds' = [holds EXCEPT ![r] = h]
    /\ UNCHANGED <<pool, writer, blocked>>
    /\ r \notin blocked
    /\ h = IF p \in {"idle", "rlock"} THEN 0 ELSE IF p = "synced" THEN 2 ELSE 1
    /\ h = 0 \/ holds[r] > 0 \/ writer = NoWriter
    /\ p = "return" => (synced'[r] => pool)

\* So it preserves the invariant if what it was told and returns is right.
LEMMA ReaderMoves ==
    ASSUME LockInv, NEW r \in Reader, NEW p \in ReaderPC, NEW h \in 0..2, Moves(r, p, h),
           NEW o \in {"PoolGet", "read"}, op' = [op EXCEPT ![r] = o],
           NEW b \in BOOLEAN, synced' = [synced EXCEPT ![r] = b]
    PROVE  LockInv'
<1>1. /\ pc' = [pc EXCEPT ![r] = p] /\ holds' = [holds EXCEPT ![r] = h]
      /\ pool' = pool /\ writer' = writer /\ blocked' = blocked
  BY Zenon DEF Moves
<1>2. /\ pc \in [Thread -> ReaderPC \cup WriterPC] /\ holds \in [Reader -> 0..2]
      /\ op \in [Reader -> {"PoolGet", "read"}] /\ synced \in [Reader -> BOOLEAN]
      /\ blocked \subseteq Reader
      /\ r \in Thread /\ Reader \subseteq Thread /\ Writer \subseteq Thread
  BY DEF LockInv, LockTypeOK, Thread
<1>3. /\ pc'[r] = p /\ holds'[r] = h /\ synced'[r] = b
      /\ \A q \in Reader : q # r => /\ pc'[q] = pc[q] /\ holds'[q] = holds[q]
                                    /\ synced'[q] = synced[q]
      /\ \A w \in Writer : pc'[w] = pc[w]
  <2>1. pc'[r] = p /\ holds'[r] = h /\ synced'[r] = b
    BY <1>1, <1>2, Zenon
  <2>2. \A q \in Reader : q # r => /\ pc'[q] = pc[q] /\ holds'[q] = holds[q]
                                   /\ synced'[q] = synced[q]
    BY <1>1, <1>2, Zenon
  <2>3. \A w \in Writer : pc'[w] = pc[w]
    BY <1>1, <1>2, ThreadsAssumption
  <2>. QED BY <2>1, <2>2, <2>3, Zenon
<1>4. LockTypeOK'
  <2>1. /\ pc' \in [Thread -> ReaderPC \cup WriterPC] /\ holds' \in [Reader -> 0..2]
        /\ op' \in [Reader -> {"PoolGet", "read"}]
    BY <1>1, <1>2
  <2>2. synced' \in [Reader -> BOOLEAN]
    BY <1>2
  <2>3. \A q \in Reader :
          /\ pc'[q] \in ReaderPC
          /\ holds'[q] = IF pc'[q] \in {"idle", "rlock"} THEN 0
                         ELSE IF pc'[q] = "synced" THEN 2 ELSE 1
    <3>1. ASSUME NEW q \in Reader, q # r
          PROVE  /\ pc'[q] \in ReaderPC
                 /\ holds'[q] = IF pc'[q] \in {"idle", "rlock"} THEN 0
                                ELSE IF pc'[q] = "synced" THEN 2 ELSE 1
      <4>1. pc'[q] = pc[q] /\ holds'[q] = holds[q]
        BY <1>3, <3>1, Zenon
      <4>. QED BY <4>1, ReaderAt
    <3>2. /\ pc'[r] \in ReaderPC
          /\ holds'[r] = IF pc'[r] \in {"idle", "rlock"} THEN 0
                         ELSE IF pc'[r] = "synced" THEN 2 ELSE 1
      BY <1>3, Zenon DEF Moves
    <3>. QED BY <3>1, <3>2, Zenon
  <2>4. /\ \A w \in Writer : pc'[w] \in WriterPC
        /\ pool' \in BOOLEAN /\ blocked' \subseteq Reader /\ writer' \in Writer \cup {NoWriter}
    BY <1>1, <1>3, Zenon DEF LockInv, LockTypeOK
  <2>. QED BY <2>1, <2>2, <2>3, <2>4, Zenon DEF LockTypeOK
<1>5. OwnerInv'
  BY <1>1, <1>3, Zenon DEF LockInv, OwnerInv
<1>6. AloneInv'
  <2>1. ASSUME NEW w \in Writer, pc[w] = "write" PROVE h = 0
    <3>1. writer = w /\ writer # NoWriter /\ holds[r] = 0
      BY <2>1, ThreadsAssumption DEF LockInv, OwnerInv, AloneInv
    <3>. QED BY <3>1 DEF Moves
  <2>2. ASSUME NEW w \in Writer, pc'[w] = "write", NEW q \in Reader PROVE holds'[q] = 0
    <3>1. pc[w] = "write" /\ holds[q] = 0
      BY <1>3, <2>2, Zenon DEF LockInv, AloneInv
    <3>. QED BY <1>3, <2>1, <3>1
  <2>. QED BY <2>2, Zenon DEF AloneInv
<1>7. SleepInv'
  <2>1. r \notin blocked
    BY Zenon DEF Moves
  <2>2. \A q \in blocked : pc'[q] = pc[q]
    BY <1>2, <1>3, <2>1, Zenon
  <2>. QED BY <1>1, <2>2, Zenon DEF LockInv, SleepInv
<1>8. SyncedInv'
  BY <1>1, <1>3 DEF LockInv, SyncedInv, Moves
<1>. QED BY <1>4, <1>5, <1>6, <1>7, <1>8, Zenon DEF LockInv

\* A writer on its way into the lock owns it from Lock on, and is alone there
\* once the readers have left.
LEMMA WriterMoves ==
    ASSUME LockInv, NEW w \in Writer, NEW p \in WriterPC, pc' = [pc EXCEPT ![w] = p],
           UNCHANGED <<pool, op, holds, blocked, synced>>,
           writer' = writer \/ (writer = NoWriter /\ writer' = w),
           p \in {"drain", "write"} => writer' = w,
           p = "write" => \A r \in Reader : holds[r] = 0
    PROVE  LockInv'
<1>1. /\ pc \in [Thread -> ReaderPC \cup WriterPC] /\ blocked \subseteq Reader
      /\ w \in Thread /\ Reader \subseteq Thread /\ Writer \subseteq Thread /\ w # NoWriter
  BY ThreadsAssumption DEF LockInv, LockTypeOK, Thread
<1>2. /\ \A v \in Writer : pc'[v] = IF v = w THEN p ELSE pc[v]
      /\ \A r \in Reader : pc'[r] = pc[r]
      /\ pc' \in [Thread -> ReaderPC \cup WriterPC]
  BY <1>1, ThreadsAssumption
<1>3. LockTypeOK'
  <2>1. \A v \in Writer : pc'[v] \in WriterPC
    BY <1>2, Zenon DEF LockInv, LockTypeOK
  <2>2. \A r \in Reader :
          /\ pc'[r] \in ReaderPC
          /\ holds'[r] = IF pc'[r] \in {"idle", "rlock"} THEN 0
                         ELSE IF pc'[r] = "synced" THEN 2 ELSE 1
    BY <1>2, ReaderAt, Zenon
  <2>3. /\ pool' \in BOOLEAN /\ op' \in [Reader -> {"PoolGet", "read"}] /\ holds' \in [Reader -> 0..2]
        /\ blocked' \subseteq Reader /\ synced' \in [Reader -> BOOLEAN]
    BY Zenon DEF LockInv, LockTypeOK
  <2>4. writer' \in Writer \cup {NoWriter}
    BY Zenon DEF LockInv, LockTypeOK
  <2>. QED BY <1>2, <2>1, <2>2, <2>3, <2>4, Zenon DEF LockTypeOK
<1>4. OwnerInv'
  BY <1>1, <1>2, ThreadsAssumption DEF LockInv, OwnerInv
<1>5. AloneInv'
  BY <1>2, Zenon DEF LockInv, AloneInv
<1>6. SleepInv'
  BY <1>1, <1>2, Zenon DEF LockInv, SleepInv
<1>7. SyncedInv'
  BY <1>2, Zenon DEF LockInv, SyncedInv
<1>. QED BY <1>3, <1>4, <1>5, <1>6, <1>7, Zenon DEF LockInv

\* A reader's steps in and around the lock, but for falling asleep.
LEMMA ReaderSteps ==
    ASSUME LockInv, NEW r \in Reader,
           CallRead(r) \/ Read(r) \/ PoolHasSynced(r) \/ PoolGet(r)
               \/ (RLock(r) /\ writer = NoWriter)
    PROVE  LockInv'
<1>0. /\ "idle" \in ReaderPC /\ "rlock" \in ReaderPC /\ "return" \in ReaderPC
      /\ 0 \in 0..2 /\ 1 \in 0..2
  BY DEF ReaderPC
<1> PICK o0 \in {"PoolGet", "read"} : op = [op EXCEPT ![r] = o0]
  BY ReaderAt, Zenon
<1> PICK b0 \in BOOLEAN : synced = [synced EXCEPT ![r] = b0]
  BY ReaderAt, Zenon
<1>1. CASE CallRead(r)
  <2>1. PICK o \in {"PoolGet", "read"} : op' = [op EXCEPT ![r] = o]
    BY <1>1, Zenon DEF CallRead, Call
  <2>2. pc[r] = "idle" /\ UNCHANGED synced
    BY <1>1, Zenon DEF CallRead, Call
  <2>3. Moves(r, "rlock", 0)
    <3>1. holds' = [holds EXCEPT ![r] = 0]
      BY <1>1, <2>2, ReaderAt DEF CallRead, Call, LockInv, LockTypeOK
    <3>. QED BY <1>1, <2>2, <3>1, ReaderAt DEF Moves, CallRead, Call
  <2>. QED BY <1>0, <2>1, <2>2, <2>3, ReaderMoves, Zenon
<1>2. CASE Read(r)
  <2>1. pc[r] = "read" /\ UNCHANGED <<op, synced>>
    BY <1>2, Zenon DEF Read
  <2>2. Moves(r, "idle", 0)
    <3>1. holds' = [holds EXCEPT ![r] = 0]
      <4>1. holds' = [holds EXCEPT ![r] = holds[r] - 1]
        BY <1>2, Zenon DEF Read, RUnlock
      <4>2. holds[r] - 1 = 0
        BY <2>1, ReaderAt
      <4>. QED BY <4>1, <4>2, Zenon
    <3>. QED BY <1>2, <2>1, <3>1, ReaderAt DEF Moves, Read
  <2>. QED BY <1>0, <2>1, <2>2, ReaderMoves, Zenon
<1>3. CASE PoolHasSynced(r)
  <2>1. pc[r] = "synced" /\ UNCHANGED op /\ synced' = [synced EXCEPT ![r] = pool]
    BY <1>3, Zenon DEF PoolHasSynced
  <2>2. pool \in BOOLEAN /\ synced'[r] = pool
    BY <2>1, Zenon DEF LockInv, LockTypeOK
  <2>3. Moves(r, "return", 1)
    <3>1. holds' = [holds EXCEPT ![r] = 1]
      <4>1. holds' = [holds EXCEPT ![r] = holds[r] - 1]
        BY <1>3, Zenon DEF PoolHasSynced, RUnlock
      <4>2. holds[r] - 1 = 1
        BY <2>1, ReaderAt
      <4>. QED BY <4>1, <4>2, Zenon
    <3>2. holds[r] > 0 /\ r \notin blocked
      BY <2>1, ReaderAt
    <3>. QED BY <1>3, <2>2, <3>1, <3>2 DEF Moves, PoolHasSynced
  <2>. QED BY <1>0, <2>1, <2>2, <2>3, ReaderMoves, Zenon
<1>4. CASE PoolGet(r)
  <2>1. /\ pc[r] = "return" /\ op' = [op EXCEPT ![r] = "read"]
        /\ synced' = [synced EXCEPT ![r] = FALSE]
    BY <1>4, Zenon DEF PoolGet
  <2>2. Moves(r, "idle", 0)
    <3>1. holds' = [holds EXCEPT ![r] = 0]
      <4>1. holds' = [holds EXCEPT ![r] = holds[r] - 1]
        BY <1>4, Zenon DEF PoolGet, RUnlock
      <4>2. holds[r] - 1 = 0
        BY <2>1, ReaderAt
      <4>. QED BY <4>1, <4>2, Zenon
    <3>. QED BY <1>4, <2>1, <3>1, ReaderAt DEF Moves, PoolGet
  <2>. QED BY <1>0, <2>1, <2>2, ReaderMoves, Zenon
<1>5. CASE RLock(r) /\ writer = NoWriter
  <2>1. /\ pc[r] \in {"rlock", "nested"} /\ r \notin blocked /\ UNCHANGED <<pool, writer, blocked>>
        /\ UNCHANGED <<op, synced>>
        /\ pc' = [pc EXCEPT ![r] = Admitted(r)] /\ holds' = [holds EXCEPT ![r] = @ + 1]
    BY <1>5, Zenon DEF RLock
  <2>2. PICK p \in {"synced", "nested", "read"} :
            p = Admitted(r) /\ (p = "synced" <=> pc[r] = "nested")
    BY DEF Admitted
  <2>3. PICK h \in 0..2 : h = (IF p = "synced" THEN 2 ELSE 1)
    OBVIOUS
  <2>4. Moves(r, p, h)
    <3>1. holds' = [holds EXCEPT ![r] = h]
      <4>1. holds' = [holds EXCEPT ![r] = holds[r] + 1]
        BY <2>1, Zenon
      <4>2. holds[r] + 1 = h
        <5>1. CASE pc[r] = "nested"
          <6>1. holds[r] = 1 /\ p = "synced"
            BY <2>2, <5>1, ReaderAt, Zenon
          <6>. QED BY <2>3, <6>1
        <5>2. CASE pc[r] = "rlock"
          <6>1. holds[r] = 0
            BY <5>2, ReaderAt, Zenon
          <6>2. p # "synced"
            BY <2>2, <5>2
          <6>. QED BY <2>3, <6>1, <6>2
        <5>. QED BY <2>1, <5>1, <5>2
      <4>. QED BY <4>1, <4>2, Zenon
    <3>2. h = IF p \in {"idle", "rlock"} THEN 0 ELSE IF p = "synced" THEN 2 ELSE 1
      BY <2>3
    <3>3. p # "return"
      OBVIOUS
    <3>4. pc' = [pc EXCEPT ![r] = p]
      BY <2>1, <2>2, Zenon
    <3>. QED BY <1>5, <2>1, <3>1, <3>2, <3>3, <3>4, Zenon DEF Moves
  <2>5. p \in ReaderPC
    BY DEF ReaderPC
  <2>. QED BY <2>1, <2>4, <2>5, ReaderMoves, Zenon
<1>. QED BY <1>1, <1>2, <1>3, <1>4, <1>5

\* Write and the Unlock that lets the sleeping readers in: nobody holds a read
\* lock by then, so no PoolGet is between PoolHasSynced and its return.
LEMMA WriteStep == ASSUME LockInv, NEW w \in Writer, Write(w) PROVE LockInv'
<1>1. /\ pc[w] = "write" /\ pool' \in BOOLEAN /\ writer' = NoWriter /\ blocked' = {}
      /\ UNCHANGED <<op, synced>>
      /\ holds' = [r \in Reader |-> IF r \in blocked THEN holds[r] + 1 ELSE holds[r]]
      /\ pc' = [t \in Thread |-> IF t = w THEN "idle"
                                 ELSE IF t \in blocked THEN Admitted(t) ELSE pc[t]]
  BY Zenon DEF Write, Unlock
<1>2. blocked \subseteq Reader /\ w \notin Reader /\ Reader \subseteq Thread /\ Writer \subseteq Thread
  BY ThreadsAssumption DEF LockInv, LockTypeOK, Thread
<1>3. \A r \in Reader : holds[r] = 0 /\ pc[r] \in {"idle", "rlock"}
  <2>1. \A r \in Reader : holds[r] = 0
    BY <1>1, Zenon DEF LockInv, AloneInv
  <2>. QED BY <2>1, ReaderAt
<1>4. \A r \in Reader : Admitted(r) \in {"nested", "read"}
  BY <1>3 DEF Admitted
<1>5. \A r \in Reader : /\ pc'[r] = IF r \in blocked THEN Admitted(r) ELSE pc[r]
                        /\ holds'[r] = IF r \in blocked THEN 1 ELSE 0
  BY <1>1, <1>2, <1>3
<1>6. \A r \in Reader : pc'[r] \in {"idle", "rlock", "nested", "read"}
  BY <1>3, <1>4, <1>5
<1>7. \A v \in Writer : pc'[v] = IF v = w THEN "idle" ELSE pc[v]
  BY <1>1, <1>2, ThreadsAssumption
<1>8. LockTypeOK'
  <2>1. \A r \in Reader : /\ pc'[r] \in ReaderPC
                          /\ holds'[r] = IF pc'[r] \in {"idle", "rlock"} THEN 0
                                         ELSE IF pc'[r] = "synced" THEN 2 ELSE 1
    <3>1. \A r \in Reader : pc'[r] \in ReaderPC
      BY <1>6 DEF ReaderPC
    <3>2. ASSUME NEW r \in Reader
          PROVE  holds'[r] = IF pc'[r] \in {"idle", "rlock"} THEN 0
                             ELSE IF pc'[r] = "synced" THEN 2 ELSE 1
      BY <1>3, <1>4, <1>5
    <3>. QED BY <3>1, <3>2, Zenon
  <2>2. \A v \in Writer : pc'[v] \in WriterPC
    BY <1>7 DEF LockInv, LockTypeOK, WriterPC
  <2>3. pc' \in [Thread -> ReaderPC \cup WriterPC]
    <3>1. \A t \in Thread : pc'[t] \in ReaderPC \cup WriterPC
      BY <2>1, <2>2, Zenon DEF Thread
    <3>. QED BY <1>1, <3>1
  <2>4. holds' \in [Reader -> 0..2]
    BY <1>1, <1>3
  <2>. QED BY <1>1, <2>1, <2>2, <2>3, <2>4 DEF LockInv, LockTypeOK
<1>9. OwnerInv' /\ AloneInv' /\ SleepInv'
  <2>1. ASSUME NEW v \in Writer, pc'[v] \in {"drain", "write"} PROVE FALSE
    BY <1>1, <1>7, <2>1 DEF LockInv, OwnerInv
  <2>. QED BY <1>1, <2>1 DEF OwnerInv, AloneInv, SleepInv
<1>10. SyncedInv'
  BY <1>1, <1>6 DEF LockInv, SyncedInv
<1>. QED BY <1>8, <1>9, <1>10, Zenon DEF LockInv

\* Every step of a goroutine in or around the lock preserves it.
LEMMA LockInvNext == LockInv /\ [LockNext]_lvars => LockInv'
<1> SUFFICES ASSUME LockInv, [LockNext]_lvars PROVE LockInv'
    OBVIOUS
<1>1. CASE UNCHANGED lvars
  BY <1>1 DEF lvars, LockInv, LockTypeOK, OwnerInv, AloneInv, SleepInv, SyncedInv
<1>2. ASSUME NEW r \in Reader, RLock(r), writer # NoWriter PROVE LockInv'
  <2>1. /\ pc[r] \in {"rlock", "nested"} /\ blocked' = blocked \cup {r}
        /\ UNCHANGED <<pc, holds, pool, op, writer, synced>>
    BY <1>2, Zenon DEF RLock
  <2>2. SleepInv'
    BY <1>2, <2>1, Zenon DEF LockInv, SleepInv
  <2>3. LockTypeOK'
    BY <2>1 DEF LockInv, LockTypeOK
  <2>. QED BY <2>1, <2>2, <2>3 DEF LockInv, OwnerInv, AloneInv, SyncedInv
<1>3. ASSUME NEW w \in Writer, CallWrite(w) PROVE LockInv'
  BY <1>3, WriterMoves DEF CallWrite, WriterPC
<1>4. ASSUME NEW w \in Writer, Lock(w) PROVE LockInv'
  BY <1>4, WriterMoves DEF Lock, WriterPC
<1>5. ASSUME NEW w \in Writer, Drain(w) PROVE LockInv'
  <2>1. writer = w
    BY <1>5, Zenon DEF LockInv, OwnerInv, Drain
  <2>. QED BY <1>5, <2>1, WriterMoves DEF Drain, WriterPC
<1>6. ASSUME NEW w \in Writer, Write(w) PROVE LockInv'
  BY <1>6, WriteStep
<1>. QED BY <1>1, <1>2, <1>3, <1>4, <1>5, <1>6, ReaderSteps DEF LockNext, ReaderStep, WriterStep

\* The lock's invariant holds throughout.
THEOREM LockInvCorrect == LockSpec => []LockInv
<1>1. QED
      BY LockInvInit, LockInvNext, PTL DEF LockSpec

\* The flusher of the metrics is a reader like the others: every step of the
\* composition is a step of the lock's specification or leaves the lock alone.
THEOREM LoggerUsesLock == LoggerSpec => LockSpec
<1>1. LoggerInit => LockInit
  BY DEF LoggerInit
<1>2. [LoggerNext]_loggerVars => [LockNext]_lvars
  <2> SUFFICES ASSUME [LoggerNext]_loggerVars PROVE [LockNext]_lvars
    OBVIOUS
  <2>1. CASE Flush
    <3>1. CASE FlusherWakes
      BY <3>1, LoggerAssumption, Zenon DEF FlusherWakes, LockNext, CallRead
    <3>2. CASE FlusherLocks
      BY <3>2, LoggerAssumption, Zenon DEF FlusherLocks, LockNext, ReaderStep
    <3>3. CASE FlusherPoolGet
      BY <3>3, LoggerAssumption, Zenon DEF FlusherPoolGet, LockNext, ReaderStep
    <3>4. CASE PodGetAll \/ RecordinferencePoolReadyPods
      BY <3>4, Zenon DEF PodGetAll, RecordinferencePoolReadyPods
    <3>. QED BY <2>1, <3>1, <3>2, <3>3, <3>4, Zenon DEF Flush
  <2>2. CASE Others
    BY <2>2, Zenon DEF Others, LockNext, WriterStep
  <2>3. CASE \E w \in Writer : Reconcile(w)
    BY <2>3, Zenon DEF Reconcile, LockNext, WriterStep
  <2>4. CASE StoreOrDelete \/ Cancel \/ UNCHANGED loggerVars
    BY <2>4, Zenon DEF StoreOrDelete, Cancel, loggerVars
  <2>. QED BY <2>1, <2>2, <2>3, <2>4, Zenon DEF LoggerNext
<1>. QED BY <1>1, <1>2, PTL DEF LoggerSpec, LockSpec

\* However many handlers and reconcilers there are, and with the flusher among
\* them, PoolGet's read of ds.pool agrees with what its PoolHasSynced returned.
THEOREM PoolGetNeverNilCorrect == LoggerSpec => []PoolGetNeverNil
<1>1. LockInv => PoolGetNeverNil
      BY DEF LockInv, SyncedInv, PoolGetNeverNil, Returned
<1>2. QED
      BY <1>1, LockInvCorrect, LoggerUsesLock, PTL
=============================================================================
