----------------------- MODULE ModelDatastoreHistory -----------------------
(***************************************************************************)
(* ModelDatastore with a record of the names for which one of the known     *)
(* gaps occurred: an object re-created before its deletion was reconciled   *)
(* or while an entry of it is left, a resync that failed after the entry    *)
(* was deleted, and Clear.                                                  *)
(***************************************************************************)
EXTENDS ModelDatastore

VARIABLE tainted   \* names whose entry a gap may have spoilt

hvars == <<mvars, tainted>>

Settled(o) == o \notin modelQ /\ mKey # o

\* The names that entries or the reconciler's copy of o carry, and its new one.
NamesOf(o) ==
    {n \in Name : models[n].obj = o} \cup {cModel'[o].name}
        \cup {n \in Name : mKey = o /\ n \in {mObj.name, mName}}

\* Of an object with two entries ModelDelete leaves one behind.
Recreated(o) ==
    /\ cModel[o].phase = "absent" /\ cModel'[o].phase # "absent"
    /\ ~Settled(o) \/ \E n \in Name : models[n].obj = o

Gaps ==
    (UNION {NamesOf(o) : o \in {x \in Obj : Recreated(x)}})
        \cup {n \in Name : hasPool /\ ~hasPool'}
        \cup {n \in Name : /\ mpc = "resync" /\ mpc' = "idle" /\ n = mName
                           /\ ~hasPool \/ faults' # faults}

HInit == Init /\ tainted = {}
HNext == Next /\ tainted' = tainted \cup Gaps
HSpec == HInit /\ [][HNext]_hvars
HFairSpec == HSpec /\ WF_mvars(ModelWorker)

\* At every moment, not only at rest, a name with an object that has been
\* reconciled is served by an entry at least as old, except between
\* ModelDelete and ModelResync, which are two critical sections.
OldestServed ==
    \A n \in Name \ tainted : \A o \in Obj :
        (Settled(o) /\ Candidate(o, n)) =>
            \/ mpc = "resync" /\ mName = n
            \/ models[n].obj # NoObj /\ models[n].ts <= cModel[o].ts

\* An entry is always stored under the modelName of its object, by which
\* ModelDelete deletes it; at rest it is an object that exists, refers to the
\* pool and has not been re-created since.
EntriesAreLive ==
    \A n \in Name : models[n].obj # NoObj =>
        /\ models[n].name = n
        /\ QuiescentM /\ n \notin tainted =>
            /\ Candidate(models[n].obj, n)
            /\ cModel[models[n].obj].ts = models[n].ts
=============================================================================
