--------------------------- MODULE DatastoreLock ---------------------------
(***************************************************************************)
(* The datastore's poolAndModelsMu and the calls made under it.  Request    *)
(* handlers, refreshers, the health server and the pod reconciler read; the *)
(* pool and model reconcilers write.  PoolGet holds a read lock while       *)
(* PoolHasSynced takes a second one, and a sync.RWMutex lets no reader in   *)
(* behind a writer that waits.                                              *)
(***************************************************************************)
EXTENDS Naturals

CONSTANTS
    Reader,    \* goroutines that read the pool or the models
    Writer,    \* the reconcilers that change them
    NoWriter   \* nobody owns the write lock

ASSUME ThreadsAssumption ==
    Reader \cap Writer = {} /\ NoWriter \notin Reader \cup Writer

VARIABLES
    pool,      \* ds.pool is not nil
    pc,        \* where each goroutine is
    op,        \* the call a reader makes: "PoolGet" or another read
    holds,     \* read locks each reader holds
    blocked,   \* readers that sleep in RLock
    writer,    \* the goroutine that owns or waits for the write lock
    synced     \* what PoolHasSynced returned to each PoolGet

lvars == <<pool, pc, op, holds, blocked, writer, synced>>

Thread == Reader \cup Writer

ReaderPC == {"idle", "rlock", "nested", "synced", "return", "read"}
WriterPC == {"idle", "lock", "drain", "write"}

LockTypeOK ==
    /\ pool \in BOOLEAN
    /\ pc \in [Thread -> ReaderPC \cup WriterPC]
    /\ \A r \in Reader : pc[r] \in ReaderPC
    /\ \A w \in Writer : pc[w] \in WriterPC
    /\ op \in [Reader -> {"PoolGet", "read"}]
    /\ holds \in [Reader -> 0..2]
    /\ blocked \subseteq Reader
    /\ writer \in Writer \cup {NoWriter}
    /\ synced \in [Reader -> BOOLEAN]
    /\ \A r \in Reader :
        holds[r] = IF pc[r] \in {"idle", "rlock"} THEN 0
                   ELSE IF pc[r] = "synced" THEN 2 ELSE 1

-----------------------------------------------------------------------------
(* sync.RWMutex (external).                                                 *)

Admitted(r) ==
    IF pc[r] = "nested" THEN "synced"
    ELSE IF op[r] = "PoolGet" THEN "nested" ELSE "read"

\* RLock: with a writer waiting or writing the reader sleeps.
RLock(r) ==
    /\ pc[r] \in {"rlock", "nested"}
    /\ r \notin blocked
    /\ IF writer = NoWriter
       THEN /\ holds' = [holds EXCEPT ![r] = @ + 1]
            /\ pc' = [pc EXCEPT ![r] = Admitted(r)]
            /\ UNCHANGED blocked
       ELSE blocked' = blocked \cup {r} /\ UNCHANGED <<holds, pc>>
    /\ UNCHANGED <<pool, op, writer, synced>>

RUnlock(r) == holds' = [holds EXCEPT ![r] = @ - 1]

\* Lock: one writer at a time, and from here on no new reader.
Lock(w) ==
    /\ pc[w] = "lock"
    /\ writer = NoWriter
    /\ writer' = w
    /\ pc' = [pc EXCEPT ![w] = "drain"]
    /\ UNCHANGED <<pool, op, holds, blocked, synced>>

\* Lock returns once the readers inside have left.
Drain(w) ==
    /\ pc[w] = "drain"
    /\ \A r \in Reader : holds[r] = 0
    /\ pc' = [pc EXCEPT ![w] = "write"]
    /\ UNCHANGED <<pool, op, holds, blocked, writer, synced>>

\* Unlock: every sleeping reader is let in.
Unlock(w) ==
    /\ writer' = NoWriter
    /\ holds' = [r \in Reader |-> IF r \in blocked THEN holds[r] + 1 ELSE holds[r]]
    /\ pc' = [t \in Thread |-> IF t = w THEN "idle"
                               ELSE IF t \in blocked THEN Admitted(t) ELSE pc[t]]
    /\ blocked' = {}

-----------------------------------------------------------------------------
(* The datastore's operations.                                              *)

\* A call of PoolGet, or of one of the other reads (PoolHasSynced,
\* PoolLabelsMatch, ModelGet, ModelGetAll).
Call(r, o) ==
    /\ pc[r] = "idle"
    /\ op' = [op EXCEPT ![r] = o]
    /\ pc' = [pc EXCEPT ![r] = "rlock"]
    /\ UNCHANGED <<pool, holds, blocked, writer, synced>>

CallRead(r) == Call(r, "PoolGet") \/ Call(r, "read")

\* Mutant: the read lock is not given back.
ReadKeepsLock(r) ==
    /\ pc[r] = "read"
    /\ pc' = [pc EXCEPT ![r] = "idle"]
    /\ UNCHANGED <<pool, op, holds, blocked, writer, synced>>

Read(r) ==
    /\ pc[r] = "read"
    /\ RUnlock(r)
    /\ pc' = [pc EXCEPT ![r] = "idle"]
    /\ UNCHANGED <<pool, op, blocked, writer, synced>>

\* Mutant: PoolHasSynced releases the lock of its caller too.
PoolHasSyncedReleasesBoth(r) ==
    /\ pc[r] = "synced"
    /\ synced' = [synced EXCEPT ![r] = pool]
    /\ holds' = [holds EXCEPT ![r] = 0]
    /\ pc' = [pc EXCEPT ![r] = "return"]
    /\ UNCHANGED <<pool, op, blocked, writer>>

\* PoolHasSynced, called by PoolGet: it leaves with its own read lock only.
PoolHasSynced(r) ==
    /\ pc[r] = "synced"
    /\ synced' = [synced EXCEPT ![r] = pool]
    /\ RUnlock(r)
    /\ pc' = [pc EXCEPT ![r] = "return"]
    /\ UNCHANGED <<pool, op, blocked, writer>>

\* PoolGet reads ds.pool after PoolHasSynced has looked at it.
Returned(r) == IF ~synced[r] THEN "error" ELSE IF pool THEN "pool" ELSE "nil"

PoolGet(r) ==
    /\ pc[r] = "return"
    /\ RUnlock(r)
    /\ pc' = [pc EXCEPT ![r] = "idle"]
    /\ op' = [op EXCEPT ![r] = "read"]
    /\ synced' = [synced EXCEPT ![r] = FALSE]
    /\ UNCHANGED <<pool, blocked, writer>>

CallWrite(w) ==
    /\ pc[w] = "idle"
    /\ pc' = [pc EXCEPT ![w] = "lock"]
    /\ UNCHANGED <<pool, op, holds, blocked, writer, synced>>

\* Clear, PoolSet, or a change of the models that leaves the pool alone
\* (ModelSetIfOlder, ModelResync, ModelDelete; a panic in ModelResync runs the
\* deferred Unlock as well).
Write(w) ==
    /\ pc[w] = "write"
    /\ pool' \in BOOLEAN
    /\ Unlock(w)
    /\ UNCHANGED <<op, synced>>

-----------------------------------------------------------------------------
LockInit ==
    /\ pool = FALSE
    /\ pc = [t \in Thread |-> "idle"]
    /\ op = [r \in Reader |-> "read"]
    /\ holds = [r \in Reader |-> 0]
    /\ blocked = {}
    /\ writer = NoWriter
    /\ synced = [r \in Reader |-> FALSE]

ReaderStep(r) == RLock(r) \/ Read(r) \/ PoolHasSynced(r) \/ PoolGet(r)
WriterStep(w) == Lock(w) \/ Drain(w) \/ Write(w)

LockNext ==
    \/ \E r \in Reader : CallRead(r) \/ ReaderStep(r)
    \/ \E w \in Writer : CallWrite(w) \/ WriterStep(w)

LockSpec == LockInit /\ [][LockNext]_lvars

-----------------------------------------------------------------------------
(* Properties.                                                              *)

\* PoolGet never returns a nil pool without an error: nobody can write
\* between its PoolHasSynced and its read of ds.pool.
PoolGetNeverNil ==
    \A r \in Reader : pc[r] = "return" => Returned(r) # "nil"

\* A PoolGet sleeps in its nested RLock behind a writer that waits for it.
NestedWait ==
    /\ writer # NoWriter
    /\ \E r \in blocked : holds[r] > 0

\* Only that can keep a call from returning.
CallsReturnUnlessNested ==
    \A t \in Thread : (pc[t] # "idle") ~> (pc[t] = "idle" \/ NestedWait)
=============================================================================
