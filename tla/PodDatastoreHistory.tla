------------------------ MODULE PodDatastoreHistory ------------------------
(***************************************************************************)
(* PodDatastore with a record of which reconciles overlapped.  It pins down *)
(* what the store promises although its two writers do not exclude each     *)
(* other: every wrong entry is owed to an overlap of the two reconcilers on *)
(* that pod, or to a list that failed.                                      *)
(***************************************************************************)
EXTENDS PodDatastore

VARIABLES
    suspect,  \* pods whose entry an overlap or a failed list may have spoilt
    raced,    \* the two reconcilers have been active at the same time
    cleared   \* Clear has dropped entries

hvars == <<vars, suspect, raced, cleared>>

\* The step happens between the first and the last step of a reconcile of
\* key'["pod"] while the pool reconciler is active.
Overlap ==
    /\ pc'["pod"] # "idle"
    /\ pc["pool"] # "idle" \/ pc'["pool"] # "idle"

\* A reconcile of p that starts now, a list that succeeds and Clear each make
\* the entries they cover right again unless they are overlapped in turn.
Surviving ==
    IF pc["pod"] = "idle" /\ pc'["pod"] = "get" THEN suspect \ {key'["pod"]}
    ELSE IF pc["pool"] = "list" /\ pc'["pool"] = "add" THEN {}
    ELSE IF pc["pool"] = "list" /\ pc'["pool"] = "idle" THEN Pod
    ELSE IF pc["pool"] = "apply" /\ pc'["pool"] = "idle" /\ dsPool'.phase = "absent" THEN {}
    ELSE suspect

Record ==
    /\ suspect' = Surviving \cup {p \in Pod : Overlap /\ p = key'["pod"]}
    /\ raced' = (raced \/ Overlap)
    /\ cleared' = (cleared \/ (/\ dsPool.phase # "absent"
                               /\ dsPool'.phase = "absent"))

HInit == Init /\ suspect = {} /\ raced = FALSE /\ cleared = FALSE
HNext == Next /\ Record
HSpec == HInit /\ [][HNext]_hvars
HFairSpec == HSpec /\ Fairness

\* When nothing is left to do the store holds the cluster's pool and, for
\* every pod that no overlap touched, exactly the pods that are ready and
\* match it, under their current address.  A terminating pod is exempt:
\* PodResyncAll does not look at DeletionTimestamp.
ConvergesUnlessRaced ==
    Quiescent =>
        /\ dsPool = (IF cPool.phase = "live" THEN cPool ELSE NoPool)
        /\ \A p \in Pod \ suspect : cPod[p].phase # "terminating" =>
            /\ (dsPods[p] # 0) <=> Eligible(p)
            /\ dsPods[p] # 0 => info[dsPods[p]] = cPod[p].ip

\* Without an overlap and without a Clear no refresher goroutine leaks: when
\* nothing is left to do the ones not told to stop are the stored ones.
NoLeakUnlessRaced ==
    (Quiescent /\ ~raced /\ ~cleared) => running \ closed = Stored
=============================================================================
