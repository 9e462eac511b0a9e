--------------------------- MODULE MCPodDatastore ---------------------------
(***************************************************************************)
(* Two instances of PodDatastore in one run, told apart by the initial      *)
(* state: one pod that may come back under another address, with all the    *)
(* changes and faults the bounds allow, or two pods at one address and      *)
(* MaxBoth changes.                                                         *)
(***************************************************************************)
EXTENDS PodDatastoreHistory

CONSTANTS
    p1, p2,
    MaxBoth   \* bound: changes of API objects in the instance of two pods

VARIABLE both   \* the instance of two pods

MCSelectors == {{"a"}, {"b"}}
MCPodLabels == {{"a"}, {"b"}}

Instance ==
    IF both
      THEN (\A p \in Pod : cPod[p].ip = NoIP) /\ events <= MaxBoth /\ faults = 0
      ELSE cPod[p2] = NoPod

\* Labels, addresses and pods can be renamed in a behaviour: one initial state
\* of those that differ by names only is enough.
Rank(o) == (IF o.phase = "absent" THEN 0 ELSE IF o.phase = "live" THEN 2 ELSE 4)
           + (IF o.ready THEN 1 ELSE 0)
Representative ==
    /\ cPool.selector = NoPool.selector
    /\ cPool = NoPool => cPod[p1].labels = NoPod.labels
    /\ \A p \in Pod : cPod[p].ip = NoIP
    /\ Rank(cPod[p1]) >= Rank(cPod[p2])

MCInit == HInit /\ both \in BOOLEAN /\ Instance /\ Representative
MCNext == HNext /\ UNCHANGED both /\ Instance'
MCFairSpec == MCInit /\ [][MCNext]_<<hvars, both>> /\ Fairness
=============================================================================
