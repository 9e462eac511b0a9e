---------------------------- MODULE MCScheduler ----------------------------
\* Scheduler for TLC: two or three pods and metrics on both sides of every
\* threshold.
EXTENDS Scheduler, TLC

CONSTANTS p1, p2, p3

M(q, k, a, n) == [queue |-> q, kv |-> k, active |-> a, max |-> n]

\* Idle and loaded, with the adapter, with a free slot, and full.
MCMetric ==
    {M(0, 0, {}, 1), M(0, 2, {"a"}, 1), M(1, 1, {"b"}, 1), M(2, 0, {"a"}, 2),
     M(3, 3, {"b"}, 2), M(3, 1, {}, 0)}

PodSymmetry == Permutations(Pod)
=============================================================================
