CONSTANTS
    p1 = p1
    p2 = p2
    p3 = p3
    Pod = {p1, p2, p3}
    Metric <- MCMetric
    Target = {"a"}
    NoNode = NoNode
    MaxInt = 9
    MaxRefreshes = 2
    KVCacheThreshold = 1
    QueueThresholdCritical = 1
    QueueingThresholdLoRA = 3
SPECIFICATION Spec
INVARIANTS StableOutcome AdmittedOnly FailsOnlyForCause
SYMMETRY PodSymmetry
CHECK_DEADLOCK FALSE
