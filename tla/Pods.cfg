CONSTANTS
    p1 = p1
    p2 = p2
    NoKey = NoKey
    Pod = {p1, p2}
    Selectors <- MCSelectors
    PodLabels <- MCPodLabels
    IP = {1, 2}
    MaxPM = 4
    MaxEvents = 3
    MaxFaults = 1
    MaxBoth = 1
SPECIFICATION MCFairSpec
INVARIANTS CloseOnce StoredRefreshes ConvergesUnlessRaced NoLeakUnlessRaced
PROPERTIES LeaksByClearOrOvertaken EventuallyQuiescent
CHECK_DEADLOCK FALSE
