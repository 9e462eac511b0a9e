SPECIFICATION FairSpec
CONSTANTS
    Address = {a1, a2}
    None = none
    Adapter = {l1, l2}
    Optional = {"lora"}
    MaxLoads = 2
    MaxChanges = 2
    MaxFaults = 1
INVARIANTS StopTakesEffect OneStaleStore
PROPERTIES NeverBackward MetricsConverge
CHECK_DEADLOCK FALSE
