CONSTANTS
    o1 = o1
    o2 = o2
    o3 = o3
    NoObj = NoObj
    Obj = {o1, o2, o3}
    Name = {"m", "n"}
    MaxEvents = 2
    MaxPool = 1
    MaxFaults = 1
SPECIFICATION HFairSpec
INVARIANTS OldestServed EntriesAreLive
PROPERTY EventuallyQuiescentM
CHECK_DEADLOCK FALSE
