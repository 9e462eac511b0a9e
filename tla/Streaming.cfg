CONSTANTS
    MaxChunks = 3
    MaxChanges = 2
    MaxTargets = 4
    MaxWeight = 4
SPECIFICATION FairSpec
INVARIANTS AccountsSettled ChunksInOrder DrawInProportion
PROPERTIES OrderKept AnsweredUnlessTrailers
CHECK_DEADLOCK FALSE
