SPECIFICATION FairSpec
CONSTANTS
    Types = {pool, model}
    Unknown = unknown
    Callers = {c1, c2}
    Chans = {s1, s2}
INVARIANTS
    HeldIsShared
    SyncedUnlessShutdown
PROPERTIES
    RunsOnce
    ShutdownEnds
