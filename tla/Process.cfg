CONSTANTS
    FlagValues <- MCFlagValues
    MaxFragments = 3
    MaxStreams = 2
SPECIFICATION FairSpec
INVARIANTS FlagsReadRight CleanExit
PROPERTIES StopEnds HealthyServes
