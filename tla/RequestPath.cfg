CONSTANTS
    MaxChunks = 3
    MaxChanges = 2
SPECIFICATION FairSpec
INVARIANTS AnsweredOnce ReadUnlessLastCarries
PROPERTIES OrderUnlessTrailers RequestEnds
CHECK_DEADLOCK FALSE
