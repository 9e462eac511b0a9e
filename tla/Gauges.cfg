CONSTANTS
    Reader = {r1, f}
    Flusher = f
    Writer = {w1, w2}
    NoWriter = NoWriter
    Pods = {p1, p2}
SPECIFICATION LoggerFairSpec
INVARIANT PoolGetNeverNil
PROPERTIES CallsReturnUnlessNested GaugesSettle
CHECK_DEADLOCK FALSE
