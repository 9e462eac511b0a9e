CONSTANTS
    Id = {w1, w2}
    None = None
    Raw = Raw
    MaxLines = 4
SPECIFICATION CallSpec
INVARIANTS NoEventPassedOver ResultIsOfLastEvent
CHECK_DEADLOCK FALSE
