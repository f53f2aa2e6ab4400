\* A visit whose subscription registers after a write that landed between
\* the server reading the list and the subscription: the write is lost.
CONSTANTS
    Ids <- MC_Ids
    RecVals <- MC_RecVals
    Currency <- MC_Currency
    Absent = Absent
    NoValue = NoValue
    Visits = {1}
    MaxWrites = 2
    StreamMayDrop = FALSE
SPECIFICATION Spec
INVARIANT CacheMatchesServerWhenSettled
CHECK_DEADLOCK FALSE
