\* cleanupPayments runs while initPayments is still awaiting: its late
\* refresh or subscription refills the cleared cache.
CONSTANTS
    Ids <- MC_Ids
    RecVals <- MC_RecVals
    Currency <- MC_Currency
    Absent = Absent
    NoValue = NoValue
    Visits = {1}
    MaxWrites = 2
    StreamMayDrop = FALSE
SPECIFICATION Spec
INVARIANT ClearedCacheStaysEmpty
CHECK_DEADLOCK FALSE
