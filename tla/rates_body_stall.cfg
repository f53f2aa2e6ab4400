\* One call whose res.json() never settles: no timer bounds the body read.
CONSTANTS
    ValueKinds <- MC_ValueKinds
    NoCall = NoCall
SPECIFICATION Spec
CONSTANTS Calls <- MC_OneCall
PROPERTY RatesLoadingEventuallyClears
\* Every call finishing is the end of a run, not a deadlock.
CHECK_DEADLOCK FALSE
