\* One visit of the payments page with the provider dialog: saves from the
\* form interleave with the visit's refresh and subscription and with other
\* clients' writes; convergence outside the subscribe gap, and the Save
\* button is enabled again after every submit.
CONSTANTS
    Ids <- MC_TwoIds
    RecVals <- MC_RecVals
    Currency <- MC_Currency
    Absent = Absent
    NoValue = NoValue
    Visits = {1}
    MaxWrites = 2
    StreamMayDrop = FALSE
SPECIFICATION DialogSpec
INVARIANT DialogTypeOK
INVARIANT ConvergesOutsideGap
PROPERTY SaveEventuallyReenabled
\* After the visit ends and the writes are spent the page idles: a
\* terminal state is the real system at rest, not a deadlock.
CHECK_DEADLOCK FALSE
