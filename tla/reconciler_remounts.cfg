\* Two visits of the payments page (navigate away and back, or a locale
\* change re-running the effect) with one write: two subscriptions may be
\* live at once and refresh lists may land late, yet no id is duplicated
\* and the loading flag clears, even when the SSE stream drops events.
CONSTANTS
    Ids <- MC_TwoIds
    RecVals <- MC_RecVals
    Currency <- MC_Currency
    Absent = Absent
    NoValue = NoValue
    Visits = {1, 2}
    MaxWrites = 1
    StreamMayDrop = TRUE
SPECIFICATION Spec
INVARIANT TypeOK
INVARIANT NoDuplicateIds
PROPERTY LoadingEventuallyClears
\* Once visits and writes are spent the page idles.
CHECK_DEADLOCK FALSE
