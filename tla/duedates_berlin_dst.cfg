\* Berlin across the spring DST change: local midnights 23 hours apart.
CONSTANTS
    EpochYear = 2024
    Years <- MC_Years
    Periods <- MC_Periods
    StdOffset = 1
    DstOffset = 2
    DstPeriods <- MC_BerlinDst
    NowFirst <- MC_SpringNowFirst
    NowLast <- MC_SpringNowLast
    InitialDays <- MC_SpringDays
    MaxPaid = 1
    ViewYears <- MC_ViewYears
SPECIFICATION Spec
INVARIANT DaysUntilIsCalendarDiff
\* The clock stops at NowLast and the marks at MaxPaid: a run ends there.
CHECK_DEADLOCK FALSE
