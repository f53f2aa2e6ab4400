\* Moscow (UTC+3, no DST), a day across the end of January, every period.
CONSTANTS
    EpochYear = 2024
    Years <- MC_Years
    Periods <- MC_Periods
    StdOffset = 3
    DstOffset = 3
    DstPeriods <- MC_MoscowDst
    NowFirst <- MC_MonthEndNowFirst
    NowLast <- MC_MonthEndNowLast
    InitialDays <- MC_MonthEndDays
    MaxPaid = 2
    ViewYears <- MC_ViewYears
SPECIFICATION Spec
INVARIANT TypeOK
INVARIANT DaysUntilIsCalendarDiff
INVARIANT CalendarGridCoversMonth
INVARIANT StatusBandIsSpecClassify
\* The clock stops at NowLast and the marks at MaxPaid: a run ends there.
CHECK_DEADLOCK FALSE
