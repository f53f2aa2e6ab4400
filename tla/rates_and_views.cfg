\* Two overlapping loadRates calls with every payload kind, under the
\* route's Monthly Total and its memoised table and card lists while the
\* store replaces $payments, the user sorts, filters and switches tabs, and
\* a day passes.
CONSTANTS
    ValueKinds <- MC_ClassKinds
    NoCall = NoCall
    Calls <- MC_Calls
    PaymentLists <- MC_PaymentLists
    Systems <- MC_Systems
    ProviderNames <- MC_ProviderNames
    Filters <- MC_Filters
    LowerCase <- MC_LowerCase
    CbrRates <- MC_CbrRates
    FirstDay = 0
    LastDay = 1
    NoMemo = NoMemo
    EpochYear = 2024
    CalMonths <- MC_CalMonths
SPECIFICATION ViewSpec
INVARIANT ViewTypeOK
INVARIANT FallbackOnlyAfterRetryOrBadPayload
INVARIANT TotalIsMonthlyBase
INVARIANT ListsShowSortedPayments
INVARIANT CalendarShowsPayments
\* Every call finishing, the last day and the user's idleness end a run;
\* none is a deadlock.
CHECK_DEADLOCK FALSE
