------------------------------ MODULE DueDates ------------------------------
(***************************************************************************)
(* The date arithmetic of the payments feature under JavaScript Date      *)
(* semantics in the browser's time zone:                                   *)
(*   daysUntilPayment     lib/payments/currency.ts                         *)
(*   getDaysUntil         PaymentsCalendar.tsx (the calendar cells)        *)
(*   markPaymentPaid      the date step that advances nextPayment          *)
(*   getPaymentStatus     the urgency band of the table and calendar cells *)
(*                                                                         *)
(* Time is counted in whole hours since EpochYear-01-01T00:00Z; a date is *)
(* a day number since EpochYear-01-01.  A stored nextPayment is the        *)
(* string "YYYY-MM-DD", which `new Date` parses as UTC midnight and        *)
(* toISOString().split("T")[0] prints as the UTC date.  The Date setters   *)
(* and `new Date(y, m, d)` work in local time: they follow ECMAScript's    *)
(* MakeDay, which normalises an overflowing month or day, and its UTC(t), *)
(* which maps a skipped local time with the offset before the transition *)
(* and a repeated one to its earlier instant.                              *)
(*                                                                         *)
(* The zone has a standard and a daylight offset, in whole hours, and the *)
(* daylight periods as intervals of UTC instants (northern hemisphere).   *)
(***************************************************************************)
EXTENDS Integers

CONSTANTS
    EpochYear,    \* the first year of the calendar
    Years,        \* the years dates may fall in
    StdOffset,    \* the zone's standard offset from UTC, in hours
    DstOffset,    \* its daylight-saving offset (= StdOffset: no DST)
    DstPeriods,   \* daylight periods, as <<first, last + 1>> UTC hours
    Periods,      \* the payment periods of the store's records
    NowFirst,     \* the clock at the start, in UTC hours
    NowLast,      \* the last instant the clock reaches
    InitialDays,  \* nextPayment dates of the records at the start
    MaxPaid,      \* how many times a payment is marked paid
    ViewYears     \* the years the calendar is navigated through

VARIABLES
    now,          \* the instant `new Date()` returns
    nextPayment,  \* the payment's nextPayment, as a day number
    period,       \* the payment's period
    paid,         \* how often it was marked paid (bounded by MaxPaid)
    currentMonth, \* PaymentsCalendar's month state (0-based)
    currentYear   \* and its year state

viewVars == <<currentMonth, currentYear>>
vars == <<now, nextPayment, period, paid, viewVars>>

-----------------------------------------------------------------------------
(* The proleptic Gregorian calendar *)

IsLeap(y) == (y % 4 = 0 /\ y % 100 # 0) \/ y % 400 = 0

MonthLen(y, m) ==
    CASE m = 1               -> IF IsLeap(y) THEN 29 ELSE 28
      [] m \in {3, 5, 8, 10} -> 30
      [] OTHER               -> 31

RECURSIVE DaysBeforeYear(_)
DaysBeforeYear(y) ==
    IF y = EpochYear THEN 0
    ELSE DaysBeforeYear(y - 1) + (IF IsLeap(y - 1) THEN 366 ELSE 365)

RECURSIVE DaysBeforeMonth(_, _)
DaysBeforeMonth(y, m) ==
    IF m = 0 THEN 0 ELSE DaysBeforeMonth(y, m - 1) + MonthLen(y, m - 1)

(* ECMAScript MakeDay: month m (0-based) may exceed 11 and date d may     *)
(* exceed the month's length; both carry over.                            *)
MakeDay(y, m, d) ==
    LET yy == y + m \div 12
        mm == m % 12
    IN  DaysBeforeYear(yy) + DaysBeforeMonth(yy, mm) + d - 1

YearOf(n) ==
    CHOOSE y \in Years : DaysBeforeYear(y) <= n /\ n < DaysBeforeYear(y + 1)

MonthOf(n) ==
    LET y == YearOf(n)
        k == n - DaysBeforeYear(y)
    IN  CHOOSE m \in 0..11 : DaysBeforeMonth(y, m) <= k /\ k < DaysBeforeMonth(y, m + 1)

DateOf(n) ==
    n - DaysBeforeYear(YearOf(n)) - DaysBeforeMonth(YearOf(n), MonthOf(n)) + 1

(* getDay() of day number n, 0 = Sunday: January 1 of year y is found by *)
(* Gauss's rule, and the days after it follow on.                          *)
Jan1DayOfWeek(y) ==
    (1 + 5 * ((y - 1) % 4) + 4 * ((y - 1) % 100) + 6 * ((y - 1) % 400)) % 7

DayOfWeek(n) == (Jan1DayOfWeek(EpochYear) + n) % 7

-----------------------------------------------------------------------------
(* JavaScript Date in the zone *)

Offset(t) ==
    IF \E p \in DstPeriods : p[1] <= t /\ t < p[2] THEN DstOffset ELSE StdOffset

LocalTime(t) == t + Offset(t)

LocalDay(t) == LocalTime(t) \div 24

(* ECMAScript UTC(t): a local time that occurs twice is its earlier       *)
(* instant; one skipped by a DST change uses the offset before it.        *)
UTC(l) ==
    LET c == {s \in {l - StdOffset, l - DstOffset} : LocalTime(s) = l}
    IN  IF c = {} THEN l - StdOffset
        ELSE CHOOSE s \in c : \A x \in c : s <= x

(* new Date(y, m, d): local midnight of day number n. *)
LocalMidnight(n) == UTC(n * 24)

(* new Date("YYYY-MM-DD"): a date-only ISO string is UTC midnight. *)
ParseDate(n) == n * 24

(* toISOString().split("T")[0]: the UTC date. *)
ISODate(t) == t \div 24

-----------------------------------------------------------------------------
(* PaymentsCalendar's month grid *)

(* A grid cell: its local day, whether it is in the shown month, and the *)
(* date string paymentsByDate is looked up with.                          *)
Cell(n, m, key) == [day |-> n, isCurrentMonth |-> MonthOf(n) = m, key |-> key]

(* The first Monday on or before the 1st, with Sunday (0) counted as 7.  *)
GridStart(y, m) ==
    LET firstDay == MakeDay(y, m, 1)
        dayOfWeek == DayOfWeek(firstDay)
        adjusted == IF dayOfWeek = 0 THEN 7 ELSE dayOfWeek
    IN  firstDay - (adjusted - 1)

(* The Sunday rule left out: a month that starts on a Sunday starts the   *)
(* grid on the Monday after it.                                            *)
CalendarDaysNoSundayFix(y, m) ==
    LET firstDay == MakeDay(y, m, 1)
        start == firstDay - (DayOfWeek(firstDay) - 1)
    IN  [i \in 1..42 |-> Cell(start + i - 1, m, start + i - 1)]

(* calendarDays: 42 days from GridStart, stepping the local date by one  *)
(* with setDate; each is keyed by its own local YYYY-MM-DD.               *)
CalendarDays(y, m) ==
    LET start == GridStart(y, m)
    IN  [i \in 1..42 |-> Cell(start + i - 1, m, start + i - 1)]

-----------------------------------------------------------------------------
(* The operations *)

(* today's date read with the UTC getters instead of the local ones. *)
DaysUntilUtcToday(n, t) ==
    (LocalMidnight(LocalDay(ParseDate(n))) - LocalMidnight(t \div 24)) \div 24

(* daysUntilPayment: the local calendar day of the parsed date and of    *)
(* now, both taken to local midnight, and Math.floor of the difference   *)
(* in days.  (A stored date always parses, so the NaN branch is unused.) *)
DaysUntilPayment(n, t) ==
    LET start   == LocalMidnight(LocalDay(t))
        dueNorm == LocalMidnight(LocalDay(ParseDate(n)))
    IN  (dueNorm - start) \div 24

(* PaymentsCalendar getDaysUntil for the cell that lists the payment: the *)
(* grid keys cells by their local "YYYY-MM-DD", so the payment of date n *)
(* sits in the cell of local day n, a local midnight.                      *)
CalendarDaysUntil(n, t) ==
    (LocalMidnight(n) - LocalMidnight(LocalDay(t))) \div 24

(* A status ladder with the warn band closed below 5 days. *)
GetPaymentStatusWarnBelowFive(days) ==
    IF days <= 1 THEN "crit" ELSE IF days < 5 THEN "warn" ELSE "ok"

(* getPaymentStatus: days <= 1 is crit, days <= 5 is warn, else ok. *)
GetPaymentStatus(days) ==
    IF days <= 1 THEN "crit" ELSE IF days <= 5 THEN "warn" ELSE "ok"

(* The calendar cell's worstStatus: every payment of the cell is rated    *)
(* by the cell's own getDaysUntil, so a cell with a payment has its band. *)
CellStatus(n, t) == GetPaymentStatus(CalendarDaysUntil(n, t))

(* The month-based periods, in months, for setMonth. *)
MonthsOf(p) ==
    CASE p = "monthly" -> 1 [] p = "quarterly" -> 3 [] p = "semiannual" -> 6

(* A plausible variant of the setter switch: a quarterly step written   *)
(* with setFullYear.                                                       *)
SetterStepQuarterInYears(y, m, dd, p) ==
    CASE p = "daily"     -> MakeDay(y, m, dd + 1)
      [] p = "weekly"    -> MakeDay(y, m, dd + 7)
      [] p = "quarterly" -> MakeDay(y + 3, m, dd)
      [] p \in {"monthly", "semiannual"} -> MakeDay(y, m + MonthsOf(p), dd)
      [] p = "annual"    -> MakeDay(y + 1, m, dd)

(* The switch of markPaymentPaid on local date y-m-dd: setDate(+1),       *)
(* setDate(+7), setMonth(+1, +3, +6) or setFullYear(+1); no case for any  *)
(* other period.                                                           *)
SetterStep(y, m, dd, p) ==
    CASE p = "daily"  -> MakeDay(y, m, dd + 1)
      [] p = "weekly" -> MakeDay(y, m, dd + 7)
      [] p \in {"monthly", "quarterly", "semiannual"} -> MakeDay(y, m + MonthsOf(p), dd)
      [] p = "annual" -> MakeDay(y + 1, m, dd)

(* markPaymentPaid's date step: parse nextPayment, move its local date,  *)
(* keeping the local time of day, and print the UTC date.                 *)
AdvanceDate(n, p) ==
    LET t == ParseDate(n)
        d == LocalDay(t)
    IN  ISODate(UTC(SetterStep(YearOf(d), MonthOf(d), DateOf(d), p) * 24
                    + (LocalTime(t) % 24)))

(* The dates the records of a run may hold: the first three years. *)
Days == DaysBeforeYear(EpochYear)..(DaysBeforeYear(EpochYear + 3) - 1)

TypeOK ==
    /\ now \in NowFirst..NowLast
    /\ nextPayment \in Days
    /\ period \in Periods
    /\ paid \in 0..MaxPaid
    /\ currentMonth \in 0..11
    /\ currentYear \in ViewYears

(* useState(today.getMonth()), useState(today.getFullYear()) at mount. *)
CalendarInit ==
    /\ currentMonth = MonthOf(LocalDay(NowFirst))
    /\ currentYear = YearOf(LocalDay(NowFirst))

Init ==
    /\ now = NowFirst
    /\ nextPayment \in InitialDays
    /\ period \in Periods
    /\ paid = 0
    /\ CalendarInit

(* The clock moves on by an hour; every view recomputes from it. *)
Tick ==
    /\ now < NowLast
    /\ now' = now + 1
    /\ UNCHANGED <<nextPayment, period, paid, viewVars>>

(* markPaymentPaid of the local store: find the payment, advance its     *)
(* date and write it back with updatePayment.                              *)
MarkPaid ==
    /\ paid < MaxPaid
    /\ nextPayment' = AdvanceDate(nextPayment, period)
    /\ paid' = paid + 1
    /\ UNCHANGED <<now, period, viewVars>>

(* The calendar's header buttons.  A year outside ViewYears is not shown. *)
GoToPrevMonth ==
    /\ IF currentMonth = 0
         THEN /\ currentMonth' = 11
              /\ currentYear' = currentYear - 1
         ELSE /\ currentMonth' = currentMonth - 1
              /\ UNCHANGED currentYear
    /\ currentYear' \in ViewYears
    /\ UNCHANGED <<now, nextPayment, period, paid>>

GoToNextMonth ==
    /\ IF currentMonth = 11
         THEN /\ currentMonth' = 0
              /\ currentYear' = currentYear + 1
         ELSE /\ currentMonth' = currentMonth + 1
              /\ UNCHANGED currentYear
    /\ currentYear' \in ViewYears
    /\ UNCHANGED <<now, nextPayment, period, paid>>

(* `today` is new Date() of the render; the clock is read as now. *)
GoToToday ==
    /\ currentMonth' = MonthOf(LocalDay(now))
    /\ currentYear' = YearOf(LocalDay(now))
    /\ UNCHANGED <<now, nextPayment, period, paid>>

Next == Tick \/ MarkPaid \/ GoToPrevMonth \/ GoToNextMonth \/ GoToToday

Spec == Init /\ [][Next]_vars

-----------------------------------------------------------------------------
(* Properties *)

(* Spec 4.4: daysUntilPayment is the difference between the calendar    *)
(* date of nextPayment and today's local date.                            *)
DaysUntilIsCalendarDiff ==
    DaysUntilPayment(nextPayment, now) = nextPayment - LocalDay(now)

(* calendarDays shows the month in whole Monday-first weeks: the cells   *)
(* marked isCurrentMonth are exactly the days of the shown month, and the *)
(* first cell is a Monday, for months that start on a Sunday and end on   *)
(* the 31st (six weeks) included.                                          *)
CalendarGridCoversMonth ==
    LET cells == CalendarDays(currentYear, currentMonth)
    IN  /\ DayOfWeek(cells[1].day) = 1
        /\ {cells[i].day : i \in {k \in 1..42 : cells[k].isCurrentMonth}}
             = MakeDay(currentYear, currentMonth, 1)..MakeDay(currentYear, currentMonth + 1, 0)

(* Spec 4.4's classify: days <= 1 is crit, days <= 5 is warn, otherwise  *)
(* ok, each boundary inclusive in the stricter band.                      *)
Classify(days) ==
    CASE days <= 1 -> "crit" [] days \in 2..5 -> "warn" [] OTHER -> "ok"

(* The table row's status (getPaymentStatus of daysUntilPayment) and the *)
(* colour of the calendar cell listing the payment (worstStatus from      *)
(* getDaysUntil) are both spec 4.4's classify of the calendar days left,  *)
(* at the inclusive boundaries 1 and 5 too.                                *)
StatusBandIsSpecClassify ==
    LET band == Classify(nextPayment - LocalDay(now))
    IN  /\ GetPaymentStatus(DaysUntilPayment(nextPayment, now)) = band
        /\ CellStatus(nextPayment, now) = band

=============================================================================
