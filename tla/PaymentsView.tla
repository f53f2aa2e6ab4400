----------------------------- MODULE PaymentsView -----------------------------
(***************************************************************************)
(* The derived views of the payments route over $payments and $rates:     *)
(*                                                                         *)
(*   PaymentsStats        useMemo over [payments, rates]: the Monthly      *)
(*                        Total (hidden as "..." while $ratesLoading), the *)
(*                        count and the Due Soon count                      *)
(*   PaymentsTable        useState sortBy/sortOrder/serverFilter/           *)
(*                        providerFilter, handleSort, and the memoised     *)
(*                        filteredAndSortedPayments                        *)
(*   PaymentsMobileCards  the memoised sortedPayments, sortBy "date"        *)
(*   PaymentsCalendar     useState currentMonth/currentYear, the header     *)
(*                        buttons, the memoised paymentsByDate and          *)
(*                        calendarDays, and the cells' chips                *)
(*                                                                         *)
(* composed with RateService, whose loadRates calls replace $rates while  *)
(* the views show it.  $payments is set by the store (paymentManager's     *)
(* refresh and realtime events) to one of a few lists.  The table and the *)
(* cards live in the route's "payments" tab and the calendar in its       *)
(* "calendar" tab; each loses its state when its tab unmounts.  The stats *)
(* are above the tabs.  The calendar's grid is DueDates' CalendarDays.    *)
(*                                                                         *)
(* A useMemo keeps the value computed at the last render whose deps        *)
(* differed from the render before.  Every change of a dep is a store or  *)
(* state change that re-renders the component in the same step, so each  *)
(* step ends with the render of every mounted view (Render).  The clock   *)
(* is no dep: a new day re-renders nothing.                                *)
(*                                                                         *)
(* Dates are day numbers and the browser's zone has no DST, where          *)
(* daysUntilPayment is the difference of the day numbers (DueDates).      *)
(* Names and filters are strings over a small alphabet.                    *)
(***************************************************************************)
EXTENDS RateService, Normalizer, Sequences

LOCAL SE == INSTANCE SequencesExt

CONSTANTS
    PaymentLists,  \* the lists the store may set $payments to
    Systems,       \* $systems: server id -> name
    ProviderNames, \* $providers: provider id -> name
    Filters,       \* the strings a user types into a filter input
    LowerCase,     \* toLowerCase on one letter
    CbrRates,      \* the marked-up live rates, as rationals
    FirstDay,      \* the day the page is opened
    LastDay,       \* the last day the page stays open
    NoMemo,
    EpochYear,     \* the year of day number 0 (its January 1)
    CalMonths      \* the <<year, month>> pairs the calendar is shown at

VARIABLES
    payments,       \* $payments
    today,          \* the local date new Date() returns, as a day number
    tab,            \* the route's Tabs value
    sortBy, sortOrder, serverFilter, providerFilter,  \* PaymentsTable state
    statsMemo, tableMemo, cardsMemo, \* each useMemo's deps and value
    calMonth,       \* PaymentsCalendar's [year, month] state, NoMemo unmounted
    byDateMemo, daysMemo  \* its paymentsByDate and calendarDays memos

viewVars == <<payments, today, tab, sortBy, sortOrder, serverFilter,
              providerFilter, statsMemo, tableMemo, cardsMemo,
              calMonth, byDateMemo, daysMemo>>
allVars == <<vars, viewVars>>

(* The calendar arithmetic of DueDates, in a zone without DST where a     *)
(* day number is its own local date; DueDates' state is not used.         *)
Cal == INSTANCE DueDates
         WITH Years <- EpochYear..(EpochYear + 1), StdOffset <- 0,
              DstOffset <- 0, DstPeriods <- {}, Periods <- {},
              NowFirst <- 0, NowLast <- 0, InitialDays <- {}, MaxPaid <- 0,
              ViewYears <- {}, now <- today * 24, nextPayment <- 0,
              period <- "monthly", paid <- 0, currentMonth <- 0,
              currentYear <- EpochYear

-----------------------------------------------------------------------------
(* $rates as numbers: FALLBACK_RATES is 95 * 1.05 and 105 * 1.05; a live  *)
(* rate of class "pos" is CbrRates, one of class "zero" is 0.  A "nan"    *)
(* rate is never published (the isFinite check).                           *)
RateNum(r) ==
    IF r.source = "fallback"
      THEN [USD |-> Rat(399, 4), EUR |-> Rat(441, 4)]
      ELSE [c \in {"USD", "EUR"} |->
              CASE r[c] = "pos"  -> CbrRates[c]
                [] r[c] = "zero" -> RatZero]

Sign(n) == IF n > 0 THEN 1 ELSE IF n < 0 THEN -1 ELSE 0

Lower(s) == [i \in DOMAIN s |-> LowerCase[s[i]]]

(* String.prototype.includes *)
Includes(s, f) == \E i \in 0..(Len(s) - Len(f)) : SubSeq(s, i + 1, i + Len(f)) = f

(* getServerName and the provider name of the filter: the name, or the  *)
(* id when the record is missing or its name is empty.                    *)
ServerName(p) ==
    IF p.server \in DOMAIN Systems /\ Systems[p.server] # << >>
      THEN Systems[p.server] ELSE p.server
ProviderName(p) ==
    IF p.provider \in DOMAIN ProviderNames /\ ProviderNames[p.provider] # << >>
      THEN ProviderNames[p.provider] ELSE p.provider

(* Array.prototype.sort: stable (ES2019) for a consistent comparator,     *)
(* given as cmp[j, k], the comparator on elements j and k of s.  Element  *)
(* k goes after every element that compares less and every earlier one    *)
(* that compares equal.                                                    *)
StableSort(s, cmp) ==
    LET Rank(k) == Cardinality({j \in DOMAIN s :
                      cmp[j, k] < 0 \/ (cmp[j, k] = 0 /\ j < k)}) + 1
    IN  [i \in 1..Len(s) |-> s[CHOOSE k \in DOMAIN s : Rank(k) = i]]

DaysUntil(due, t) == due - t

(* PaymentsStats' memo: a sum of monthlyRub, the count, and the payments *)
(* due within five days, overdue ones included.                           *)
StatsOf(ps, r, t) ==
    [total |-> SE!FoldLeft(LAMBDA acc, p :
                  RatAdd(acc, MonthlyRub(p.amount, p.currency, p.period, RateNum(r))),
                  RatZero, ps),
     count |-> Len(ps),
     soon  |-> Cardinality({k \in DOMAIN ps : DaysUntil(ps[k].due, t) <= 5})]

StatsDeps(ps, r) == <<ps, r>>

(* The table's comparator: cmp by the column, negated when descending.    *)
TableCmp(a, b, by, order, r, t) ==
    LET cmp == CASE by = "amount" ->
                      RatCmp(MonthlyRub(a.amount, a.currency, a.period, RateNum(r)),
                             MonthlyRub(b.amount, b.currency, b.period, RateNum(r)))
                 [] by = "date" -> Sign(a.due - b.due)
                 [] by = "days" -> Sign(DaysUntil(a.due, t) - DaysUntil(b.due, t))
    IN  IF order = "asc" THEN cmp ELSE -cmp

(* filteredAndSortedPayments: an empty filter is falsy and skipped; a     *)
(* filter keeps the rows whose lower-cased name includes it lower-cased.  *)
FilteredAndSorted(ps, sf, pf, by, order, r, t) ==
    LET ServerKeeps(p)   == Includes(Lower(ServerName(p)), Lower(sf))
        ProviderKeeps(p) == Includes(Lower(ProviderName(p)), Lower(pf))
        a1 == IF sf = << >> THEN ps ELSE SelectSeq(ps, ServerKeeps)
        a2 == IF pf = << >> THEN a1 ELSE SelectSeq(a1, ProviderKeeps)
    IN  StableSort(a2, [j, k \in DOMAIN a2 |-> TableCmp(a2[j], a2[k], by, order, r, t)])

(* Mutant of TableDeps: rates left out of the dependency list.           *)
TableDepsNoRates(ps, by, order, sf, pf, r) == <<ps, by, order, sf, pf>>

TableDeps(ps, by, order, sf, pf, r) == <<ps, by, order, sf, pf, r>>

(* PaymentsMobileCards' memo: sortBy is the route's constant "date".     *)
CardsSorted(ps, r) == StableSort(ps, [j, k \in DOMAIN ps |-> Sign(ps[j].due - ps[k].due)])

UseMemo(m, deps, value) ==
    IF m # NoMemo /\ m.deps = deps THEN m ELSE [deps |-> deps, value |-> value]

(* paymentsByDate: each nextPayment string to the payments of that date,  *)
(* in the order of $payments (Map set on first sight, then push).         *)
PaymentsByDate(ps) ==
    [d \in {ps[k].due : k \in DOMAIN ps} |-> SelectSeq(ps, LAMBDA p : p.due = d)]

(* paymentsByDate.get(dateStr) || [] *)
Lookup(map, key) == IF key \in DOMAIN map THEN map[key] ELSE << >>

(* calendarDays: the 42 cells of DueDates' grid, each with the payments   *)
(* listed under its date key.                                              *)
CalendarGrid(y, m, byDate) ==
    LET cells == Cal!CalendarDays(y, m)
    IN  [i \in 1..42 |-> [day |-> cells[i].day,
                          isCurrentMonth |-> cells[i].isCurrentMonth,
                          payments |-> Lookup(byDate, cells[i].key)]]

(* Mutant of CalendarDaysDeps: paymentsByDate left out of the deps.       *)
CalendarDaysDepsNoByDate(y, m, byDate) == <<y, m>>

CalendarDaysDeps(y, m, byDate) == <<y, m, byDate>>

(* A cell as rendered: the chips of its first three payments and the     *)
(* "+N more" count of the rest (0: none shown).  Each chip's status is    *)
(* getPaymentStatus of the cell's days; the worstStatus loop computes a   *)
(* value nothing reads.                                                    *)
CellView(cell) ==
    LET n == Len(cell.payments)
    IN  [chips |-> SubSeq(cell.payments, 1, IF n < 3 THEN n ELSE 3),
         more  |-> IF n > 3 THEN n - 3 ELSE 0]

-----------------------------------------------------------------------------
(* The state of the views *)

Tabs == {"payments", "calendar", "providers"}

ViewTypeOK ==
    /\ TypeOK
    /\ payments \in PaymentLists
    /\ today \in FirstDay..LastDay
    /\ tab \in Tabs
    /\ sortBy \in {"amount", "date", "days"}
    /\ sortOrder \in {"asc", "desc"}
    /\ serverFilter \in Filters /\ providerFilter \in Filters
    /\ statsMemo # NoMemo
    /\ (tab = "payments") = (tableMemo # NoMemo)
    /\ (tab = "payments") = (cardsMemo # NoMemo)
    /\ (tab = "calendar") = (calMonth # NoMemo)
    /\ calMonth # NoMemo => <<calMonth.year, calMonth.month>> \in CalMonths
    /\ (tab = "calendar") = (byDateMemo # NoMemo)
    /\ (tab = "calendar") = (daysMemo # NoMemo)

(* Every mounted view renders: each memo recomputes when its deps differ  *)
(* from the last render's; an unmounted table, cards view or calendar   *)
(* has no memo.                                                            *)
Render ==
    /\ statsMemo' = UseMemo(statsMemo, StatsDeps(payments', rates'),
                            StatsOf(payments', rates', today'))
    /\ tableMemo' =
         IF tab' # "payments" THEN NoMemo
         ELSE UseMemo(tableMemo,
                      TableDeps(payments', sortBy', sortOrder', serverFilter',
                                providerFilter', rates'),
                      FilteredAndSorted(payments', serverFilter', providerFilter',
                                        sortBy', sortOrder', rates', today'))
    /\ cardsMemo' =
         IF tab' # "payments" THEN NoMemo
         ELSE UseMemo(cardsMemo, <<payments', "date", rates'>>,
                      CardsSorted(payments', rates'))
    /\ byDateMemo' =
         IF tab' # "calendar" THEN NoMemo
         ELSE UseMemo(byDateMemo, <<payments'>>, PaymentsByDate(payments'))
    /\ daysMemo' =
         IF tab' # "calendar" THEN NoMemo
         ELSE UseMemo(daysMemo,
                      CalendarDaysDeps(calMonth'.year, calMonth'.month, byDateMemo'.value),
                      CalendarGrid(calMonth'.year, calMonth'.month, byDateMemo'.value))

(* PaymentsTable's useState initial values, as the state of a table     *)
(* mounted in the step that sets the primed variables.                     *)
TableMounts ==
    /\ sortBy' = "date" /\ sortOrder' = "asc"
    /\ serverFilter' = << >> /\ providerFilter' = << >>

ViewInit ==
    /\ Init
    /\ payments \in PaymentLists
    /\ today = FirstDay
    /\ tab = "payments"
    /\ sortBy = "date" /\ sortOrder = "asc"
    /\ serverFilter = << >> /\ providerFilter = << >>
    /\ statsMemo = [deps |-> StatsDeps(payments, rates),
                    value |-> StatsOf(payments, rates, today)]
    /\ tableMemo = [deps |-> TableDeps(payments, sortBy, sortOrder, serverFilter,
                                       providerFilter, rates),
                    value |-> FilteredAndSorted(payments, serverFilter, providerFilter,
                                                sortBy, sortOrder, rates, today)]
    /\ cardsMemo = [deps |-> <<payments, "date", rates>>,
                    value |-> CardsSorted(payments, rates)]
    /\ calMonth = NoMemo /\ byDateMemo = NoMemo /\ daysMemo = NoMemo

tableState == <<sortBy, sortOrder, serverFilter, providerFilter>>
uiState == <<tab, tableState, calMonth>>

(* A step of a loadRates call; the views render the new $rates.           *)
RateStep ==
    /\ Next
    /\ UNCHANGED <<payments, today, uiState>>
    /\ Render

(* paymentManager sets $payments (a refresh, a realtime event, a paid     *)
(* date advanced).                                                          *)
SetPayments(ps) ==
    /\ payments' = ps
    /\ UNCHANGED <<vars, today, uiState>>
    /\ Render

(* handleSort: the same column flips the order, another column sorts      *)
(* ascending by it.                                                        *)
HandleSort(key) ==
    /\ tab = "payments"
    /\ IF sortBy = key
         THEN /\ sortOrder' = IF sortOrder = "asc" THEN "desc" ELSE "asc"
              /\ UNCHANGED sortBy
         ELSE /\ sortBy' = key
              /\ sortOrder' = "asc"
    /\ UNCHANGED <<vars, payments, today, tab, serverFilter, providerFilter, calMonth>>
    /\ Render

(* The filter inputs' onChange. *)
SetServerFilter(f) ==
    /\ tab = "payments"
    /\ serverFilter' = f
    /\ UNCHANGED <<vars, payments, today, tab, sortBy, sortOrder, providerFilter, calMonth>>
    /\ Render

SetProviderFilter(f) ==
    /\ tab = "payments"
    /\ providerFilter' = f
    /\ UNCHANGED <<vars, payments, today, tab, sortBy, sortOrder, serverFilter, calMonth>>
    /\ Render

(* The Tabs trigger: the old tab's content unmounts and drops its state; *)
(* the new one mounts: the table with PaymentsTable's initial state, the  *)
(* calendar at the month of new Date() (useState(today.getMonth()) ...).  *)
(* An unmounted table is kept at the initial state, which is the state it *)
(* mounts with.                                                            *)
SwitchTab(t) ==
    /\ t # tab
    /\ tab' = t
    /\ TableMounts
    /\ calMonth' = IF t = "calendar"
                     THEN [year |-> Cal!YearOf(today), month |-> Cal!MonthOf(today)]
                     ELSE NoMemo
    /\ UNCHANGED <<vars, payments, today>>
    /\ Render

(* The calendar's header buttons (Prev, Next, Today, the last with the    *)
(* render's new Date()).  A month outside CalMonths is not shown.         *)
ShowMonth(y, m) ==
    /\ tab = "calendar"
    /\ <<y, m>> \in CalMonths
    /\ calMonth' = [year |-> y, month |-> m]
    /\ UNCHANGED <<vars, payments, today, tab, tableState>>
    /\ Render

GoToPrevMonth ==
    /\ tab = "calendar"
    /\ IF calMonth.month = 0 THEN ShowMonth(calMonth.year - 1, 11)
       ELSE ShowMonth(calMonth.year, calMonth.month - 1)

GoToNextMonth ==
    /\ tab = "calendar"
    /\ IF calMonth.month = 11 THEN ShowMonth(calMonth.year + 1, 0)
       ELSE ShowMonth(calMonth.year, calMonth.month + 1)

GoToToday == ShowMonth(Cal!YearOf(today), Cal!MonthOf(today))

(* Midnight passes while the page stays open: nothing re-renders.         *)
Tick ==
    /\ today < LastDay
    /\ today' = today + 1
    /\ UNCHANGED <<vars, payments, uiState, statsMemo, tableMemo, cardsMemo,
                   byDateMemo, daysMemo>>

ViewNext ==
    \/ RateStep
    \/ \E ps \in PaymentLists : SetPayments(ps)
    \/ \E key \in {"amount", "date", "days"} : HandleSort(key)
    \/ \E f \in Filters : SetServerFilter(f) \/ SetProviderFilter(f)
    \/ \E t \in Tabs : SwitchTab(t)
    \/ GoToPrevMonth \/ GoToNextMonth \/ GoToToday
    \/ Tick

(* RateService's timers fire (its Fairness, whose steps are RateSteps    *)
(* here); the views' steps are the user's and the store's and may never   *)
(* happen.                                                                 *)
ViewSpec == ViewInit /\ [][ViewNext]_allVars /\ Fairness

-----------------------------------------------------------------------------
(* Properties *)

(* The Monthly Total on screen: "..." while $ratesLoading. *)
ShownTotal == IF ratesLoading THEN "..." ELSE statsMemo.value.total

(* Spec 4.3 applied to the page: the payments of $payments, each as its    *)
(* monthlyBase at the current $rates, summed in any order.                 *)
TotalRef ==
    SE!FoldFunction(LAMBDA x, acc : RatAdd(x, acc), RatZero,
        [k \in DOMAIN payments |->
            MonthlyBase(payments[k].amount, payments[k].currency,
                        payments[k].period, RateNum(rates))])

(* PaymentsStats: whenever the Monthly Total is shown, it is the sum of   *)
(* spec 4.3's monthly base amounts of the listed payments at the rates    *)
(* the last finished loadRates call published, whichever call that was    *)
(* and whenever $payments changed.                                          *)
TotalIsMonthlyBase == ~ratesLoading => ShownTotal = TotalRef

(* rows lists the entries of ps that Keep accepts, each once, ascending   *)
(* (or descending) by Key, entries with equal keys in the order of ps.    *)
IsListing(rows, ps, Keep(_), Key(_), order) ==
    LET kept == {k \in DOMAIN ps : Keep(ps[k])}
        Pos(p) == CHOOSE k \in DOMAIN ps : ps[k] = p
        Before(i, j) ==
            LET c == RatCmp(Key(ps[i]), Key(ps[j]))
            IN  (IF order = "asc" THEN c < 0 ELSE c > 0) \/ (c = 0 /\ i < j)
    IN  /\ Len(rows) = Cardinality(kept)
        /\ \A i \in DOMAIN rows : rows[i] \in {ps[k] : k \in kept}
        /\ \A i, j \in DOMAIN rows : i < j => Before(Pos(rows[i]), Pos(rows[j]))

(* A row's name contains the typed text, ignoring case. *)
Matches(name, f) == f = << >> \/ Includes(Lower(name), Lower(f))

SortKeyRef(p, by) ==
    CASE by = "amount" -> MonthlyBase(p.amount, p.currency, p.period, RateNum(rates))
      [] by = "date"   -> Rat(p.due, 1)
      [] by = "days"   -> Rat(p.due - today, 1)

(* PaymentsTable and PaymentsMobileCards: while the payments tab is shown, *)
(* the table lists exactly the payments its two filters match, sorted by  *)
(* the chosen column in the chosen direction at the current $rates and    *)
(* date, and the cards list every payment by due date, although $payments *)
(* and $rates change under the memoised lists and days pass.              *)
ListsShowSortedPayments ==
    tab = "payments" =>
        /\ IsListing(tableMemo.value, payments,
                     LAMBDA p : Matches(ServerName(p), serverFilter)
                                /\ Matches(ProviderName(p), providerFilter),
                     LAMBDA p : SortKeyRef(p, sortBy), sortOrder)
        /\ IsListing(cardsMemo.value, payments, LAMBDA p : TRUE,
                     LAMBDA p : Rat(p.due, 1), "asc")


(* PaymentsCalendar: while the calendar tab is shown, the grid is the     *)
(* shown month's (its isCurrentMonth cells are exactly the month's days), *)
(* every cell lists the current payments due that day in store order, and *)
(* each of them is a chip or counted in the cell's "+N more", although    *)
(* $payments changes under the two chained memos, the month is navigated  *)
(* and the tab is remounted.                                               *)
CalendarShowsPayments ==
    tab = "calendar" =>
        LET cells == daysMemo.value
            y == calMonth.year
            m == calMonth.month
        IN  /\ {cells[i].day : i \in {k \in 1..42 : cells[k].isCurrentMonth}}
                 = Cal!MakeDay(y, m, 1)..Cal!MakeDay(y, m + 1, 0)
            /\ \A i \in 1..42 :
                 LET due == SelectSeq(payments, LAMBDA p : p.due = cells[i].day)
                     v == CellView(cells[i])
                 IN  /\ cells[i].payments = due
                     /\ Len(v.chips) + v.more = Len(due)
                     /\ \A k \in DOMAIN v.chips : v.chips[k] = due[k]

=============================================================================
