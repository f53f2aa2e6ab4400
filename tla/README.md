# TLA+ models of the beszel payments module

This directory holds TLA+ models of the payments feature of this fork of
beszel. The feature tracks recurring hosting bills, which are payments tied to
providers and servers. The models are checked with TLC. Each module is
translated from the TypeScript under `src/`. `PROJECT.json` maps every modelled
definition to the source lines it stands for. It also lists the runs, the
mutants and the findings, plus the hazards the properties are aimed at.

## 1. Inventory of the system

### Components and their state

| Component | Source | State it keeps | Operations |
|---|---|---|---|
| **RecordReconciler**: the synced store | `lib/payments/paymentsStore.ts` | `$providers` and `$payments` (arrays of domain records); `$paymentsLoading`; `$paymentsError`; one `unsub` handle per manager | `providerManager` / `paymentManager`: `toX`, `fetchAll`, `add` (upsert by id through a `Map`), `remove`, `subscribe`, `unsubscribe`, `refresh`; `initPayments`, `cleanupPayments`; `addProvider` / `updateProvider` / `deleteProvider`, `addPayment` / `updatePayment` / `deletePayment`, `markPaymentPaid` |
| **Payments route lifecycle** | `src/unnamed/part_001` lines 181-477 (synced route), `components/routes/payments.tsx` (local route) | mount state, the `importing` flag | on mount: `initPayments()` and `loadRates()`, neither awaited; on unmount or when `t` changes: `cleanupPayments()`; import/export handlers |
| **RateService** | `lib/payments/currency.ts` lines 1-61 | `$rates` (a snapshot that is replaced whole) and `$ratesLoading` | `loadRates`: one fetch with a 6 s abort timer, then on any failure a 2 s backoff and one retry; `Number()` parsing; a 5% markup; a static fallback |
| **MonetaryNormalizer** | `currency.ts` lines 63-100 | none (pure) | `toRub`, `rubToUsd`, `rubToEur`, `getMonthlyFactor`, `monthlyRub`; used by the totals in `PaymentsStats` and the price sort in `PaymentsTable` |
| **UrgencyClassifier** | `currency.ts` lines 102-132, `PaymentsCalendar.tsx` `getDaysUntil` | none (pure, reads the clock) | `daysUntilPayment`, `getPaymentStatus` |
| **markPaymentPaid** | `paymentsStore.ts` lines 264-293, `part_001` lines 118-147 | reads the cached payment and writes the next date | advance the date by the period in local time, then format it in UTC |
| **ImportExportCodec** | `paymentsStore.ts` lines 302-374, `part_001` lines 155-180 | provider id map (in memory) | export as JSON; import providers first, remap payment provider ids, collect per-entry errors |
| **Local store variant** | `part_001` lines 1-180 | the same atoms, persisted in `localStorage` | synchronous CRUD with a local cascade, `persist` after every change, `loadState`, wholesale import |
| **UI views** | `components/payments/*`, `part_002`, `part_003` | sort/filter settings, `loadingId`, form fields | rendering; sort comparators; totals; the form rule of one payment per server |
| **Backend schema** | `internal/migrations/*.go` | none at run time | the collections, access rules, and the cascade delete of payments when their provider is deleted |

### How the components interact

* The route's effect starts `initPayments()`, which is not awaited. This
  refreshes both managers in one `Promise.all` (a `getFullList` each). After
  both lists arrive, it subscribes both managers to the PocketBase realtime
  stream in a second `Promise.all`. The effect's cleanup calls
  `cleanupPayments()`, which calls each manager's stored `unsub`, then empties
  the stores.
* The CRUD calls only talk to the server. **None of them touches the local
  cache.** The cache changes only through `refresh` (a wholesale `set`) and
  through realtime events (`add` / `remove`). Events arrive over one
  server-sent-events (SSE) stream.
* `loadRates` runs beside `initPayments` and publishes `$rates`.
  `monthlyRub` combines `$rates` with each cached payment to give the totals
  and the price ordering. `daysUntilPayment` and `getPaymentStatus` colour and
  count the payments that are due.
* `markPaymentPaid` reads the cached payment, computes the next date and awaits
  `updatePayment`. The cache learns the new date only from the realtime update.

### What makes it hard

The code is single-threaded JavaScript. Every `await` is a point where other
work can interleave: realtime events, the other manager's requests, the route
unmounting and mounting again, other `loadRates` calls, and more clicks.
Requests can fail, time out or hang. The SSE stream can drop and reconnect.
Dates are parsed in UTC and changed in local time.

### Properties that make each component correct

* **RecordReconciler**
  * Once settled, the cache equals the server collection.
  * No id appears twice.
  * A cleared cache is never refilled by a late step.
  * At most one subscription is live.
  * The loading flag clears.
* **RateService**
  * `$ratesLoading` always clears.
  * A published live rate is positive and finite.
  * An older call never overwrites a newer result.
  * On total failure the result is the fallback.
* **MonetaryNormalizer**
  * The periodic factors match the table in spec 4.3.
  * `monthlyRub` is linear in the amount.
  * The inverse helpers undo `toRub`.
* **UrgencyClassifier**
  * The day count equals the difference in calendar days.
  * The band boundaries 1 and 5 fall in the stricter band.
* **markPaymentPaid**
  * The new date is strictly later.
  * A monthly step lands in the next month.
  * Two marks advance the date two periods.
* **ImportExportCodec**
  * No payment is created with an unmapped provider.
  * There is one error per failed entity.
  * The batch is never aborted by one entity.
* **Local store**
  * It refines the same record-store contract as the synced store.
  * The cascade keeps the references between records intact.

The hazards these properties aim at are listed, each at its source line, under
`hazards` in `PROJECT.json`.

## 2. Plan

The plan is ordered by importance, and the reconciler comes first. It is the
only component with real concurrency, and it holds the spec's largest share
(40%).

1. **`RecordReconciler`** (done). One manager, the page
   lifecycle, the server collection, the realtime handlers, and SSE
   reconnects.
2. **`RateService`** (done). `loadRates` as a process with these steps:
   * the first attempt, which can succeed, time out before the headers, return
     a non-2xx status, or have its body stall or fail to parse;
   * the backoff;
   * the retry;
   * the parse of each field as `Number(v)` over the kinds of JSON value;
   * the publish step.

   Two concurrent calls are modelled, and the flag liveness is checked under
   fair timers.
3. **`Normalizer`** (done). The pure operators over rationals. Each
   rational is a numerator/denominator pair. They are checked against the
   spec's table through the Monthly Total of `PaymentsView`.
4. **`DueDates`** (done in this sitting): `daysUntilPayment`, the calendar's
   `getDaysUntil` and the date step of `markPaymentPaid`. Time is counted in
   hours from an epoch, in a zone with a standard offset, a daylight offset
   and its DST periods. The reference is the plain difference in calendar
   days.
5. **`PaymentsPage`** (done in this sitting). It composes the payments
   server and its realtime stream with the page's views: repeated mark-paid
   and delete clicks with each list's `loadingId` slot, the calendar's
   unawaited handlers, the Tabs that unmount the lists, the provider
   cascade, and the synced import loop with failing creates.
6. **Two `RecordReconciler` instances** (providers and payments) sharing one
   page lifecycle. Not done yet: `PaymentsPage` starts from loaded stores,
   and a single reconciler already shows the lifecycle races.
7. **`PaymentsView`** (done). The stats total and the table's and cards'
   memoised lists, composed with `RateService`.
8. **`RecordStore`** (abstract) and **`LocalStore`** (done). The local variant is
   shown to implement the abstract record-store contract: `INSTANCE RecordStore
   WITH` a refinement mapping, with the abstract `Spec` as a `PROPERTY`.

## 3. Modules and runs

### `RecordReconciler.tla` and `MC_RecordReconciler.tla`

One collection manager is modelled, `providerManager`. `paymentManager` is
the same code applied to `PaymentEntry`.

| Model | Code |
|---|---|
| `db`, `used` | the PocketBase collection, and the ids it has ever assigned (ids are never reused) |
| `cache` | `$providers`, as a sequence of domain records (the array order is kept) |
| `loading`, `error` | `$paymentsLoading`, `$paymentsError` |
| `unsub` | the manager's `unsub` handle |
| `pc[i]`, `req[i]`, `snap[i]`, `sub[i]`, `queue[i]` | the `initPayments` call of visit `i`, split at its awaits: its own list request, the list as the server read it, its subscription, and the SSE events still to be delivered to that handler |
| `missed` | a ghost variable: the ids written, in the latest visit, between the server reading the list and registering the subscription |

The actions are these:

* `InitPayments` (the mount effect)
* `RefreshRead` and `RefreshApply` (the `refresh` call, split at its await)
* `RefreshFail` and `SiblingFail` (the `catch` / `finally` blocks, reached
  through this manager's own call or through the other manager's call in the
  same `Promise.all`)
* `StartSubscribe`, `SubscribeRegister`, `SubscribeResolve` (`unsub = await
  ...`), `SubscribeFail` and `InitDone`
* `CleanupPayments` (the unmount effect, together with `unsubscribe`)
* `Deliver` (the realtime callback)
* `StreamReconnect` (an SSE drop, which loses the queued events)
* `CreateRecord`, `UpdateRecord` and `DeleteRecord` (`addProvider`,
  `updateProvider` and `deleteProvider`, or the same writes by another
  client)

The CRUD calls have no effect on the cache, so a write by this client and a
write by another client are the same action.

| Run | Expect | Checks | Shows |
|---|---|---|---|
| `reconciler_remounts` | pass | `TypeOK`, `NoDuplicateIds`, `LoadingEventuallyClears` | This run has two visits, overlapping handlers, late refreshes and dropped events. Even so, the `Map` upsert and the wholesale `set` never list an id twice, and the loading flag always clears while mounted. |
| `gap_loses_writes` | violation | `CacheMatchesServerWhenSettled` | A write landing in the gap is never seen. The page is settled and the cache still differs from the server. |
| `cleanup_revives_cache` | violation | `ClearedCacheStaysEmpty` | A refresh still pending at cleanup refills the emptied cache. So does a subscription that resolves after cleanup. |

**Bounds.**

* Three server ids in the violation runs, so that a create can always find
  a fresh id while other records already exist. The pass runs take two,
  which still lets a create find a fresh id from every initial collection
  that is not full.
* Two field values: `""` (unset) and `"USD"`. An update is therefore visible,
  and the empty-string mapping of `toProvider` is exercised.
* `MaxWrites` = 2 writes in one visit, and 1 write in two visits.
* These bounds are enough for every trace the properties care about. Each
  counterexample needs one write in one window. `NoDuplicateIds` needs the
  same id to reach the cache twice, through two handlers, or through a list
  and a handler.
* The initial server contents range over every function from ids to values.

**Fairness.**

* Weak fairness applies to each step of an issued request, meaning its
  resolve or its reject, and to the delivery of queued events.
* The code awaits every request and has no timeout of its own. The liveness
  property therefore assumes that the transport eventually answers every
  request.
* Mounting, unmounting, writes and stream drops get no fairness. They are
  the user's actions and the environment's.

**Deadlock.** Deadlock checking is off: once the visits and writes are used
up, the page simply idles.

### `RateService.tla` and `MC_RateService.tla`

`RateService` models `loadRates` and `fetchWithTimeout` (`currency.ts`
lines 9-61), `setRates` and the two rate atoms of `paymentsStore.ts`, and
`FALLBACK_RATES`.

| Model | Code |
|---|---|
| `rates`, `ratesLoading` | `$rates` (initially `FALLBACK_RATES`) and `$ratesLoading` |
| `pc[c]`, `attempt[c]` | call `c` of `loadRates`, split at its awaits: `"fetch"` (headers), `"body"` (`res.json()`), `"backoff"` (the 2 s sleep); the attempt it is in |
| `data[c]` | the call's `data`: the kinds of JSON value found at `Valute.USD.Value` and `Valute.EUR.Value` |
| `outcome[c]` | a ghost variable: what the call published when it ended |

A rate is abstracted to the class of the number the code computes: `"pos"`,
`"zero"` or `"nan"`. The 5% markup keeps each class. `NumberOf` is
`Number(v)` over the value kinds that it treats differently:

* a number or a numeric string gives a positive number;
* `null` and `""` give 0;
* `undefined` (missing field) and other text give NaN.

The actions are these:

* `Start` (entry: the flag is set and the first fetch is issued)
* `Headers(c, ok)` (fetch resolves; `!ok` throws)
* `Abort` (the 6 s timer aborts the fetch; a network error is the same step)
* `Body(c, p)` (`res.json()` resolves). The code after it runs without an
  await: the `Number` parse, the `isFinite` check, `setRates`, and the
  `finally`.
* `BodyError` (`res.json()` rejects)
* `BackoffDone` (the sleep ends and the retry fetch is issued)

Every failure goes through `AttemptFails`. A failure of the first attempt
sleeps; a failure of the retry falls back.

**Bounds.** One call over all six value kinds that `Number` separates (36
payloads per body read) shows the single-call behaviour in
`rates_body_stall`. Two calls show the overlap of two mounts of the route;
in the composed run `rates_and_views` they read one value kind of each
class (`num`, `null`, `text`), because every property there depends on the
class only.

**Fairness.** The code's own timers justify weak fairness on `Abort` and
`BackoffDone`. The abort timer is armed while headers are awaited, and the
sleep always ends. Nothing bounds the response body, because `clearTimeout`
runs as soon as `fetch` resolves. `Body` and `BodyError` therefore get no
fairness, and neither does a response arriving before the timer.

**Deadlock.** Deadlock checking is off: once every call has finished, the
run ends.

| Run | Expect | Checks | Shows |
|---|---|---|---|
| `rates_and_views` | pass | see `PaymentsView` | The two calls are checked composed with the views that read `$rates`. |
| `rates_body_stall` | violation | `RatesLoadingEventuallyClears` | A body that never completes leaves `$ratesLoading` true for ever. |

The model also reaches an older call's fallback overwriting a newer call's
live rates. No property is stated about it, because the spec describes one
call at a time.

### `Normalizer.tla`

`Normalizer` holds `toRub`, `getMonthlyFactor` and `monthlyRub`
(`currency.ts` lines 63-100) as operators over exact rationals, kept in
lowest terms. An unknown currency counts as RUB and an unknown period as
monthly, as in the code. The module also holds the reference: spec 4.3's
factor table (`SpecFactor`) and its `monthlyBase` (`MonthlyBase`), written
from the table and not from the code. The code computes in doubles; the
model leaves rounding out, so amounts a double would separate by an ulp
compare equal here. `rubToUsd` and `rubToEur` are not modelled (see
section 5).

### `PaymentsView.tla` and `MC_PaymentsView.tla`

`PaymentsView` extends `RateService` and `Normalizer` with the derived views
of the route that read `$payments` and `$rates`: the stats above the tabs,
the table and the mobile cards of the payments tab, and the calendar of the
calendar tab. It takes the calendar arithmetic from `DueDates` through
`Cal == INSTANCE DueDates WITH ...`, in a zone without DST, with DueDates'
own state fixed:

| Variable | Code |
|---|---|
| `payments` | `$payments`, set by `paymentManager` to one of `PaymentLists` |
| `today` | the local date `new Date()` returns, as a day number |
| `tab` | the route's `Tabs` value |
| `sortBy`, `sortOrder`, `serverFilter`, `providerFilter` | `PaymentsTable`'s `useState` |
| `statsMemo`, `tableMemo`, `cardsMemo` | each `useMemo`'s last deps and value; the table's and the cards' are `NoMemo` while their tab is unmounted |
| `calMonth` | `PaymentsCalendar`'s `currentYear` and `currentMonth`; `NoMemo` while the calendar tab is unmounted |
| `byDateMemo`, `daysMemo` | its `paymentsByDate` and `calendarDays` memos |

`StatsOf` is `PaymentsStats`' memo body: the sum of `monthlyRub`, the count,
and the payments due within five days. `FilteredAndSorted` is
`filteredAndSortedPayments`: the two case-insensitive `includes` filters
(an empty filter is skipped), then `arr.sort` with the column comparator,
negated when descending. `CardsSorted` is the mobile cards' sort by due
date. `StableSort` is `Array.prototype.sort`, which is stable since ES2019.
`PaymentsByDate` is the calendar's `Map` from date string to the payments of
that date, in store order; `CalendarGrid` gives each of DueDates' 42 cells
the payments of its key; `CellView` is what a cell renders: chips for the
first three payments and `+N more` for the rest.

Each step ends with `Render`: every mounted view renders, and a memo
recomputes when its deps differ from the last render's (`UseMemo`, with
each memo's deps list as the code writes it). Every dep is a store or a
state the component subscribes to, so a change of one re-renders it in the
same step. The actions:

* `RateStep`: a step of a `loadRates` call (RateService's `Next`).
* `SetPayments`: `paymentManager` sets `$payments` (refresh, realtime event,
  a paid date advanced).
* `HandleSort(key)`, `SetServerFilter(f)`, `SetProviderFilter(f)`: the
  column buttons and the filter inputs.
* `SwitchTab(t)`, over the three tabs: the old tab's content unmounts and
  drops its state; the table mounts with its initial state and the calendar
  at the month of the current day. An unmounted table is kept at its
  initial state, the state it mounts with.
* `GoToPrevMonth`, `GoToNextMonth`, `GoToToday`: the calendar's header
  buttons, through `ShowMonth`, which shows only months of `CalMonths`.
* `Tick`: midnight passes. It re-renders nothing.

Rates are numbers here: `FALLBACK_RATES` is 399/4 and 441/4; a live rate
of class `"pos"` is `CbrRates` (105 and 231/2 in the run), one of class
`"zero"` is 0. Dates are day numbers in a zone without DST, where
`daysUntilPayment` is the difference of day numbers (`DueDates` covers the
zone rules). Names and filters are strings over the letters `a`, `A`, `b`.

**Bounds.** Three payments in RUB, USD and EUR with monthly amounts
1000, 997.5 or 1050, and about 958 or 1004: their amount order changes
between the fallback and the live rates, and a zero USD rate ties two of
them. Two are due the same day, which tests stability; one is due in six
days, which becomes five when the day passes. A second list, as the store
sets it later, moves them and a fourth payment to one day, one more than a
calendar cell shows as chips, and gives one entry a period this version
does not know. Day 0 is 2024-01-01, so the payments fall in January and
February 2024, the two months the calendar is navigated through (the grid
of February reaches into March). Two filter values, two days, two calls,
and one JSON value kind of each class `Number` separates (the six kinds are
the same three classes to every property here). About 126,000 states in
two minutes.

**Fairness.** RateService's: the abort timer and the backoff sleep fire.
The user's and the store's steps may never happen.

| Run | Expect | Checks | Shows |
|---|---|---|---|
| `rates_and_views` | pass | `ViewTypeOK`, `FallbackOnlyAfterRetryOrBadPayload`, `TotalIsMonthlyBase`, `ListsShowSortedPayments`, `CalendarShowsPayments` | A call falls back only after its retry failed or its payload was not finite. Whenever shown, the Monthly Total is spec 4.3's monthly base of the listed payments at the rates published last, by whichever call. The table lists exactly the payments its filters match, in the chosen order at the current rates, and the cards list every payment by due date, while `$payments` and `$rates` change under the memos and days pass. While the calendar tab is shown, its grid is the shown month's and every cell lists the current payments of its day, as chips or in `+N more`, through the two chained memos, navigation and remounts. |

The model also reaches a stale Due Soon count (`PaymentsStats.tsx:28`):
the memo's deps are `payments` and `rates`, but the count reads the
clock. After `Tick` the count is yesterday's, while the table rows, which
call `daysUntilPayment` at render, already mark the payment due in five
days.

### `ProviderDialog.tla` and `MC_ProviderDialog.tla`

`ProviderDialog` extends `RecordReconciler` with the provider dialog of the
route and the form it shows. The route's handlers are the same in
`routes/payments.tsx` and in the synced route of `part_001`.

| Variable | Code |
|---|---|
| `dialog` | `providerFormOpen` and `editingProvider`: `"closed"`, `"add"`, or the id being edited |
| `submitting` | `ProviderForm`'s `isSubmitting` |
| `formReq` | the save in flight: create or update, the id, the `currencyDefault` sent, its phase, and whether the form is still mounted |

The actions:

* `OpenAdd` (the "Add Provider" button), `OpenEdit` (ProvidersList's Edit
  item, on a provider the list shows), `Dismiss` (`handleProviderFormClose`,
  from Escape, the overlay or Cancel).
* `Submit` is `handleSubmit` up to its `await`. `FormServerApply` is the
  server's side, through `CreateRecord` and `UpdateRecord` with their
  realtime broadcast; an update of a deleted provider is a 404.
  `FormConnectionFails` rejects the call before or after the server applied
  it. `FormResume` is the rest of `handleSubmit`: on success the toast and
  `onOpenChange(false)`, on failure the error toast, and always `finally`.
* `RouteUnmount` is `cleanupPayments` with the dialog and form going away.
  A save still pending then resumes into an unmounted form.

`ProviderForm` is rendered whether its `Dialog` is open or not, so
`isSubmitting` outlives a dialog closed while a save is pending. The form's
fields are abstracted to the `currencyDefault` it sends.

**Bounds and fairness.** The bounds are those of the reconciler's pass
runs: two ids, two values, two writes (a save that the server applies is
one), and one visit. Saves get the same weak fairness as every other
request of the page: the server or the connection answers, and the response
is handled.

| Run | Expect | Checks | Shows |
|---|---|---|---|
| `providers_dialog_visit` | pass | `DialogTypeOK`, `ConvergesOutsideGap`, `SaveEventuallyReenabled` | Within one visit on a reliable stream, with the dialog's saves and other clients' writes interleaved with the refresh and subscription: once settled, every record not written in the refresh→subscribe gap is in the cache as on the server. Unique ids and the loading flag are `reconciler_remounts`' properties, checked there over two visits; the dialog adds no cache change of its own. The Save button is enabled again after every save, failed or not. |

The model also reaches a save that closes the wrong dialog: Save, Escape,
open another provider's Edit, and the first save's `onOpenChange(false)`
closes it (`CountryFlag.tsx:336`).

### `DueDates.tla` and `MC_DueDates.tla`

`DueDates` models five pieces of code under JavaScript `Date` semantics:

* `daysUntilPayment` (`currency.ts` lines 103-111);
* the status band: `getPaymentStatus` (lines 113-118) as the table row
  uses it, and the calendar cell's `worstStatus` loop
  (`PaymentsCalendar.tsx` lines 203-219, as `CellStatus`);
* the calendar grid's `getDaysUntil` (`PaymentsCalendar.tsx` lines 55-98 and
  164-168);
* the date step of `markPaymentPaid` (`paymentsStore.ts` lines 265-292, and
  the local variant in `part_001` lines 119-147);
* the calendar's month view (`PaymentsCalendar.tsx` lines 50-121): the
  `currentMonth`/`currentYear` state, `paymentsByDate`, the 42-day
  `calendarDays` grid and the three navigation buttons.

**Time and the calendar.** An instant is a whole number of UTC hours since
2024-01-01T00:00Z, and a date is a day number. The calendar is the proleptic
Gregorian calendar, with recursive day counts. ECMAScript's conversions are
operators:

* `MakeDay` carries an overflowing month or day into the next one.
* `UTC` maps local time to an instant. A skipped local time takes the offset
  before the change, and a repeated one takes its earlier instant.
* `ParseDate` is `new Date("YYYY-MM-DD")`, which gives UTC midnight.
* `ISODate` is `toISOString().split("T")[0]`, which gives the UTC date.
* `DayOfWeek` is `getDay()` of a local day, from Gauss's rule for
  January 1.

The zone is given by its constants: `StdOffset`, `DstOffset` and `DstPeriods`
(UTC intervals).

**State and actions.** The state is the clock `now`, one payment's
`nextPayment` and `period`, and the calendar's `currentMonth` and
`currentYear`. The actions are:

* `Tick`: an hour passes, and every view recomputes from the clock.
* `MarkPaid`: the whole `markPaymentPaid` of the local store, which finds
  the payment, advances its date and writes it back.
* `GoToPrevMonth`, `GoToNextMonth`: the header's arrows, with the year
  carried at January and December. `ViewYears` bounds the navigation.
* `GoToToday`: back to the month of today's local date.

`CalendarDays` is the grid as an operator. It starts on the Monday on or
before the 1st (`GridStart`, with Sunday counted as 7), steps 42 local days,
marks the cells of the shown month, and keys each cell by its local date
string. A local `YYYY-MM-DD` string names exactly one local date, so the
model uses the day number as the key; that `paymentsByDate` finds a payment
in the cell of its own day is therefore not a property here. The file also
holds older copies of the calendar (from line 346) that the route does not
render.

`Classify` is spec 4.4's `classify`, written from the spec as the reference
the code's `GetPaymentStatus` is checked against. The Moscow days include
2024-02-04, so the clock's two days see 4, 5 and 6 days left as well as 0,
1 and 2: both band boundaries are crossed.

The synced store's `await updatePayment` around the same date step belongs to
the planned store composition.

**Zones and windows** (`MC_DueDates.tla`):

* Europe/Moscow: UTC+3, no DST.
* Europe/Berlin: CET/CEST, with the 2024 and 2025 rules.
* America/New_York: EST/EDT.

Each window is one or two days of the clock, with starting dates chosen for
the hard cases:

* a month end, the leap day and a year end around 2024-01-31;
* both sides of the spring change around 2024-03-31.

Every period is enumerated. The calendar is navigated through 2024 and 2025,
which includes months that start on a Sunday (September and December 2024,
June 2025) and their 31-day six-week grids.

**Deadlock.** Deadlock checking is off: the clock stops at `NowLast` and
marking stops at `MaxPaid`.

| Run | Expect | Checks | Shows |
|---|---|---|---|
| `duedates_moscow` | pass | `TypeOK`, `DaysUntilIsCalendarDiff`, `CalendarGridCoversMonth`, `StatusBandIsSpecClassify` | The zone is east of UTC without DST, including the hours after local midnight, when the UTC date is still the day before. The day count is the calendar difference, taken from local midnight of today (a UTC today is caught). The table row and the calendar cell both band the payment by spec 4.4's `classify`, 0 to 6 days ahead. In every month of 2024 and 2025, the grid starts on a Monday and marks exactly the month's days. Properties that hold here only because the zone has no DST and lies east of UTC (table and calendar agreeing, mark-paid advancing, the printed due date) are not checked; their failures in other zones are listed under "Further behaviours the models reach". |
| `duedates_berlin_dst` | violation | `DaysUntilIsCalendarDiff` | Across the spring change, `Math.floor` over 23 hours drops a day. |

### `RecordStore.tla`, `LocalStore.tla` and `MC_LocalStore.tla`

`RecordStore` is the contract a payments store keeps towards its views. It
holds two keyed collections, each a function from every possible id to a
record or `None`. Its actions are:

* create, update and delete a provider; a delete takes the provider's
  payments with it;
* create, update and delete a payment, only for a provider that exists;
* import, which replaces each collection the document carries (`Keep`
  marks one it does not carry);
* replace the rate snapshot.

Nothing else changes the store, so a page reload must show it as it was.

`LocalStore` is the localStorage variant (`src/unnamed/part_001`, lines
1-180). Its state is the code's own:

| Variable | Code |
|---|---|
| `providers`, `payments` | the `$providers` and `$payments` arrays |
| `rates` | `$rates` |
| `stored` | the JSON under `LS_KEY`, `Absent` or `Corrupt` |
| `seen` | every id ever issued; `generateId` never repeats one |

Every function is synchronous, so each is one action that ends with
`persist()`: `AddProvider`, `UpdateProvider`, `DeleteProvider` (with its
second filter, the local cascade), `AddPayment`, `UpdatePayment`,
`DeletePayment`, `MarkPaymentPaid`, `SetRates` and `Import`. `Reload` is a
page reload: memory is rebuilt by `loadState()`, which gives the default on
a missing key or a parse error. The date step of `markPaymentPaid` is
abstracted to the next date index here; `DueDates` models it in full.

Updates and deletes are taken only for an id the store lists, because the
views offer them only for listed records. `AddPayment` takes a listed
provider, because `PaymentForm` selects from `$providers`.

The refinement mapping turns each array into the function from ids to the
record holding that id, and turns each importable document into the pair of
collections it carries. `ImplementsRecordStore` is the abstract `Spec`,
checked as a `PROPERTY`.

**Bounds.** There are two providers, two payments, two provider values and
two due indices. The documents are: both arrays, providers only, payments
only, neither, and one `JSON.parse` rejects. The initial storage is empty or
corrupt. `StorageMayFail` is FALSE in the run: with it TRUE, `saveState`
swallows a failed `setItem`, and the refinement fails at the next reload
(AddProvider, AddProvider, Reload loses the second provider). That is the
hazard at `part_001:36`.

**Deadlock.** Deadlock is checked. `Reload` and `SetRates` are always
enabled.

| Run | Expect | Checks | Shows |
|---|---|---|---|
| `localstore_refines` | pass | `TypeOK`, `ImplementsRecordStore` | Every step of the local store is a step of the contract: deletes cascade, imports replace exactly the arrays they carry, and a reload restores the store. |

### `PaymentsPage.tla` and `MC_PaymentsPage.tla`

`PaymentsPage` composes the synced store's payments collection, its realtime
stream and the views that change it. It starts where `RecordReconciler`
ends: the data is loaded and the subscriptions are live.

| Variable | Code |
|---|---|
| `server`, `sprov` | the PocketBase payments and providers collections |
| `events` | realtime events emitted and not yet handled, in order |
| `cache` | `$payments`, as a function from id to record or `None` |
| `loadingId` | `loadingId` of `PaymentsTable` and of `PaymentsMobileCards` |
| `reqs` | requests in flight: view, list instance, operation, phase |
| `toasts` | "Payment marked as paid" toasts per payment |
| `tab`, `viewport`, `listMount` | the route's `Tabs`, which list the screen width shows, and which instance of it is mounted |
| `imp`, `alert`, `issued` | `importPaymentsData`'s loop state, the route's `alert`, and every id PocketBase has issued |

A request is split at its `await`. The click sends it (`TableMarkPaid`,
`CardsMarkPaid`, `TableDelete`, `CardsDelete`, `CalendarMarkPaid`,
`CalendarDelete`). The server applies it or answers 404 (`ServerUpdate`,
`ServerDelete`), or the connection fails before or after that
(`ConnectionFails`). The reply resumes the handler (`TableResume`,
`CardsResume`, `CalendarResume`). `MarkPaymentPaid` reads the date from the
cache at the click, as the code does before its `await`. `HandleEvent` is
the subscription handler: `add` on create or update, `remove` on delete.
`DeleteProvider` is `ProvidersList`'s confirmed delete; the relation's
cascade removes the provider's payments and emits one delete per payment in
any order. `SwitchTab` is the `Tabs` control: the inactive content is
unmounted, so a new list instance starts with `loadingId` null, and the
old instance's `setLoadingId(null)` changes nothing (`Mounted`).
`HandleImport` is the route's `onChange` handler with its
`if (importPaymentsData(content))`; `ImportProvider`, `ImportProvidersDone`,
`ImportPayment` and `ImportDone` are the steps of the synced import between
its awaits.

**Bounds.** Three payment ids, one on the server at the start, and three
provider ids, one on the server. `MaxDue` 2 and `MaxClicks` 2: two clicks
are the least that race each other. `MaxMounts` 2: one remount of the
lists. The backup document carries one provider and two payments, one of
which names a provider the document does not list; the other file is
unparsable. The viewport is chosen at `Init`, so only one list is clickable.

**Deadlock.** Deadlock checking is off. Once the clicks are spent, the
events handled and the import finished, the page idles.

| Run | Expect | Checks | Shows |
|---|---|---|---|
| `page_actions` | pass | `PageTypeOK`, `CacheMatchesServerWhenQuiet`, `BusySlotHasRequest`, `ImportReportsEveryFailure` | Over 5.3 million states: the cache equals the server whenever no event is pending, even after a cascade whose deletes come in any order. A busy row always has its request in flight, across remounts. The import counts every failed entry. |
| `mark_toast_no_advance` | violation | `MarkToastMeansAdvance` | Two Mark Paid clicks toast twice for one advance. |
| `import_alert_on_failure` | violation | `ImportAlertMatchesResult` | "Import successful!" is shown for an unparsable file. |

## 4. Findings so far

Each finding is a counterexample that TLC found for a violation run.

1. **The refresh-to-subscribe gap** (`paymentsStore.ts:175`, run
   `gap_loses_writes`). A write that lands between the server reading the
   list and registering the subscription is lost for the whole visit. The
   same holds for the user's own create, because `addProvider` does not merge
   its result (`:205`). The spec requires both merging and eventual
   consistency (4.1, 5).
2. **Revival after cleanup** (`:91`, `:73`, run `cleanup_revives_cache`).
   `cleanupPayments` cannot cancel an `initPayments` that is still pending.
   The late `set`, or a handler that resolves later, refills the emptied
   cache. This contradicts spec 5.
3. **Unbounded body read** (`currency.ts:31`, run `rates_body_stall`). The
   timeout covers only the headers. A stalled body keeps `loadRates` pending
   and `$ratesLoading` true for ever. Spec 4.2 says the flag must never stay
   stuck.
4. **Day count across DST** (`currency.ts:110`, run `duedates_berlin_dst`).
   Two local midnights on either side of the spring change are 23 hours
   apart, and `Math.floor` drops a day. In Berlin, a payment due 2024-04-02
   is 3 days away on 2024-03-29 instead of 4. Spec 4.4 asks for the calendar
   difference.
5. **A second Mark Paid is lost** (`paymentsStore.ts:266`, run
   `mark_toast_no_advance`). `markPaymentPaid` reads the date from the cache
   before it awaits the update. After the first reply clears the row's
   `loadingId`, and before the realtime event reaches `$payments`, a second
   click reads the old date and writes the same next date. Both clicks toast
   "Payment marked as paid", but the date moved one period. TLC's trace has
   7 states and one visible list.
6. **Import always reports success** (`routes/payments.tsx:86`, run
   `import_alert_on_failure`). The synced `importPaymentsData` is `async`, so
   `if (importPaymentsData(content))` tests a Promise, which is truthy.
   "Import successful!" is shown at once, for an unparsable file too, and the
   failure alert can never appear. The test fits the local variant, whose
   import returns a boolean (`part_001:165`); the synced route there awaits
   the result (`part_001:281`). Spec 4.3 says import reports
   `{success, errors}`.

### Further behaviours the models reach

The models reach the following behaviours. No run states them as a property
of its own:

* **Leaked subscription** (`paymentsStore.ts:84`). `unsubscribe` closes only
  the handle that is already stored. A subscription that resolves after
  cleanup is never closed, and after a remount two handlers deliver
  (`RecordReconciler`, two visits).
* **No resync on reconnect** (`:73`). Events dropped by the SSE stream are
  never recovered. `ConvergesOutsideGap` fails when `StreamMayDrop` is TRUE
  and the visit is not remounted.
* **Shared loading flag** (`currency.ts:59`). With two overlapping calls, the
  first `finally` clears `$ratesLoading` while the other call is still
  fetching. An older call's fallback can also replace newer live rates.
* **No retry on a wrong-shaped payload** (`currency.ts:53`). The
  "Invalid API data" throw goes straight to the fallback. Spec 4.2 lists a
  malformed payload among the failures that are retried.
* **Null rates accepted** (`currency.ts:40`). `Number(null)` and
  `Number("")` are 0, which is finite, so such a payload is published as
  live rates of 0 (`RateService`). Spec 4.2 accepts any finite number; the
  risk is the division in `rubToUsd`.
* **Mark-paid does not advance across DST** (`paymentsStore.ts:273`).
  A date parsed as UTC midnight (01:00 CET), moved a local day into summer
  time and printed in UTC is the same date: in Berlin a daily payment due
  2024-03-31 is never advanced. `AdvanceDate` with the Berlin constants of
  `MC_DueDates` gives this result; no run checks it.
* **Error shown for an applied change** (`paymentsStore.ts:256`). In
  `PaymentsPage` the connection can fail after the server applied the
  update; the row shows the failure toast, and a retry advances again.
* **Due Soon count stale after midnight** (`PaymentsStats.tsx:28`). See
  the `PaymentsView` section.
* **A save closes a later dialog** (`CountryFlag.tsx:336`). See the
  `ProviderDialog` section.
* **Month-end overflow** (`paymentsStore.ts:279`). `setMonth` on the 31st
  moves a monthly payment due January 31 to March 2, which skips February.
* **West of UTC** (`currency.ts:105`). `new Date("YYYY-MM-DD")` is the
  previous local evening. In New York the table shows a payment due today as
  overdue, while the calendar shows it as due today: with the New York
  constants, `DaysUntilPayment` is one less than `CalendarDaysUntil`.
  `formatDateRu` reads the same parse with local getters, so the Due Date
  column prints the day before. No run checks either; the Moscow run cannot
  meet them.

* **Unparseable dates in the date sort** (`PaymentsTable.tsx:108`,
  `CountryFlag.tsx:62`). The date comparators subtract `getTime()` values.
  An empty PocketBase date gives `NaN`, which `sort` takes as equal to
  everything, so the comparator is inconsistent and ECMAScript leaves the
  order of the whole list implementation-defined. Spec 4.4 wants such a
  date last. The models' dates always parse.
* **Orphans after a partial import** (`part_001:168`). A document that
  carries only providers keeps the old payments, including those whose
  provider is gone. `LocalStore` reaches this with `DocProvidersOnly`.
* **Lost writes after a failed save** (`part_001:36`). See the
  `LocalStore` bounds.

## 5. Not modelled

* **Rendering, translation, icons and layout.** No property depends on them.
* **Formatting helpers and favicon URLs.** These are pure presentation.
* **`CountryFlag` and the forms' fields.** `CountryFlag` renders an image;
  the forms' fields are local until they call the store functions, which
  are modelled.
* **`PaymentForm` (`src/unnamed/part_003`).** Its fields and its two effects
  change no store state until `handleSubmit`. Its one rule, one payment per
  server, is a rule of the editing UI that the spec's design notes ask to
  keep soft. Four hazards of the form are listed in `PROJECT.json`:
  - the currency effect overwrites a picked currency on any `$providers`
    change;
  - `usedServerIds` is stale while an unawaited `addPayment` is in flight;
  - a rejected unawaited save is silent;
  - the local route's `reader.onload` window.
* **The local route's import read.** `handleImport` applies the file in
  `reader.onload`, a later task, so a dialog opened during the read stays
  open across the import. A page model of the local variant with that
  window does not implement `RecordStore`: an Edit save after the import
  names a provider the import removed. `LocalStore` applies an import in
  one step, as `importPaymentsData` does.
* **`rubToUsd`, `rubToEur` and the rounding of doubles.** The inverse
  helpers are display estimates of the mobile cards and change nothing.
  `Normalizer` computes exactly, so ties that rounding would break are not
  seen.
* **The table's Due Date, monthly amount and badges.** The row's days and
  status band are `DueDates`' operators. `formatDateRu`, the monthly amount
  and the badge text are formatting that changes no state; `formatDateRu`'s
  west-of-UTC day is listed above.
* **`exportPaymentsData`.** It serialises the stores and changes nothing;
  the document it writes is `PaymentsPage`'s `Doc`.
* **The Go migrations.** They are declarative. The cascade relation they
  declare is an assumption of `PaymentsPage`'s `DeleteProvider`.
* **Authentication and the server's access rules.** These are out of the
  spec's scope.
