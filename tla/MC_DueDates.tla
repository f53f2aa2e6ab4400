----------------------------- MODULE MC_DueDates -----------------------------
(* Time zones and windows for DueDates.  Instants are UTC hours since      *)
(* 2024-01-01T00:00Z; months are 0-based as in JavaScript.                 *)
EXTENDS DueDates

MC_Years == 2024..2028
(* The calendar is navigated through two years; its grid may reach into *)
(* the January after them, which MC_Years still covers.                   *)
MC_ViewYears == {2024, 2025}
MC_Periods == {"daily", "weekly", "monthly", "quarterly", "semiannual", "annual"}

Day(y, m, d) == MakeDay(y, m, d)
Hour(y, m, d, h) == MakeDay(y, m, d) * 24 + h

(* Europe/Moscow: UTC+3 all year. *)
MC_MoscowDst == {}
(* Europe/Berlin: CET, CEST from the last Sunday of March 01:00Z to the   *)
(* last Sunday of October 01:00Z.                                          *)
MC_BerlinDst == { <<Hour(2024, 2, 31, 1), Hour(2024, 9, 27, 1)>>,
                  <<Hour(2025, 2, 30, 1), Hour(2025, 9, 26, 1)>> }
(* America/New_York: EST, EDT from 2024-03-10 07:00Z to 2024-11-03 06:00Z. *)
MC_NewYorkStd == -5
MC_NewYorkDaylight == -4
MC_NewYorkDst == { <<Hour(2024, 2, 10, 7), Hour(2024, 10, 3, 6)>>,
                   <<Hour(2025, 2, 9, 7), Hour(2025, 10, 2, 6)>> }

(* A day around the turn of January, with month ends and the leap day.  *)
MC_MonthEndNowFirst == Hour(2024, 0, 30, 12)
MC_MonthEndNowLast  == Hour(2024, 0, 31, 12)
MC_MonthEndDays == {Day(2024, 0, 30), Day(2024, 0, 31), Day(2024, 1, 4), Day(2024, 1, 29),
                    Day(2024, 7, 31), Day(2024, 11, 31)}

(* The days around the spring DST change in Europe. *)
MC_SpringNowFirst == Hour(2024, 2, 29, 12)
MC_SpringNowLast  == Hour(2024, 2, 31, 12)
MC_SpringDays == {Day(2024, 2, 25), Day(2024, 2, 31), Day(2024, 3, 2)}
=============================================================================
