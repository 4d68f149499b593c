---------------------------- MODULE MarketCalendar ----------------------------
(* The calendar of the American market that decides when monitoring runs are    *)
(* due (monitoring/scheduleDomain.ts). A day is its number since 1 March of the  *)
(* year 0; a time is its minute of the market's day, at the market's clock.      *)
EXTENDS FiniteSetsExt, Integers

CONSTANT CheckedYears

\* Years begin in March, so that a leap day is the last of its year.
DayNumber(year, month, day) ==
  LET y == IF month <= 2 THEN year - 1 ELSE year
      m == (month + 9) % 12
  IN  365 * y + (y \div 4) - (y \div 100) + (y \div 400) + ((153 * m + 2) \div 5) + day - 1

\* Monday is 1, Sunday 7.
DayOfWeek(n) == ((n + 2) % 7) + 1

observedFixedHoliday(year, month, day) ==
  LET date == DayNumber(year, month, day)
  IN  CASE DayOfWeek(date) = 6 -> date - 1 [] DayOfWeek(date) = 7 -> date + 1 [] OTHER -> date

nthWeekday(year, month, weekday, occurrence) ==
  LET first == DayNumber(year, month, 1)
  IN  first + ((weekday - DayOfWeek(first) + 7) % 7) + (occurrence - 1) * 7

lastWeekday(year, month, weekday) ==
  LET last == DayNumber(year, month + 1, 1) - 1
  IN  last - ((DayOfWeek(last) - weekday + 7) % 7)

easterSunday(year) ==
  LET a == year % 19
      b == year \div 100
      c == year % 100
      g == (b - ((b + 8) \div 25) + 1) \div 3
      h == (19 * a + b - (b \div 4) - g + 15) % 30
      l == (32 + 2 * (b % 4) + 2 * (c \div 4) - h - (c % 4)) % 7
      p == h + l - 7 * ((a + 11 * h + 22 * l) \div 451) + 114
  IN  DayNumber(year, p \div 31, (p % 31) + 1)

holidays(year) ==
  {observedFixedHoliday(year, 1, 1), nthWeekday(year, 1, 1, 3), nthWeekday(year, 2, 1, 3),
   easterSunday(year) - 2, lastWeekday(year, 5, 1), observedFixedHoliday(year, 7, 4),
   nthWeekday(year, 9, 1, 1), nthWeekday(year, 11, 4, 4), observedFixedHoliday(year, 12, 25),
   observedFixedHoliday(year + 1, 1, 1)}
  \union (IF year >= 2022 THEN {observedFixedHoliday(year, 6, 19)} ELSE {})

isTradingDay(n, year) == DayOfWeek(n) <= 5 /\ n \notin holidays(year)

Opening == 9 * 60 + 30
Closing == 16 * 60

isRegularSession(n, year, minutes) ==
  isTradingDay(n, year) /\ minutes >= Opening /\ minutes < Closing

currentFiveMinutePriceRun(minutes) == (minutes \div 5) * 5

\* The last trading day whose time of the day has come; years before the day's own
\* matter in the first days of January only.
latestDueDailyRun(n, year, minutes, due) ==
  LET candidate == IF due > minutes THEN n - 1 ELSE n
      yearOf(d) == IF d < DayNumber(year, 1, 1) THEN year - 1 ELSE year
  IN  Max({d \in candidate - 10 .. candidate : isTradingDay(d, yearOf(d))})

-----------------------------------------------------------------------------
(* What TLC checks of them for every day of CheckedYears *)

DaysOf(year) == DayNumber(year, 1, 1) .. DayNumber(year + 1, 1, 1) - 1

\* The Sunday after the ecclesiastical full moon, by the table of golden numbers that
\* holds from 1900 to 2199: another account of the date than the code's formula.
PaschalMoon(year) ==
  LET epact == (19 * (year % 19) + 24) % 30
      late == epact = 29 \/ (epact = 28 /\ year % 19 > 10)
  IN  DayNumber(year, 3, 21) + epact - (IF late THEN 1 ELSE 0)

\* Good Friday is kept two days before the true Easter (easterSunday).
ASSUME EasterIsRight ==
  \A year \in CheckedYears :
    /\ DayOfWeek(easterSunday(year)) = 7
    /\ easterSunday(year) - PaschalMoon(year) \in 1..7

\* Every holiday is kept on a weekday, so none is lost on a weekend, and a day is a
\* holiday of its own year's list whichever year the list is asked for.
ASSUME HolidaysAreKept ==
  \A year \in CheckedYears :
    /\ \A h \in holidays(year) : DayOfWeek(h) <= 5
    /\ holidays(year) \intersect DaysOf(year + 1) \subseteq holidays(year + 1)

\* A price run is one of the session it is asked for in: its period has begun, is not
\* over, and does not begin before the opening (currentFiveMinutePriceRun).
ASSUME PriceRunsAreOfTheSession ==
  \A year \in CheckedYears : \A n \in DaysOf(year) : \A minutes \in 0 .. 24 * 60 - 1 :
    isRegularSession(n, year, minutes) =>
      LET run == currentFiveMinutePriceRun(minutes)
      IN  run <= minutes /\ minutes < run + 5 /\ isRegularSession(n, year, run)

\* A daily run is never due in the future, falls on a trading day, is at most four
\* days old, and passes from one period to the next without leaving one out
\* (latestDueDailyRun).
ASSUME DailyRunsAdvance ==
  \A year \in CheckedYears : \A n \in DaysOf(year) :
    LET evening == latestDueDailyRun(n, year, 18 * 60, 18 * 60)
        morning == latestDueDailyRun(n, year, 9 * 60, 18 * 60)
    IN  /\ evening <= n /\ n - evening <= 4 /\ morning < n
        /\ isTradingDay(n, year) <=> evening = n
        /\ evening # n => evening = morning
=============================================================================
