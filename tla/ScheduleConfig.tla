---------------------------- MODULE ScheduleConfig ----------------------------
(***************************************************************************)
(* The arithmetic of schedules: ScheduleConfig.get_next_time and           *)
(* date_utils.add_months. Instants are minutes since 2020-01-01 00:00 UTC, *)
(* which was a Wednesday; start dates are kept in their calendar form.     *)
(***************************************************************************)
EXTENDS Integers, Sequences, FiniteSets

Day == 1440

-----------------------------------------------------------------------------
(* The calendar of datetime, from 2020 on. *)

IsLeap(y) == y % 4 = 0 /\ (y % 100 # 0 \/ y % 400 = 0)

MonthLength(y, m) ==
    CASE m \in {4, 6, 9, 11} -> 30
      [] m = 2 -> IF IsLeap(y) THEN 29 ELSE 28
      [] OTHER -> 31

(* The days before the n-th month after January 2020. *)
DaysBefore[n \in Nat] ==
    IF n = 0 THEN 0
    ELSE DaysBefore[n - 1] + MonthLength(2020 + ((n - 1) \div 12), ((n - 1) % 12) + 1)

(* A date is [y, m, d, min]: year, month, day of the month, minute of the day. *)
Instant(date) ==
    (DaysBefore[12 * (date.y - 2020) + date.m - 1] + date.d - 1) * Day + date.min

(* datetime.weekday(): 0 is Monday. *)
Weekday(t) == ((t \div Day) + 2) % 7

AtMost(a, b) == IF a < b THEN a ELSE b
AtLeast(a, b) == IF a > b THEN a ELSE b

(* add_months: the day of the month is cut to the length of the new month. *)
AddMonths(date, n) ==
    LET months == date.m - 1 + n
        year == date.y + (months \div 12)
        month == (months % 12) + 1
    IN  [date EXCEPT !.y = year, !.m = month, !.d = AtMost(@, MonthLength(year, month))]

-----------------------------------------------------------------------------
(***************************************************************************)
(* A schedule is a record [repeatable, unit, period, start, weekdays], the *)
(* weekdays a sorted sequence of numbers.                                  *)
(***************************************************************************)

AllUnits == {"minutes", "hours", "days", "weeks", "months"}

IsDate(date) ==
    /\ date \in [y : Nat, m : 1..12, d : 1..31, min : 0..Day - 1]
    /\ date.y >= 2020 /\ date.d <= MonthLength(date.y, date.m)

(* read_schedule_config *)
Accepted(s) ==
    /\ IsDate(s.start) /\ s.repeatable \in BOOLEAN
    /\ s.repeatable => s.unit \in AllUnits /\ s.period \in Nat \ {0}
    /\ s.repeatable /\ s.unit = "weeks" =>
          /\ s.weekdays \in Seq(0..6) /\ s.weekdays # <<>>
          /\ \A i, j \in DOMAIN s.weekdays : i <= j => s.weekdays[i] <= s.weekdays[j]

UnitLength(unit) ==
    CASE unit = "minutes" -> 1
      [] unit = "hours" -> 60
      [] unit = "days" -> Day
      [] unit = "weeks" -> 7 * Day

(* How many of the weekdays lie before the start in its week. *)
WeekOffset(s) ==
    Cardinality({i \in DOMAIN s.weekdays : s.weekdays[i] < Weekday(Instant(s.start))})

(* The n-th weekday of the schedule, from the beginning of the start's week. *)
WeekdayAt(s, n) ==
    LET day == s.weekdays[(n % Len(s.weekdays)) + 1]
        week == n \div Len(s.weekdays)
    IN  Instant(s.start) + week * s.period * 7 * Day + (day - Weekday(Instant(s.start))) * Day

(* next_time_func(start, i) *)
TimeAt(s, i) ==
    CASE s.unit = "months" -> Instant(AddMonths(s.start, s.period * i))
      [] s.unit = "weeks" -> WeekdayAt(s, i + WeekOffset(s))
      [] OTHER -> Instant(s.start) + s.period * i * UnitLength(s.unit)

(* Mutant: the iterations skipped at the beginning are not divided by the  *)
(* period.                                                                 *)
InitialMultiplierAhead(s, at) ==
    LET elapsed == at - Instant(s.start)
    IN  CASE s.unit = "months" -> elapsed \div (28 * Day)
          [] s.unit = "weeks" -> (elapsed \div (7 * Day)) * Len(s.weekdays) - 1
          [] OTHER -> elapsed \div UnitLength(s.unit)

(* get_initial_multiplier(start) *)
InitialMultiplier(s, at) ==
    LET elapsed == at - Instant(s.start)
    IN  CASE s.unit = "months" -> elapsed \div (28 * Day * s.period)
          [] s.unit = "weeks" -> (elapsed \div (7 * Day * s.period)) * Len(s.weekdays) - 1
          [] OTHER -> elapsed \div (UnitLength(s.unit) * s.period)

MaxIterations == 10000
Endless == -1       \* "Endless loop in calc next time"

(* get_next_time: the first iteration that is not in the past. *)
NextTime(s, at) ==
    LET first == AtLeast(0, InitialMultiplier(s, at))
        turns == first..first + MaxIterations
    IN  IF ~s.repeatable THEN Instant(s.start)
        ELSE IF \A i \in turns : TimeAt(s, i) < at THEN Endless
        ELSE TimeAt(s, CHOOSE i \in turns :
                           TimeAt(s, i) >= at /\ \A j \in first..i - 1 : TimeAt(s, j) < at)

-----------------------------------------------------------------------------
(* What a schedule means, without iterations. *)

WeekOf(t) == ((t \div Day) + 2) \div 7

(* Enough for two years and a half after the start. *)
MonthlyTimes(s) == {Instant(AddMonths(s.start, s.period * k)) : k \in 0..30}

IsOccurrence(s, t) ==
    /\ t >= Instant(s.start)
    /\ CASE s.unit = "months" -> t \in MonthlyTimes(s)
         [] s.unit = "weeks" ->
               /\ (t - Instant(s.start)) % Day = 0
               /\ \E i \in DOMAIN s.weekdays : s.weekdays[i] = Weekday(t)
               /\ (WeekOf(t) - WeekOf(Instant(s.start))) % s.period = 0
         [] OTHER -> (t - Instant(s.start)) % (s.period * UnitLength(s.unit)) = 0

(* The instants from now on and before t that could be occurrences. *)
Between(s, at, t) ==
    IF s.unit = "months" THEN {u \in MonthlyTimes(s) : at <= u /\ u < t}
    ELSE LET grain == IF s.unit = "weeks" THEN Day ELSE UnitLength(s.unit)
         IN  {t - k * grain : k \in 1..(t - at) \div grain}

IsNext(s, at, t) ==
    /\ t >= at /\ IsOccurrence(s, t)
    /\ \A u \in Between(s, at, t) : ~IsOccurrence(s, u)
=============================================================================
