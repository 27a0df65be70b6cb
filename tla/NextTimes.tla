------------------------------ MODULE NextTimes ------------------------------
(***************************************************************************)
(* The next time of a schedule, asked for again and again while the clock  *)
(* goes on: a check of get_next_time against the meaning of a schedule.    *)
(***************************************************************************)
EXTENDS ScheduleConfig

CONSTANTS
    Units, Periods, Starts, WeekdayLists,   \* those of this instance
    Horizon(_)  \* bound: the days after the start for which the clock runs

VARIABLES schedule, now

scheduleVars == <<schedule, now>>

Date(y, m, d) == [y |-> y, m |-> m, d |-> d, min |-> 973]

(* A Sunday, the last day of a month, a Monday at the end of a leap February. *)
SomeStarts == {Date(2020, 3, 15), Date(2021, 1, 31), Date(2024, 2, 26)}

SomeWeekdays == {<<2>>, <<0, 4>>, <<1, 5, 6>>, <<3, 3>>, <<0, 1, 2, 3, 4, 5, 6>>}

Timetables ==
    {s \in [repeatable : {TRUE}, unit : Units, period : Periods, start : Starts,
            weekdays : WeekdayLists \cup {<<>>}] :
        s.unit = "weeks" <=> s.weekdays # <<>>}

ASSUME TimetablesAssumption ==
    \A s \in Timetables : Accepted(s) /\ 2 * Len(s.weekdays) < MaxIterations

(* A day of minutes and hours, two months of days and weeks, eleven months. *)
UpToElevenMonths(unit) ==
    CASE unit \in {"minutes", "hours"} -> 1 [] unit = "months" -> 330 [] OTHER -> 60

TwoYears(unit) == 800

(* The clock stops at the occurrences, a minute around them and between them. *)
ClockStep(s) ==
    CASE s.unit = "minutes" -> 1
      [] s.unit = "hours" -> 30
      [] s.unit = "months" -> Day
      [] OTHER -> Day \div 2

(* Before there is a schedule *)
NoSchedule == [repeatable |-> FALSE]

ScheduleInit ==
    /\ schedule \in Timetables
    /\ \E d \in {-1, 0, 1} : now = Instant(schedule.start) - 2 * ClockStep(schedule) + d

TimePasses ==
    /\ now + ClockStep(schedule) <= Instant(schedule.start) + Horizon(schedule.unit) * Day
    /\ now' = now + ClockStep(schedule)
    /\ UNCHANGED schedule

ScheduleSpec == ScheduleInit /\ [][TimePasses]_scheduleVars

-----------------------------------------------------------------------------
(* get_next_time returns the first occurrence that is not in the past: it  *)
(* skips none, whatever it skips in its first guess.                       *)
NextIsFirst ==
    schedule # NoSchedule => IsNext(schedule, now, NextTime(schedule, now))

(* What test_next_day_when_repeatable expects of months as well, without   *)
(* a limit: schedule_config_test.py:49 asks one minute after the start for *)
(* the occurrence one month later. It fails a year after the start, where  *)
(* a month is taken for 28 days.                                           *)
NextMonthIsFirst == IsNext(schedule, now, NextTime(schedule, now))
=============================================================================
