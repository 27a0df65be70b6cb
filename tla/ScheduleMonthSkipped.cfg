SPECIFICATION ScheduleSpec
CONSTANTS
    Units = {"months"}
    Periods = {1}
    Starts <- SomeStarts
    WeekdayLists <- SomeWeekdays
    Horizon <- TwoYears
INVARIANT NextMonthIsFirst
CHECK_DEADLOCK FALSE
