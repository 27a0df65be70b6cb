SPECIFICATION RequestSpec
CONSTANTS
    Forms <- TwoParts
    LongEnough = 7
    Expectations <- Prompts
    Letters = {"a", "b"}
    MaxOutput = 7
    Units = {"minutes", "hours", "days", "weeks", "months"}
    Periods = {1, 2, 5}
    Starts <- SomeStarts
    WeekdayLists <- SomeWeekdays
    Horizon <- UpToElevenMonths
    GroupNames <- ThreeGroups
    People <- Ann
    OtherGroups <- FromLdap
    MaxMembers = 2
    ScriptNames = {"backup", "report"}
    Older = {1}
    Newer = {2, 3}
    MaxBreaks = 1
    MaxActs = 1
INVARIANTS ChunksDoNotMatter ValuesReachScript AuditSafe GroupsComplete NextIsFirst TabAgrees
CHECK_DEADLOCK FALSE
