SPECIFICATION FairSpec
CONSTANTS
    Schedules <- AllKinds
    NextDue <- MinutesNextTime
    MaxId = 2
    MaxClock = 3
    MaxFaults = 1
INVARIANTS JobsInPlace RunsInOrder SeriesKept
PROPERTIES DueIsTaken
CHECK_DEADLOCK FALSE
