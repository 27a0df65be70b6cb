SPECIFICATION Spec
CONSTANTS
    Schedules <- Endless
    NextDue <- MinutesNextTime
    MaxId = 2
    MaxClock = 3
    MaxFaults = 1
INVARIANT IdsAreFresh
CHECK_DEADLOCK FALSE
