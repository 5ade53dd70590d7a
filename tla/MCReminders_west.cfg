\* An evening net whose zone is behind UTC.
SPECIFICATION Spec
CONSTANTS
    evening = evening  east = east  west = west  nc = nc  bc = bc  first = first  r1 = r1  r2 = r2
    Schedules <- WestSchedules
    DayOfWeek <- WestDay
    StartTime <- WestStart
    Zone <- WestZone
    Signups <- WestSignups
    ScheduleOf <- WestScheduleOf
    DateOf <- WestDates
    Shifts <- OneShift
    ShiftStart <- ShiftTime
    Reachable = {nc, first}
    Before = 1
    Day = 4
    Week = 7
    Horizon = 7
    Runs <- OneRun
    Punctual = TRUE
    Removals = FALSE
    MaxFaults = 0
PROPERTIES EveryDueIsReminded
CHECK_DEADLOCK FALSE
