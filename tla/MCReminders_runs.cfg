\* Two runs at once, one in time in every unit; rows that go, runs that die.
SPECIFICATION Spec
CONSTANTS
    evening = evening  east = east  west = west
    nc = nc  bc = bc  first = first  r1 = r1  r2 = r2
    Schedules <- UtcSchedules  DayOfWeek <- UtcDay
    StartTime <- UtcStart  Zone <- UtcZone
    Signups <- TwoSignups  ScheduleOf <- TwoScheduleOf  DateOf <- TwoDates
    Shifts <- OneShift  ShiftStart <- ShiftTime
    Reachable = {nc, first}
    Before = 1  Day = 4  Week = 7
    Horizon = 2
    Runs <- TwoRuns
    Punctual = TRUE  Removals = TRUE
    MaxFaults = 1
SYMMETRY Symmetry
INVARIANTS AgainIsExcused MarkedWasTried
PROPERTIES EveryDueIsReminded
CHECK_DEADLOCK FALSE
