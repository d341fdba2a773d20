SPECIFICATION Spec
CONSTANTS
    DaySlots = 6
    WeekDays = 3
    MonthDays <- Year
    Change = 13
    Reach = 2
    CronReach = 14
    Lateness = 1
    MaxCatchUp = 27
    Schedules <- DailySchedules
    Starts = {3, 8}
    Naps = {2, 9}
    Horizon = 27
INVARIANTS
    OncePerLocalDay
CHECK_DEADLOCK FALSE
