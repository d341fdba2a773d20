SPECIFICATION Spec
CONSTANTS
    DaySlots = 6
    WeekDays = 3
    MonthDays <- Year
    Change = 13
    Reach = 2
    CronReach = 14
    Lateness = 1
    MaxCatchUp = 22
    Schedules <- AllSchedules
    Starts = {3}
    Naps = {2, 9}
    Horizon = 22
INVARIANTS
    StaysOnCadence
    ShortcutIsIteration
    OverlapRunsOnce
    RetiresOnlyAtItsEnd
PROPERTIES
    CatchesUp
    RunEachLeavesNoHole
CHECK_DEADLOCK FALSE
