SPECIFICATION Spec
CONSTANTS
    DaySlots = 8
    WeekDays = 1
    MonthDays <- Year
    Change = 0
    Reach = 0
    CronReach = 1
    Lateness = 1
    MaxCatchUp = 3
    Interval = 2
    RunOnceAfterCreate = TRUE
    Policy = "run_each"
    Cap = 2
    EndAt = 9
    Threshold = 2
    Backoff = 1
    OwnerLease = 1
    ClaimLease = 2
    Outcomes = {"Completed", "Transient"}
    Commands = {}
    MaxEvents = 0
    Horizon = 0
    MaxTime = 4
INVARIANTS
    NeverDrifts
CHECK_DEADLOCK FALSE
