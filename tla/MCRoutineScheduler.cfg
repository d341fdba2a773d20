SPECIFICATION FairSpec
CONSTANTS
    DaySlots = 8
    WeekDays = 1
    MonthDays <- Year
    Change = 0
    Reach = 0
    CronReach = 1
    Lateness = 1
    MaxCatchUp = 3
    Interval = 2
    RunOnceAfterCreate = TRUE
    Policy = "run_each"
    Cap = 2
    EndAt = 4
    Threshold = 1
    Backoff = 1
    OwnerLease = 1
    ClaimLease = 2
    Outcomes = {"Completed", "Transient", "AwaitingApproval", "Unverified", "Error"}
    Commands = {"pause", "resume", "update", "run_now", "delete", "approve"}
    MaxEvents = 2
    Horizon = 1
    MaxTime = 4
INVARIANTS
    TypeOK
    OneRunPerOccurrence
    DueOnlyWhereAsked
    ThresholdStops
    OnlyFailuresLeaveClaims
PROPERTIES
    AnnouncedWorkIsServed
CHECK_DEADLOCK FALSE
