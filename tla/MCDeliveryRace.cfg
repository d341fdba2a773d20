SPECIFICATION Spec
CONSTANTS
    Scheduler = sched
    Approvers = {a1, a2}
    LegacyEmpty = FALSE
    FaultKinds = {}
    MaxSends = 4
    MaxConfirms = 0
    MaxFaults = 0
INVARIANTS
    SentOnce
CHECK_DEADLOCK FALSE
