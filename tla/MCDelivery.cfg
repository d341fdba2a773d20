SPECIFICATION FairSpec
CONSTANTS
    Scheduler = sched
    Approvers = {a1}
    LegacyEmpty = TRUE
    FaultKinds = {"crash", "write", "lookup"}
    MaxSends = 3
    MaxConfirms = 1
    MaxFaults = 2
INVARIANTS
    TypeOK
    OneReceiptPerKey
    ClosedIsDelivered
PROPERTIES
    ImplementsEffectOnce
    FaultFreeRetryIsTaken
CHECK_DEADLOCK FALSE
