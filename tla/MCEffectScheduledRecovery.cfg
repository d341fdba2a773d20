SPECIFICATION Spec
CONSTANTS
    NodeCount = 1
    Runner = runner
    Approvers = {}
    Workers = {w1}
    Ledger = {}
    Scheduled = TRUE
    MaxRuns = 1
    MaxDecisions = 0
    MaxFaults = 0
INVARIANTS SavedForRecovery
CHECK_DEADLOCK FALSE
