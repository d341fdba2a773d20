SPECIFICATION FairSpec
CONSTANTS
    NodeCount = 1
    Runner = runner
    Approvers = {}
    Workers = {w1}
    Ledger = {ledger}
    Scheduled = TRUE
    MaxRuns = 2
    MaxDecisions = 1
    MaxFaults = 1
INVARIANTS AtMostOnce
PROPERTIES HaltIsReported
CHECK_DEADLOCK FALSE
