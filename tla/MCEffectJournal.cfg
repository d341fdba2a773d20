SPECIFICATION Spec
CONSTANTS
    NodeCount = 2
    Runner = runner
    Approvers = {a1, a2}
    Workers = {w1, w2}
    Ledger = {}
    Scheduled = FALSE
    MaxRuns = 3
    MaxDecisions = 2
    MaxFaults = 1
SYMMETRY ThreadSymmetry
INVARIANTS TypeOK Budget VerifiedHasReceipt SuccessIsReal ResolvedOnce
PROPERTIES ImplementsEffectOnce StopIsFinal
CHECK_DEADLOCK FALSE
