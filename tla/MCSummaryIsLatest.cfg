CONSTANTS
    Runs = {r1, r2}
    MaxRetries = 1
    Plans <- TwoPlans
    Threshold = 1
    MaxFaults = 0
SPECIFICATION Spec
INVARIANTS SummaryIsLatest
CHECK_DEADLOCK FALSE
