CONSTANTS
    Schedules = {s1}
    Clients = {c1, c2}
    Triggers <- MCTriggers
    Invalid <- MCInvalid
    OneShot <- MCOneShot
    Endless <- MCEndless
    Threshold = 1
    ErrorCap = 1
    Calls <- EditCalls
    MaxFaults = 0
SPECIFICATION Spec
INVARIANTS PausedHasNoJob
CHECK_DEADLOCK FALSE
