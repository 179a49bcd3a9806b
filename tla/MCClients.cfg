CONSTANTS
    Schedules = {s1}
    Clients = {c1, c2}
    Triggers <- MCTriggers
    Invalid <- MCInvalid
    OneShot <- MCOneShot
    Endless <- MCEndless
    Threshold = 2
    ErrorCap = 2
    Calls <- ClientCalls
    MaxFaults = 0
SPECIFICATION Spec
INVARIANTS OnlyActiveArmed Lockstep ThresholdEnforced
PROPERTIES DeletedForGood KeepsContract
SYMMETRY ClientSymmetry
CHECK_DEADLOCK FALSE
