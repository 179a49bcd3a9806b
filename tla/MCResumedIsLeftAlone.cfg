CONSTANTS
    Schedules = {s1}
    Clients = {c1}
    Triggers <- MCTriggers
    Invalid <- MCInvalid
    OneShot <- MCOneShot
    Endless <- MCEndless
    Threshold = 1
    ErrorCap = 1
    Calls <- StatusCalls
    MaxFaults = 0
SPECIFICATION Spec
PROPERTIES ResumedIsLeftAlone
CHECK_DEADLOCK FALSE
