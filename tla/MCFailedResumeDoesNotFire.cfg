CONSTANTS
    Schedules = {s1}
    Clients = {c1}
    Triggers <- MCTriggers
    Invalid <- MCInvalid
    OneShot <- MCOneShot
    Endless <- MCEndless
    Threshold = 1
    ErrorCap = 1
    Calls <- StatusCalls
    MaxFaults = 1
SPECIFICATION Spec
PROPERTIES FailedResumeDoesNotFire
CHECK_DEADLOCK FALSE
