CONSTANTS
    Schedules = {s1}
    Clients = {c1}
    Triggers <- LiveTriggers
    Invalid <- NoTriggers
    OneShot <- NoTriggers
    Endless <- LiveTriggers
    Threshold = 1
    ErrorCap = 1
    Calls <- LiveCalls
    MaxFaults = 1
SPECIFICATION LiveSpec
INVARIANTS Lockstep ThresholdEnforced
PROPERTIES KeepsContract RunNowFires  RestartRepairs
CHECK_DEADLOCK FALSE
