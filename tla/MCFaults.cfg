CONSTANTS
    Schedules = {s1}
    Clients = {c1}
    Triggers <- ClosingTriggers
    Invalid <- MCInvalid
    OneShot <- MCOneShot
    Endless <- NoTriggers
    Threshold = 1
    ErrorCap = 1
    Calls <- FaultCalls
    MaxFaults = 2
SPECIFICATION Spec
INVARIANTS ServiceTypeOK ServiceInv LockstepInv ContractInv Lockstep FailsSafe ThresholdEnforced
CHECK_DEADLOCK FALSE
