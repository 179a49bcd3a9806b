CONSTANTS
    Runs = {r1}
    MaxRetries = 3
    Plans <- AllPlans
    Threshold = 1
    MaxFaults = 1
SPECIFICATION LiveSpec
INVARIANTS DeliveryTypeOK OutcomeEarned CountedBeforeReported NotifiedIsTrue EveryRunRecorded
PROPERTIES RunEnds FollowsRun
CHECK_DEADLOCK FALSE
