CONSTANTS
    s1 = s1
    s2 = s2
    c1 = c1
    c2 = c2
    Schedules <- MCSchedules
    Clients <- MCClients
    Owners <- MCOwners
    Names <- MCNames
    Offset <- MCOffset
    DayLength = 24
    HeaderKey <- MCHeaderKey
    HeaderRank <- MCHeaderRank
    Calls <- MCCalls
    Specifications <- MCSpecifications
    Hours <- MCHours
    Now = 12
    MaxFaults = 1
    MaxRequests = 3
SYMMETRY Symmetry
SPECIFICATION Spec
CHECK_DEADLOCK FALSE
INVARIANTS
    ArmableMeansFires
    EditsTypeOK
    EditsInv
    ArmedWasChecked
    StoredTriggerBuilds
    JobFollowsFields
    EditsFailSafe
    MaskNeverStored
PROPERTIES
    KeepsDirectory
    OnlyNamedFieldsChange
    MaskKeepsValue
    FollowsLifecycle
