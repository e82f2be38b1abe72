\* Two replicas of two volumes, WaitForFirstConsumer, every kind of request, one fault of every kind.
SPECIFICATION Spec
CONSTANTS
    Replicas = 2
    NumVolumes = 2
    NumPVs = 8
    InitPV <- MCInitPV
    MaxWrites = 1
    BindingMode = "WaitForFirstConsumer"
    Faults = {"crash", "api", "podloss", "migfail", "lag", "slow", "userdelete", "backuploss"}
    MaxFaults = 1
    MinAvailable = 1
    InitPhases = {"Pending", "Replacing"}
    Requests = {"valid", "unknownVolume", "notSmaller"}
CHECK_DEADLOCK FALSE
INVARIANTS
    TypeOK
    OldPVRetained
    RetentionInv
PROPERTIES
    OldPVNeverOverwritten
    FollowsLifecycle
