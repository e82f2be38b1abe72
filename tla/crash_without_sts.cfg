\* One replica, one crash.
SPECIFICATION Spec
CONSTANTS
    Replicas = 1
    NumVolumes = 1
    NumPVs = 3
    InitPV <- MCInitPV
    MaxWrites = 1
    BindingMode = "Immediate"
    Faults = {"crash"}
    MaxFaults = 1
    MinAvailable = 0
    InitPhases = {"Pending"}
    Requests = {"valid"}
CHECK_DEADLOCK FALSE
INVARIANTS
    CompletedHasSts
