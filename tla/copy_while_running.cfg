\* Two replicas, one crash.
SPECIFICATION Spec
CONSTANTS
    Replicas = 2
    NumVolumes = 1
    NumPVs = 4
    InitPV <- MCInitPV
    MaxWrites = 1
    BindingMode = "Immediate"
    Faults = {"crash"}
    MaxFaults = 1
    MinAvailable = 0
    InitPhases = {"Pending"}
    Requests = {"valid"}
CHECK_DEADLOCK FALSE
INVARIANTS
    SourceQuiesced
