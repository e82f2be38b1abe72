\* One replica, one migrator pod the informer shows late.
SPECIFICATION Spec
CONSTANTS
    Replicas = 1
    NumVolumes = 1
    NumPVs = 3
    InitPV <- MCInitPV
    MaxWrites = 1
    BindingMode = "Immediate"
    Faults = {"lag"}
    MaxFaults = 1
    MinAvailable = 0
    InitPhases = {"Pending"}
    Requests = {"valid"}
CHECK_DEADLOCK FALSE
INVARIANTS
    AppSeesItsWrites
