\* Two replicas, the user deletes the VolumeResize at any moment, with one more fault.
SPECIFICATION Spec
CONSTANTS
    Replicas = 2
    NumVolumes = 1
    NumPVs = 6
    InitPV <- MCInitPV
    MaxWrites = 1
    BindingMode = "Immediate"
    Faults = {"crash", "podloss", "migfail", "lag", "slow", "userdelete"}
    MaxFaults = 2
    MinAvailable = 0
    InitPhases = {"Pending"}
    Requests = {"valid"}
CHECK_DEADLOCK FALSE
INVARIANTS
    
    BackupBeforeDelete
