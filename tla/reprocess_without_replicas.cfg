\* A StatefulSet scaled to zero that kept the claim of replica 0.
SPECIFICATION Spec
CONSTANTS
    Replicas = 0
    NumVolumes = 1
    NumPVs = 4
    InitPV <- MCInitPV
    MaxWrites = 1
    BindingMode = "Immediate"
    Faults = {}
    MaxFaults = 0
    MinAvailable = 0
    InitPhases = {"Pending"}
    Requests = {"valid"}
CHECK_DEADLOCK FALSE
PROPERTIES
    NoSecondMigration
