\* Three replicas of one volume, Immediate binding, a budget of one, one fault that leaves the data whole.
SPECIFICATION Spec
CONSTANTS
    Replicas = 3
    NumVolumes = 1
    NumPVs = 6
    InitPV <- MCInitPV
    MaxWrites = 2
    BindingMode = "Immediate"
    Faults = {"migfail", "slow", "userdelete", "backuploss"}
    MaxFaults = 1
    MinAvailable = 1
    InitPhases = {"Pending"}
    Requests = {"valid"}
CHECK_DEADLOCK FALSE
INVARIANTS
    AppSeesItsWrites
    CompletedSlotMoved
    SourceQuiesced
    CompletedHasSts
    
    RecoveryNamed
PROPERTIES
    NoSecondMigration
