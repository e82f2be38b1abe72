\* Two replicas, WaitForFirstConsumer, fair scheduling, at most two faults that neither stop the operator nor delay the volume controllers.
SPECIFICATION FairSpec
CONSTANTS
    Replicas = 2
    NumVolumes = 1
    NumPVs = 5
    InitPV <- MCInitPV
    MaxWrites = 1
    BindingMode = "WaitForFirstConsumer"
    Faults = {"podloss", "migfail", "lag", "userdelete", "backuploss"}
    MaxFaults = 2
    MinAvailable = 0
    InitPhases = {"Pending"}
    Requests = {"valid"}
CHECK_DEADLOCK FALSE
INVARIANTS
    SourceQuiesced
    CompletedHasSts
PROPERTIES
    NoSecondMigration
    Terminates
    AllPodsBack
