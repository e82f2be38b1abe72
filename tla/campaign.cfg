\* One StatefulSet that is edited once, two VolumeResizes of any size for it, deletes at any time.
SPECIFICATION Spec
CONSTANTS
    Names = {vr1, vr2}
    vr1 = vr1
    vr2 = vr2
    Sets = {"x"}
    Sizes = {1, 2, 3}
    Lag = 1
    Terminals = {1}
    Wishes <- MCTwoSided
    Commands <- MCWrites
    Habits = {}
    MaxReuse = 1
    MaxReplicas = 2
    InitReplicas = 2
    InitSize = 4
    Need <- MCNeed
    MaxEdits = 1
    Hanging = {}
CHECK_DEADLOCK FALSE
INVARIANTS
    QueueTypeOK
    AwayIsBackedUp
    ReturnsAsWanted
    ClaimsKeepData
    ClaimsFit
    FailsForLackOfRoom
    CopiesStill
    
    
    CursorWalksInOrder
    WantInv
PROPERTIES
    NeverGrows
    
    EachFollowsLifecycle
